------------------------ MODULE ShmLifecycleProofs ------------------------
(***************************************************************************)
(* Theorems about ShmLifecycle, for any number of sessions that use the    *)
(* same names, in one process or in two.  In a session s the creator C(s)  *)
(* makes the segments <<s, 1>> and <<s, 2>>, in this order; the attacher   *)
(* A(s) looks for <<s, 2>> first.                                          *)
(***************************************************************************)
EXTENDS ShmLifecycle, FiniteSetTheorems, TLAPS

\* The direction in which an end uses the segment with key k
CDir(k) == IF k = 1 THEN "send" ELSE "recv"
ADir(k) == IF k = 1 THEN "recv" ELSE "send"

\* The creator has initialised the segment, the attacher has attached to it.
Inited(s, k)   == view[C(s)][CDir(k)] # None
Attached(s, k) == view[A(s)][ADir(k)] # None

\* The creator has opened the segment at least.
Made(s, k) == Inited(s, k) \/ (pc[C(s)] = "init" /\ dir[C(s)] = CDir(k))

-----------------------------------------------------------------------------
(* The invariant *)

\* With the lock file open, and with its fcntl lock
Locked == {"count", "keylock", "close"} \cup Critical
Opened == {"fcntl"} \cup Locked

Locking == {"lockfile", "fcntl", "count", "keylock"}

\* Each end runs its own code.  A process aborts as a whole, and only by an
\* assert of the attacher.
PcInv ==
    /\ \A s \in Session :
          /\ pc[C(s)] \notin {"poll", "attach", "unlink", "delete"}
          /\ pc[A(s)] \notin {"destroy", "create", "init", "drop"}
          /\ pc[C(s)] \in {"off", "up", "gone"} => dir[C(s)] = "send"
          /\ pc[A(s)] \in {"off", "up", "gone"} => dir[A(s)] = "send"
          /\ pc[C(s)] = "aborted" => together
    /\ together => \A e, x \in End : pc[e] = "aborted" => pc[x] = "aborted"
    /\ \A s, t \in Session : pc[A(s)] = "aborted" => pc[A(t)] = "aborted"

\* Which ends use an entry of s_key_lock_global_map
Users(p, k) == {e \in End : proc(e) = p /\ key(e) = k /\ pc[e] \in {"keylock"} \cup Critical}

CounterInv == \A p \in Process, k \in Key : Cardinality(Users(p, k)) <= counter[p][k]

\* The key mutex excludes the threads of one process.
MutexInv ==
    \A e, x \in End : e # x /\ proc(e) = proc(x) /\ key(e) = key(x)
        => ~(pc[e] \in Critical /\ pc[x] \in Critical)

\* How far the creator is with its segments
CreatorInv(s) ==
    /\ pc[C(s)] \in {"off", "destroy"} => ~Inited(s, 1) /\ ~Inited(s, 2)
    /\ pc[C(s)] \in Locking \cup {"create", "init"} =>
          IF dir[C(s)] = "send" THEN ~Inited(s, 1) /\ ~Inited(s, 2)
                                ELSE Inited(s, 1) /\ ~Inited(s, 2)
    /\ pc[C(s)] \in {"free", "close"} =>
          IF dir[C(s)] = "send" THEN Inited(s, 1) /\ ~Inited(s, 2)
                                ELSE Inited(s, 1) /\ Inited(s, 2)
    /\ pc[C(s)] \in {"up", "drop", "gone"} => Inited(s, 1) /\ Inited(s, 2)
    /\ pc[C(s)] = "init" => fd[C(s)] = <<s, key(C(s))>>

\* How far the attacher is: it holds on to segments of its own session.
AttacherInv(s) ==
    /\ pc[A(s)] \in {"off"} \cup Locking \cup {"poll", "attach"} =>
          IF dir[A(s)] = "send" THEN ~Attached(s, 2) /\ ~Attached(s, 1)
                                ELSE Attached(s, 2) /\ ~Attached(s, 1)
    /\ pc[A(s)] \in {"unlink", "free", "close", "delete"} =>
          IF dir[A(s)] = "send" THEN Attached(s, 2) /\ ~Attached(s, 1)
                                ELSE Attached(s, 2) /\ Attached(s, 1)
    /\ pc[A(s)] \in {"up", "gone"} => Attached(s, 1) /\ Attached(s, 2)
    /\ pc[A(s)] \in Locking \cup {"attach", "unlink"} =>
          fd[A(s)] = <<s, key(A(s))>> /\ Made(s, key(A(s)))

\* Views are of the session's own segments, and in the order of the code.
ViewInv(s) ==
    /\ \A k \in Key : /\ view[C(s)][CDir(k)] \in {None, <<s, k>>}
                      /\ view[A(s)][ADir(k)] \in {None, <<s, k>>}
                      /\ Attached(s, k) => Inited(s, k)
                      /\ Inited(s, k) => <<s, k>> \in inited

\* What client_attached counts
AttachInv(s) ==
    /\ \A k \in Key :
          /\ Attached(s, k) => client_attached[<<s, k>>] > 0
          /\ ~Attached(s, k) /\ pc[C(s)] \notin {"drop", "gone", "aborted"} =>
                client_attached[<<s, k>>] = 0
          /\ pc[C(s)] = "gone" => client_attached[<<s, k>>] > 0
    /\ pc[C(s)] = "drop" /\ dir[C(s)] = "recv" => client_attached[<<s, 1>>] > 0

\* A name is there from shm_open to the end that counts first.
NameInv(s) ==
    \A k \in Key : name[k] = <<s, k>> =>
        /\ Made(s, k)
        /\ client_attached[<<s, k>>] > 0 => pc[A(s)] = "unlink" /\ fd[A(s)] = <<s, k>>

\* The names left by an earlier run, which the first constructor removes
OldNameInv ==
    /\ \A k \in Key : name[k] \in {None, <<0, k>>} \cup {<<s, k>> : s \in Session}
    /\ \A k \in Key : name[k] = <<0, k>> =>
          /\ pc[A(1)] = "off"
          /\ pc[C(1)] = "off" \/ (pc[C(1)] = "destroy" /\ (k = 1 => dir[C(1)] = "send"))

\* A session begins when the ends of the one before have met.
Active(e) == pc[e] \notin {"off", "aborted"}
OrderInv ==
    \A r, s \in Session : r < s /\ (Active(C(s)) \/ Active(A(s))) =>
        /\ Attached(r, 1) /\ Attached(r, 2)
        /\ pc[C(r)] \in {"up", "drop", "gone", "aborted"}
        /\ pc[A(r)] \in {"up", "gone", "aborted"}

\* Between processes the file lock excludes: both have opened the same file.
FileLockInv ==
    ~together =>
        /\ \A e \in End : pc[e] \in Opened => lock_fd[e] = lockfile[key(e)] /\ lock_fd[e] # 0
        /\ \A e \in End : pc[e] \in Locked => <<e[1], key(e), lock_fd[e]>> \in locked
        /\ \A k \in Key, f \in Nat :
              ~(<<"creator", k, f>> \in locked /\ <<"attacher", k, f>> \in locked)
        /\ \A s \in Session : pc[A(s)] = "delete" /\ key(C(s)) = key(A(s)) => pc[C(s)] \notin Opened

SessionInv == \A s \in Session :
    CreatorInv(s) /\ AttacherInv(s) /\ ViewInv(s) /\ AttachInv(s) /\ NameInv(s)

Inv == /\ TypeOK /\ PcInv /\ CounterInv /\ MutexInv /\ SessionInv /\ OldNameInv /\ OrderInv
       /\ FileLockInv

-----------------------------------------------------------------------------
(* Ends and keys *)

\* An end is the creator or the attacher of a session.
LEMMA Ends ==
    /\ \A e \in End : e[2] \in Session /\ (e = C(e[2]) \/ e = A(e[2]))
    /\ \A s \in Session : /\ C(s) \in End /\ C(s)[1] = "creator" /\ C(s)[2] = s
                          /\ A(s) \in End /\ A(s)[1] = "attacher" /\ A(s)[2] = s
    /\ \A s, t \in Session : C(s) # A(t)
    /\ \A s, t \in Session : s # t => C(s) # C(t) /\ A(s) # A(t)
BY DEF End, C, A

\* The two ends call a segment's key by opposite directions.
LEMMA Keys ==
    ASSUME TypeOK
    PROVE  /\ \A s \in Session : /\ key(C(s)) = (IF dir[C(s)] = "send" THEN 1 ELSE 2)
                                 /\ key(A(s)) = (IF dir[A(s)] = "send" THEN 2 ELSE 1)
           /\ \A e \in End : key(e) \in Key /\ key(e) \in {1, 2}
<1>1. \A e \in End : dir[e] \in {"send", "recv"}
  BY DEF TypeOK, Dir
<1>2. \A e \in End : e[1] = "creator" => key(e) = (IF dir[e] = "send" THEN 1 ELSE 2)
  BY <1>1 DEF key, get_shm_key
<1>3. \A e \in End : e[1] # "creator" => key(e) = (IF dir[e] = "send" THEN 2 ELSE 1)
  BY <1>1 DEF key, get_shm_key
<1>. QED BY <1>2, <1>3, Ends DEF Key

\* The same of the state after a step
LEMMA KeysNext ==
    ASSUME TypeOK'
    PROVE  /\ \A s \in Session : /\ key(C(s))' = (IF dir'[C(s)] = "send" THEN 1 ELSE 2)
                                 /\ key(A(s))' = (IF dir'[A(s)] = "send" THEN 2 ELSE 1)
           /\ \A e \in End : key(e)' \in Key /\ key(e)' \in {1, 2}
<1>1. \A e \in End : dir'[e] \in {"send", "recv"}
  BY DEF TypeOK, Dir
<1>2. \A e \in End : e[1] = "creator" => key(e)' = (IF dir'[e] = "send" THEN 1 ELSE 2)
  BY <1>1 DEF key, get_shm_key
<1>3. \A e \in End : e[1] # "creator" => key(e)' = (IF dir'[e] = "send" THEN 2 ELSE 1)
  BY <1>1 DEF key, get_shm_key
<1>. QED BY <1>2, <1>3, Ends DEF Key

\* The process of an end is one of the processes, for good.
LEMMA Processes ==
    /\ \A e \in End : proc(e) \in Process
    /\ together => \A e, x \in End : proc(e) = proc(x)
    /\ ~together => \A e \in End : proc(e) = e[1]
    /\ together' = together => \A e \in End : proc(e)' = proc(e)
BY DEF proc, Process, End

\* There are finitely many ends.
LEMMA EndFinite == IsFiniteSet(End)
<1>1. IsFiniteSet({"creator"} \cup {"attacher"})
  <2>1. IsFiniteSet({"creator"}) /\ IsFiniteSet({"attacher"})
    BY FS_Singleton
  <2>. QED BY <2>1, FS_Union
<1>2. {"creator"} \cup {"attacher"} = {"creator", "attacher"}
  OBVIOUS
<1>3. IsFiniteSet(Session)
  BY ShmAssumption, FS_Interval DEF Session
<1>. QED BY <1>1, <1>2, <1>3, FS_Product DEF End

\* What belongs to an end
EndState(e) == <<pc[e], dir[e], fd[e], view[e], lock_fd[e]>>
Others(e) == \A x \in End : x # e => UNCHANGED EndState(x)

\* An assert fails.
Aborts(e) == AttachView(e) /\ client_attached'[fd[e]] # 1

\* Every other step is one of a single end.
LEMMA OneEnd ==
    ASSUME TypeOK, NEW e \in End, Construct(e) \/ Step(e) \/ Destroy(e), ~Aborts(e)
    PROVE  Others(e) /\ together' = together
<1> USE DEF Others, EndState, shm, locks, TypeOK, Goto, NextDir
<1>1. CASE Construct(e) \/ Destroy(e) \/ KeyLock(e)
  BY <1>1 DEF Construct, Destroy, KeyLock
<1>2. CASE OpenLockFile(e)
  BY <1>2 DEF OpenLockFile
<1>3. CASE Fcntl(e) \/ CountKeyLock(e) \/ FreeKeyLock(e)
  BY <1>3 DEF Fcntl, FcntlIf, CountKeyLock, FreeKeyLock, FreeKey
<1>4. CASE CloseLockFile(e) \/ destroy_shm(e) \/ delete_file_lock(e)
  BY <1>4 DEF CloseLockFile, destroy_shm, delete_file_lock
<1>5. CASE CreateShm(e) \/ OpenShm(e)
  BY <1>5 DEF CreateShm, OpenShm, OpenAs
<1>6. CASE InitView(e)
  BY <1>6 DEF InitView
<1>7. CASE AttachView(e)
  BY <1>7 DEF AttachView, Aborts
<1>8. CASE UnlinkShm(e) \/ DropShm(e)
  BY <1>8 DEF UnlinkShm, DropShm, DropIf
<1>. QED BY <1>1, <1>2, <1>3, <1>4, <1>5, <1>6, <1>7, <1>8 DEF Step

-----------------------------------------------------------------------------
(* Who can be under way at the same time *)

\* Between its construction and "up", so in a constructor or in attach_shm
Settled == {"off", "up", "drop", "gone", "aborted"}
Busy(e) == pc[e] \notin Settled

\* Only ends of one session are.
LEMMA OneSession ==
    ASSUME Inv, NEW e \in End, NEW x \in End, Busy(e), Busy(x)
    PROVE  e[2] = x[2]
<1>1. ASSUME NEW a \in End, NEW b \in End, Busy(a), Busy(b), a[2] < b[2]
      PROVE  FALSE
  <2>1. Active(C(b[2])) \/ Active(A(b[2]))
    BY <1>1, Ends DEF Busy, Settled, Active
  <2>2. pc[C(a[2])] \in Settled /\ pc[A(a[2])] \in Settled
    BY <1>1, <2>1, Ends DEF Inv, OrderInv, Settled
  <2>. QED BY <1>1, <2>2, Ends DEF Busy
<1>2. e[2] \in Int /\ x[2] \in Int
  BY Ends, ShmAssumption DEF Session
<1>. QED BY <1>1, <1>2

\* While an end is there, every name is from its own session or a later one,
\* whose ends then have met.
LEMMA NamesOf ==
    ASSUME Inv, NEW s \in Session, NEW k \in Key,
           Active(C(s)) \/ Active(A(s)), name[k] # None
    PROVE  \/ name[k] = <<s, k>>
           \/ name[k] = <<0, k>> /\ s = 1 /\ pc[A(s)] = "off" /\ pc[C(s)] = "destroy"
           \/ Attached(s, k) /\ pc[C(s)] \in Settled /\ pc[A(s)] \in Settled
<1>0. s \in Int /\ 1 <= s /\ 1 \in Session /\ \A r \in Session : r \in Int
  BY ShmAssumption DEF Session
<1>1. CASE name[k] = <<0, k>>
  <2>1. pc[A(1)] = "off" /\ pc[C(1)] \in {"off", "destroy"}
    BY <1>1 DEF Inv, OldNameInv
  <2>2. ~(1 < s)
    BY <1>0, <2>1 DEF Inv, OrderInv
  <2>3. s = 1
    BY <1>0, <2>2
  <2>. QED BY <1>1, <2>1, <2>3 DEF Active
<1>2. ASSUME NEW r \in Session, name[k] = <<r, k>>, r # s
      PROVE  Attached(s, k) /\ pc[C(s)] \in Settled /\ pc[A(s)] \in Settled
  <2>1. NameInv(r) /\ CreatorInv(r) /\ AttachInv(r) /\ TypeOK /\ PcInv /\ OrderInv
    BY DEF Inv, SessionInv
  <2>2. CASE r < s
    <3>1. Attached(r, k) /\ pc[A(r)] # "unlink"
      BY <2>1, <2>2 DEF OrderInv, Key
    <3>2. client_attached[<<r, k>>] > 0
      BY <2>1, <3>1 DEF AttachInv
    <3>. QED BY <1>2, <2>1, <3>1, <3>2 DEF NameInv
  <2>3. CASE s < r
    <3>1. Made(r, k)
      BY <1>2, <2>1 DEF NameInv
    <3>2. pc[C(r)] # "off"
      BY <2>1, <3>1 DEF CreatorInv, Made, Key
    <3>3. pc[C(r)] # "aborted"
      BY <2>1, Ends DEF PcInv, Active
    <3>4. Active(C(r))
      BY <3>2, <3>3 DEF Active
    <3>. QED BY <2>1, <2>3, <3>4 DEF OrderInv, Settled, Key
  <2>. QED BY <1>0, <1>2, <2>2, <2>3
<1>. QED BY <1>1, <1>2 DEF Inv, OldNameInv

\* In particular what a busy end finds under a name is its own.
LEMMA OwnName ==
    ASSUME Inv, NEW s \in Session, NEW k \in Key, Busy(C(s)) \/ Busy(A(s)),
           pc[C(s)] # "destroy" \/ Busy(A(s))
    PROVE  name[k] \in {None, <<s, k>>}
<1>1. Active(C(s)) \/ Active(A(s))
  BY DEF Busy, Settled, Active
<1>. QED BY <1>1, NamesOf DEF Busy, Settled

\* The attacher in its critical section has the segment initialised.
LEMMA Excluded ==
    ASSUME Inv, NEW s \in Session, pc[A(s)] = "attach"
    PROVE  Inited(s, key(A(s))) /\ fd[A(s)] = <<s, key(A(s))>>
<1>1. TypeOK /\ Made(s, key(A(s))) /\ fd[A(s)] = <<s, key(A(s))>>
  BY DEF Inv, SessionInv, AttacherInv, Critical
<1>2. ASSUME pc[C(s)] = "init", key(C(s)) = key(A(s)) PROVE FALSE
  <2>1. pc[C(s)] \in Critical /\ pc[A(s)] \in Critical
    BY <1>2 DEF Critical
  <2>2. CASE together
    BY <1>2, <2>1, <2>2, Ends, Processes DEF Inv, MutexInv
  <2>3. CASE ~together
    <3>1. pc[C(s)] \in Locked /\ pc[A(s)] \in Locked /\ pc[C(s)] \in Opened /\ pc[A(s)] \in Opened
      BY <2>1 DEF Locked, Opened
    <3>2. lock_fd[C(s)] = lock_fd[A(s)] /\ lock_fd[C(s)] \in Nat
      BY <1>1, <1>2, <2>3, <3>1, Ends DEF Inv, FileLockInv, TypeOK
    <3>3. /\ <<"creator", key(C(s)), lock_fd[C(s)]>> \in locked
          /\ <<"attacher", key(C(s)), lock_fd[C(s)]>> \in locked
      BY <1>2, <2>3, <3>1, <3>2, Ends DEF Inv, FileLockInv
    <3>. QED BY <1>1, <2>3, <3>2, <3>3, Keys, Ends DEF Inv, FileLockInv
  <2>. QED BY <2>2, <2>3
<1>. QED BY <1>1, <1>2, Keys, Ends DEF Made, CDir

-----------------------------------------------------------------------------
(* Types, control, the key mutex and its counter *)

\* A segment of a session is one; none is <<>>.
LEMMA SegmentTypes ==
    /\ \A s \in Session, k \in Key : <<s, k>> \in Seg /\ <<s, k>> # None
    /\ \A k \in Key : <<0, k>> # None
<1>1. \A s \in Session : s \in 0 .. MaxSession
  BY ShmAssumption DEF Session
<1>2. \A s \in Session, k \in Key : <<s, k>> \in Seg /\ <<s, k>> # None
  BY <1>1 DEF Seg, None
<1>3. \A k \in Key : <<0, k>> # None
  BY DEF None
<1>. QED BY <1>2, <1>3

\* The views after one end has begun to use a segment
LEMMA ViewTypes ==
    ASSUME TypeOK, NEW e \in End, NEW d \in Dir, NEW g \in Seg \cup {None},
           view' = [view EXCEPT ![e][d] = g]
    PROVE  view' \in [End -> [Dir -> Seg \cup {None}]]
BY DEF TypeOK

\* client_attached counted up for a segment, if it is one
LEMMA CountTypes ==
    ASSUME TypeOK, NEW g, client_attached' = [client_attached EXCEPT ![g] = @ + 1]
    PROVE  client_attached' \in [Seg -> Nat]
<1>1. client_attached \in [Seg -> Nat]
  BY DEF TypeOK
<1>2. CASE g \in Seg
  BY <1>1, <1>2
<1>3. CASE g \notin Seg
  <2>1. client_attached' = client_attached
    BY <1>1, <1>3
  <2>. QED BY <1>1, <2>1
<1>. QED BY <1>2, <1>3

\* A counter is positive where the entry is used.
LEMMA Counted ==
    ASSUME Inv, NEW e \in End, pc[e] \in {"keylock"} \cup Critical
    PROVE  counter[proc(e)][key(e)] > 0 /\ counter[proc(e)][key(e)] \in Nat
<1>1. TypeOK /\ key(e) \in Key /\ proc(e) \in Process
  BY Keys, Processes DEF Inv
<1>2. e \in Users(proc(e), key(e)) /\ Users(proc(e), key(e)) \subseteq End
  BY DEF Users
<1>3. IsFiniteSet(Users(proc(e), key(e)))
  BY <1>2, EndFinite, FS_Subset
<1>4. Cardinality(Users(proc(e), key(e))) \in Nat /\ Cardinality(Users(proc(e), key(e))) # 0
  BY <1>2, <1>3, FS_CardinalityType, FS_EmptySet
<1>5. counter[proc(e)][key(e)] \in Nat
  BY <1>1 DEF TypeOK
<1>. QED BY <1>1, <1>4, <1>5 DEF Inv, CounterInv

\* Steps keep the types.
LEMMA TypeStep ==
    ASSUME Inv, NEW e \in End, Construct(e) \/ Step(e) \/ Destroy(e)
    PROVE  TypeOK'
<1>0. TypeOK /\ key(e) \in Key /\ proc(e) \in Process
  BY Keys, Processes DEF Inv
<1> USE DEF shm, locks
<1>1. CASE Construct(e) \/ Destroy(e) \/ KeyLock(e)
  BY <1>0, <1>1 DEF Construct, Destroy, KeyLock, Goto, TypeOK, Critical
<1>2. CASE OpenLockFile(e)
  BY <1>0, <1>2 DEF OpenLockFile, Goto, TypeOK
<1>3. CASE Fcntl(e)
  BY <1>0, <1>3 DEF Fcntl, FcntlIf, Goto, TypeOK
<1>4. CASE CountKeyLock(e)
  <2>1. counter' \in [Process -> [Key -> Nat]]
    BY <1>0, <1>4 DEF CountKeyLock, TypeOK
  <2>. QED BY <1>0, <1>4, <2>1 DEF CountKeyLock, Goto, TypeOK
<1>5. CASE FreeKeyLock(e)
  <2>0. counter[proc(e)][key(e)] - 1 \in Nat
    BY <1>5, Counted DEF FreeKeyLock, FreeKey, Critical
  <2>1. counter' \in [Process -> [Key -> Nat]]
    BY <1>0, <1>5, <2>0 DEF FreeKeyLock, FreeKey, TypeOK
  <2>. QED BY <1>0, <1>5, <2>1 DEF FreeKeyLock, FreeKey, Goto, TypeOK
<1>6. CASE CloseLockFile(e)
  BY <1>0, <1>6 DEF CloseLockFile, NextDir, Goto, TypeOK, Dir
<1>7. CASE destroy_shm(e)
  BY <1>0, <1>7 DEF destroy_shm, unlinked, NextDir, TypeOK, Dir
<1>8. CASE CreateShm(e)
  <2>1. <<e[2], key(e)>> \in Seg
    BY <1>0, Ends, SegmentTypes
  <2>. QED BY <1>0, <1>8, <2>1 DEF CreateShm, Goto, TypeOK, Critical
<1>9. CASE InitView(e)
  <2>0. e = C(e[2]) /\ fd[e] = <<e[2], key(e)>>
    BY <1>9, Ends DEF InitView, Inv, PcInv, SessionInv, CreatorInv
  <2>1. fd[e] \in Seg /\ dir[e] \in Dir
    BY <1>0, <2>0, Ends, SegmentTypes DEF TypeOK
  <2>2. view' \in [End -> [Dir -> Seg \cup {None}]]
    BY <1>0, <1>9, <2>1, ViewTypes DEF InitView
  <2>. QED BY <1>0, <1>9, <2>1, <2>2 DEF InitView, Goto, TypeOK, Critical
<1>10. CASE OpenShm(e)
  BY <1>0, <1>10 DEF OpenShm, OpenAs, Goto, TypeOK
<1>11. CASE AttachView(e)
  <2>1. fd[e] \in Seg \cup {None} /\ dir[e] \in Dir
    BY <1>0 DEF TypeOK
  <2>0. view \in [End -> [Dir -> Seg \cup {None}]]
    BY <1>0 DEF TypeOK
  <2>2. view' \in [End -> [Dir -> Seg \cup {None}]]
    <3>1. view' = view \/ view' = [view EXCEPT ![e][dir[e]] = fd[e]]
      BY <1>11 DEF AttachView, Abort
    <3>. QED BY <1>0, <2>0, <2>1, <3>1, ViewTypes
  <2>3. client_attached' \in [Seg -> Nat]
    BY <1>0, <1>11, CountTypes DEF AttachView
  <2>4. locked' \subseteq Process \X Key \X Nat /\ pc' \in [End -> {"aborted", "unlink"} \cup {pc[x] : x \in End}]
    BY <1>0, <1>11 DEF AttachView, Abort, Goto, TypeOK
  <2>. QED BY <1>0, <1>11, <2>2, <2>3, <2>4 DEF AttachView, Abort, Goto, TypeOK, Critical
<1>12. CASE UnlinkShm(e)
  BY <1>0, <1>12 DEF UnlinkShm, unlinked, Goto, TypeOK, Critical
<1>13. CASE delete_file_lock(e)
  BY <1>0, <1>13 DEF delete_file_lock, NextDir, TypeOK, Dir
<1>14. CASE DropShm(e)
  <2>1. client_attached' \in [Seg -> Nat]
    BY <1>0, <1>14, CountTypes DEF DropShm, DropIf
  <2>2. name' \in [Key -> Seg \cup {None}]
    BY <1>0, <1>14 DEF DropShm, DropIf, unlinked, TypeOK
  <2>. QED BY <1>0, <1>14, <2>1, <2>2 DEF DropShm, DropIf, NextDir, TypeOK, Dir
<1>. QED BY <1>1, <1>2, <1>3, <1>4, <1>5, <1>6, <1>7, <1>8, <1>9, <1>10, <1>11, <1>12, <1>13, <1>14
     DEF Step

\* Where a step leads from and to, and with which segment: the course of an
\* end through the code.
Ahead(e) ==
    \/ /\ dir'[e] = dir[e]
       /\ <<pc[e], pc'[e]>> \in
             {<<"lockfile", "fcntl">>, <<"fcntl", "count">>, <<"count", "keylock">>,
              <<"free", "close">>}
    \/ /\ e[1] = "creator" /\ dir'[e] = dir[e]
       /\ <<pc[e], pc'[e]>> \in
             {<<"off", "destroy">>, <<"keylock", "create">>, <<"create", "init">>,
              <<"init", "free">>, <<"up", "drop">>}
    \/ /\ e[1] = "attacher" /\ dir'[e] = dir[e]
       /\ <<pc[e], pc'[e]>> \in
             {<<"off", "poll">>, <<"poll", "lockfile">>, <<"keylock", "attach">>,
              <<"attach", "unlink">>, <<"unlink", "free">>, <<"close", "delete">>, <<"up", "gone">>}
    \/ /\ e[1] = "creator" /\ dir[e] = "send" /\ dir'[e] = "recv"
       /\ <<pc[e], pc'[e]>> \in {<<"destroy", "destroy">>, <<"close", "lockfile">>, <<"drop", "drop">>}
    \/ /\ e[1] = "creator" /\ dir[e] = "recv" /\ dir'[e] = "send"
       /\ <<pc[e], pc'[e]>> \in {<<"destroy", "lockfile">>, <<"close", "up">>, <<"drop", "gone">>}
    \/ /\ e[1] = "attacher" /\ dir[e] = "send" /\ dir'[e] = "recv" /\ pc[e] = "delete" /\ pc'[e] = "poll"
    \/ /\ e[1] = "attacher" /\ dir[e] = "recv" /\ dir'[e] = "send" /\ pc[e] = "delete" /\ pc'[e] = "up"

\* Every step but a failing assert is one along this course.
LEMMA Course ==
    ASSUME TypeOK, PcInv, NEW e \in End, Construct(e) \/ Step(e) \/ Destroy(e), ~Aborts(e)
    PROVE  Ahead(e)
<1>0. /\ pc \in [End -> {pc[x] : x \in End}] /\ dir \in [End -> Dir] /\ dir[e] \in {"send", "recv"}
      /\ e[1] = "creator" \/ e[1] = "attacher"
  BY Ends DEF TypeOK, Dir
<1>1. CASE Construct(e) \/ Destroy(e) \/ KeyLock(e)
  BY <1>0, <1>1 DEF Construct, Destroy, KeyLock, Goto, Ahead
<1>2. CASE OpenLockFile(e) \/ CountKeyLock(e) \/ Fcntl(e) \/ FreeKeyLock(e)
  BY <1>0, <1>2 DEF OpenLockFile, CountKeyLock, Fcntl, FcntlIf, FreeKeyLock, FreeKey, Goto, Ahead
<1>3. CASE CloseLockFile(e)
  BY <1>0, <1>3 DEF CloseLockFile, NextDir, Goto, Ahead
<1>4. e[1] = "creator" => pc[e] \notin {"poll", "attach", "unlink", "delete"}
  BY Ends DEF PcInv
<1>5. e[1] = "attacher" => pc[e] \notin {"destroy", "create", "init", "drop"}
  BY Ends DEF PcInv
<1>6. CASE destroy_shm(e) \/ DropShm(e)
  BY <1>0, <1>5, <1>6 DEF destroy_shm, DropShm, DropIf, NextDir, Ahead
<1>7. CASE CreateShm(e) \/ InitView(e)
  BY <1>0, <1>5, <1>7 DEF CreateShm, InitView, Goto, Ahead
<1>8. CASE OpenShm(e) \/ UnlinkShm(e)
  BY <1>0, <1>4, <1>8 DEF OpenShm, OpenAs, UnlinkShm, Goto, Ahead
<1>9. CASE AttachView(e)
  BY <1>0, <1>4, <1>9 DEF AttachView, Aborts, Goto, Ahead
<1>10. CASE delete_file_lock(e)
  BY <1>0, <1>4, <1>10 DEF delete_file_lock, NextDir, Ahead
<1>. QED BY <1>1, <1>2, <1>3, <1>6, <1>7, <1>8, <1>9, <1>10 DEF Step

\* A failing assert ends the attacher's process.
LEMMA AbortCourse ==
    ASSUME Inv, NEW e \in End, Aborts(e)
    PROVE  /\ e = A(e[2]) /\ pc[e] = "attach" /\ together' = together
           /\ \A x \in End : pc'[x] = IF proc(x) = proc(e) THEN "aborted" ELSE pc[x]
           /\ UNCHANGED <<dir, view, name, inited, fd, lockfile, lock_fd, counter>>
           /\ locked' = {l \in locked : l[1] # proc(e)}
           /\ client_attached' = [client_attached EXCEPT ![fd[e]] = @ + 1]
           /\ client_attached[fd[e]] # 0 /\ fd[e] \in Seg
<1>1. e = A(e[2]) /\ pc[e] = "attach"
  BY Ends DEF Aborts, AttachView, Inv, PcInv
<1>2. fd[e] \in Seg
  <2>1. e[2] \in Session /\ pc[A(e[2])] = "attach"
    BY <1>1, Ends
  <2>2. fd[A(e[2])] = <<e[2], key(A(e[2]))>>
    BY <2>1, Excluded
  <2>3. key(A(e[2])) \in Key
    BY <1>1, Keys DEF Inv
  <2>. QED BY <1>1, <2>1, <2>2, <2>3, SegmentTypes
<1>3. client_attached \in [Seg -> Nat]
  BY DEF Inv, TypeOK
<1>4. client_attached[fd[e]] # 0
  BY <1>2, <1>3 DEF Aborts, AttachView
<1>5. Abort(e)
  BY DEF Aborts, AttachView
<1>. QED BY <1>1, <1>2, <1>4, <1>5 DEF Aborts, AttachView, Abort

\* Ends keep to their code.
LEMMA PcStep ==
    ASSUME Inv, NEW e \in End, Construct(e) \/ Step(e) \/ Destroy(e)
    PROVE  PcInv'
<1>0. TypeOK /\ PcInv
  BY DEF Inv
<1>1. CASE Aborts(e)
  BY <1>0, <1>1, AbortCourse, Ends, Processes DEF PcInv
<1>2. CASE ~Aborts(e)
  <2>1. Ahead(e) /\ Others(e) /\ together' = together
    BY <1>0, <1>2, Course, OneEnd
  <2>2. pc[e] # "aborted" /\ pc'[e] # "aborted"
    BY <2>1 DEF Ahead
  <2>3. \A x \in End : x # e => pc'[x] = pc[x] /\ dir'[x] = dir[x]
    BY <2>1 DEF Others, EndState
  <2>4. ASSUME NEW s \in Session
        PROVE  /\ pc'[C(s)] \notin {"poll", "attach", "unlink", "delete"}
               /\ pc'[C(s)] \in {"off", "up", "gone"} => dir'[C(s)] = "send"
               /\ pc'[C(s)] = "aborted" => together
    <3>1. CASE e = C(s)
      BY <1>0, <2>1, <2>2, <3>1, Ends DEF PcInv, Ahead
    <3>2. CASE e # C(s)
      BY <1>0, <2>3, <3>2, Ends DEF PcInv
    <3>. QED BY <3>1, <3>2
  <2>5. ASSUME NEW s \in Session
        PROVE  /\ pc'[A(s)] \notin {"destroy", "create", "init", "drop"}
               /\ pc'[A(s)] \in {"off", "up", "gone"} => dir'[A(s)] = "send"
    <3>1. CASE e = A(s)
      BY <1>0, <2>1, <2>2, <3>1, Ends DEF PcInv, Ahead
    <3>2. CASE e # A(s)
      BY <1>0, <2>3, <3>2, Ends DEF PcInv
    <3>. QED BY <3>1, <3>2
  <2>6. \A x \in End : pc'[x] = "aborted" <=> pc[x] = "aborted"
    BY <2>2, <2>3
  <2>. QED BY <1>0, <2>1, <2>4, <2>5, <2>6, Ends DEF PcInv
<1>. QED BY <1>1, <1>2

\* Within one process the key mutex excludes.
LEMMA MutexStep ==
    ASSUME Inv, NEW e \in End, Construct(e) \/ Step(e) \/ Destroy(e)
    PROVE  MutexInv'
<1>0. TypeOK /\ PcInv /\ MutexInv
  BY DEF Inv
<1>1. CASE Aborts(e)
  <2>1. \A x \in End : key(x)' = key(x) /\ proc(x)' = proc(x)
    BY <1>1, AbortCourse, Processes DEF key
  <2>2. \A x \in End : pc'[x] \in Critical => pc[x] \in Critical
    BY <1>1, AbortCourse DEF Critical
  <2>. QED BY <1>0, <2>1, <2>2 DEF MutexInv
<1>2. CASE ~Aborts(e)
  <2>1. Ahead(e) /\ Others(e) /\ together' = together
    BY <1>0, <1>2, Course, OneEnd
  <2>2. \A x \in End : /\ proc(x)' = proc(x)
                       /\ x # e => pc'[x] = pc[x] /\ key(x)' = key(x)
    BY <2>1, Processes DEF Others, EndState, key
  <2>3. CASE pc'[e] \in Critical /\ pc[e] \in Critical
    <3>1. key(e)' = key(e)
      BY <2>1, <2>3 DEF Ahead, Critical, key
    <3>. QED BY <1>0, <2>2, <2>3, <3>1 DEF MutexInv
  <2>4. CASE pc'[e] \in Critical /\ pc[e] \notin Critical
    <3>1. pc[e] = "keylock" /\ key(e)' = key(e)
      BY <2>1, <2>4 DEF Ahead, Critical, key
    <3>2. KeyLock(e)
      BY <3>1 DEF Construct, Destroy, Step, OpenLockFile, Fcntl, FcntlIf, CountKeyLock, FreeKeyLock,
                  FreeKey, CloseLockFile, destroy_shm, CreateShm, InitView, OpenShm, OpenAs,
                  AttachView, UnlinkShm, delete_file_lock, DropShm, DropIf
    <3>. QED BY <1>0, <2>2, <3>1, <3>2 DEF MutexInv, KeyLock
  <2>5. CASE pc'[e] \notin Critical
    BY <1>0, <2>2, <2>5 DEF MutexInv
  <2>. QED BY <2>3, <2>4, <2>5
<1>. QED BY <1>1, <1>2

\* What a step does to the users of an entry of s_key_lock_global_map
LEMMA UsersStep ==
    ASSUME Inv, NEW e \in End, Construct(e) \/ Step(e) \/ Destroy(e),
           NEW p \in Process, NEW k \in Key
    PROVE  \/ Users(p, k)' \subseteq Users(p, k) /\ ~FreeKeyLock(e)
           \/ Users(p, k)' \subseteq Users(p, k) /\ ~(proc(e) = p /\ key(e) = k)
           \/ Users(p, k)' \subseteq Users(p, k) \cup {e} /\ CountKeyLock(e) /\ proc(e) = p /\ key(e) = k
           \/ Users(p, k)' \subseteq Users(p, k) \ {e} /\ e \in Users(p, k) /\ FreeKeyLock(e)
<1>0. TypeOK /\ PcInv
  BY DEF Inv
<1>1. CASE Aborts(e)
  <2>1. \A x \in End : key(x)' = key(x) /\ proc(x)' = proc(x)
    BY <1>1, AbortCourse, Processes DEF key
  <2>2. \A x \in End : pc'[x] \in {"keylock"} \cup Critical => pc[x] \in {"keylock"} \cup Critical
    BY <1>1, AbortCourse DEF Critical
  <2>3. ~FreeKeyLock(e)
    BY <1>1 DEF Aborts, AttachView, FreeKeyLock, FreeKey
  <2>. QED BY <2>1, <2>2, <2>3 DEF Users
<1>2. CASE ~Aborts(e)
  <2>1. Ahead(e) /\ Others(e) /\ together' = together
    BY <1>0, <1>2, Course, OneEnd
  <2>2. \A x \in End : /\ proc(x)' = proc(x)
                       /\ x # e => pc'[x] = pc[x] /\ key(x)' = key(x)
    BY <2>1, Processes DEF Others, EndState, key
  <2>3. CASE pc[e] = "count"
    <3>1. key(e)' = key(e)
      BY <2>1, <2>3 DEF Ahead, key
    <3>2. CountKeyLock(e) /\ ~FreeKeyLock(e)
      BY <2>3 DEF Construct, Destroy, Step, OpenLockFile, Fcntl, FcntlIf, KeyLock, FreeKeyLock,
                  FreeKey, CloseLockFile, destroy_shm, CreateShm, InitView, OpenShm, OpenAs,
                  AttachView, UnlinkShm, delete_file_lock, DropShm, DropIf
    <3>. QED BY <2>2, <3>1, <3>2 DEF Users
  <2>4. CASE pc[e] = "free"
    <3>1. pc'[e] = "close"
      BY <2>1, <2>4 DEF Ahead
    <3>2. FreeKeyLock(e)
      BY <2>4 DEF Construct, Destroy, Step, OpenLockFile, Fcntl, FcntlIf, KeyLock, CountKeyLock,
                  CloseLockFile, destroy_shm, CreateShm, InitView, OpenShm, OpenAs,
                  AttachView, UnlinkShm, delete_file_lock, DropShm, DropIf
    <3>3. e \notin Users(p, k)'
      BY <3>1 DEF Users, Critical
    <3>. QED BY <2>2, <2>4, <3>2, <3>3 DEF Users, Critical
  <2>5. CASE pc[e] \notin {"count", "free"}
    <3>1. pc'[e] \in {"keylock"} \cup Critical =>
             pc[e] \in {"keylock"} \cup Critical /\ key(e)' = key(e)
      BY <2>1, <2>5 DEF Ahead, Critical, key
    <3>2. ~FreeKeyLock(e)
      BY <2>5 DEF FreeKeyLock, FreeKey
    <3>. QED BY <2>2, <3>1, <3>2 DEF Users
  <2>. QED BY <2>3, <2>4, <2>5
<1>. QED BY <1>1, <1>2

\* The counter is at least the number of users.
LEMMA CounterStep ==
    ASSUME Inv, NEW e \in End, Construct(e) \/ Step(e) \/ Destroy(e)
    PROVE  CounterInv'
<1>0. TypeOK /\ CounterInv
  BY DEF Inv
<1> SUFFICES ASSUME NEW p \in Process, NEW k \in Key
             PROVE  Cardinality(Users(p, k)') <= counter'[p][k]
  BY DEF CounterInv
<1>1. IsFiniteSet(Users(p, k))
  BY EndFinite, FS_Subset DEF Users
<1> DEFINE U == Users(p, k)
           V == Users(p, k)'
<1>2. IsFiniteSet(U) /\ Cardinality(U) \in Nat /\ Cardinality(U) <= counter[p][k]
  BY <1>0, <1>1, FS_CardinalityType DEF CounterInv
<1>3. counter[p][k] \in Nat /\ counter'[p][k] \in Int /\ counter \in [Process -> [Key -> Nat]]
  BY <1>0, TypeStep DEF TypeOK
<1>4. ASSUME NEW W, IsFiniteSet(W), V \subseteq W PROVE Cardinality(V) <= Cardinality(W)
  BY <1>4, FS_Subset
<1>5. CASE CountKeyLock(e) /\ proc(e) = p /\ key(e) = k /\ V \subseteq U \cup {e}
  <2>1. counter'[p][k] = counter[p][k] + 1
    BY <1>3, <1>5 DEF CountKeyLock
  <2>2. IsFiniteSet(U \cup {e}) /\ Cardinality(U \cup {e}) <= Cardinality(U) + 1
        /\ Cardinality(U \cup {e}) \in Nat
    <3> HIDE DEF U
    <3>1. IsFiniteSet(U \cup {e})
      BY <1>2, FS_AddElement
    <3>2. Cardinality(U \cup {e}) = Cardinality(U) \/ Cardinality(U \cup {e}) = Cardinality(U) + 1
      BY <1>2, FS_AddElement
    <3>. QED BY <1>2, <3>1, <3>2
  <2>3. Cardinality(V) <= Cardinality(U \cup {e}) /\ Cardinality(V) \in Nat
    BY <1>5, <2>2, <1>4, FS_Subset, FS_CardinalityType
  <2>. QED BY <1>2, <1>3, <2>1, <2>2, <2>3
<1>6. CASE FreeKeyLock(e) /\ V \subseteq U \ {e} /\ e \in U
  <2>0. proc(e) = p /\ key(e) = k
    BY <1>6 DEF Users
  <2>1. counter'[p][k] = counter[p][k] - 1
    BY <1>3, <1>6, <2>0 DEF FreeKeyLock, FreeKey
  <2>2. IsFiniteSet(U \ {e}) /\ Cardinality(U \ {e}) = Cardinality(U) - 1
    BY <1>2, <1>6, FS_RemoveElement
  <2>3. Cardinality(V) <= Cardinality(U \ {e}) /\ Cardinality(V) \in Nat
    BY <1>6, <2>2, <1>4, FS_Subset, FS_CardinalityType
  <2>. QED BY <1>2, <1>3, <2>1, <2>2, <2>3
<1>7. CASE V \subseteq U /\ (~FreeKeyLock(e) \/ ~(proc(e) = p /\ key(e) = k))
  <2>1. counter'[p][k] >= counter[p][k]
    <3>1. CASE CountKeyLock(e)
      BY <1>3, <3>1 DEF CountKeyLock
    <3>2. CASE FreeKeyLock(e)
      BY <1>3, <1>7, <3>2 DEF FreeKeyLock, FreeKey
    <3>3. CASE ~CountKeyLock(e) /\ ~FreeKeyLock(e)
      <4>1. UNCHANGED counter
        BY <3>3 DEF Construct, Destroy, Step, OpenLockFile, Fcntl, FcntlIf, KeyLock,
                  CloseLockFile, destroy_shm, CreateShm, InitView, OpenShm, OpenAs,
                  AttachView, Abort, UnlinkShm, delete_file_lock, DropShm, DropIf, locks
      <4>. QED BY <1>3, <4>1
    <3>. QED BY <3>1, <3>2, <3>3
  <2>2. Cardinality(V) <= Cardinality(U) /\ Cardinality(V) \in Nat
    BY <1>2, <1>7, <1>4, FS_Subset, FS_CardinalityType
  <2>. QED BY <1>2, <1>3, <2>1, <2>2
<1>. QED BY <1>5, <1>6, <1>7, UsersStep

-----------------------------------------------------------------------------
(* Sessions one after the other *)

\* No end lets go of a segment.
LEMMA ViewsStay ==
    ASSUME Inv, NEW e \in End, Construct(e) \/ Step(e) \/ Destroy(e)
    PROVE  \A x \in End, d \in Dir : view[x][d] # None => view'[x][d] # None
<1>0. TypeOK /\ view \in [End -> [Dir -> Seg \cup {None}]] /\ dir[e] \in Dir
  BY DEF Inv, TypeOK
<1>1. CASE InitView(e)
  <2>1. e = C(e[2]) /\ e[2] \in Session
    BY <1>1, Ends DEF InitView, Inv, PcInv
  <2>2. fd[e] = <<e[2], key(e)>>
    BY <1>1, <2>1 DEF InitView, Inv, SessionInv, CreatorInv
  <2>3. fd[e] # None
    BY <1>0, <2>1, <2>2, Keys, SegmentTypes
  <2>. QED BY <1>0, <1>1, <2>3 DEF InitView
<1>2. CASE AttachView(e)
  <2>1. e = A(e[2]) /\ e[2] \in Session /\ pc[e] = "attach"
    BY <1>2, Ends DEF AttachView, Inv, PcInv
  <2>2. fd[e] = <<e[2], key(e)>>
    BY <2>1, Excluded
  <2>3. fd[e] # None
    BY <1>0, <2>1, <2>2, Keys, SegmentTypes
  <2>. QED BY <1>0, <1>2, <2>3 DEF AttachView, Abort
<1>3. CASE ~InitView(e) /\ ~AttachView(e)
  <2>1. UNCHANGED view
    BY <1>3 DEF Construct, Destroy, Step, OpenLockFile, Fcntl, FcntlIf, KeyLock, CountKeyLock,
              FreeKeyLock, FreeKey, CloseLockFile, destroy_shm, CreateShm, OpenShm, OpenAs,
              UnlinkShm, delete_file_lock, DropShm, DropIf, shm
  <2>. QED BY <2>1
<1>. QED BY <1>1, <1>2, <1>3

\* A session begins when the ends of the one before have met, and so have
\* those of every earlier one.
LEMMA OrderStep ==
    ASSUME Inv, NEW e \in End, Construct(e) \/ Step(e) \/ Destroy(e)
    PROVE  OrderInv'
<1>0. TypeOK /\ PcInv /\ OrderInv
  BY DEF Inv
<1> SUFFICES ASSUME NEW r \in Session, NEW s \in Session, r < s, Active(C(s))' \/ Active(A(s))'
             PROVE  /\ Attached(r, 1)' /\ Attached(r, 2)'
                    /\ pc'[C(r)] \in {"up", "drop", "gone", "aborted"}
                    /\ pc'[A(r)] \in {"up", "gone", "aborted"}
  BY DEF OrderInv
<1>1. CASE Active(C(s)) \/ Active(A(s))
  <2>1. /\ Attached(r, 1) /\ Attached(r, 2)
        /\ pc[C(r)] \in {"up", "drop", "gone", "aborted"}
        /\ pc[A(r)] \in {"up", "gone", "aborted"}
    BY <1>0, <1>1 DEF OrderInv
  <2>2. Attached(r, 1)' /\ Attached(r, 2)'
    BY <2>1, ViewsStay, Ends DEF Attached, ADir, Dir
  <2>3. CASE Aborts(e)
    BY <2>1, <2>2, <2>3, AbortCourse, Ends
  <2>4. CASE ~Aborts(e)
    <3>1. Ahead(e) /\ \A x \in End : x # e => pc'[x] = pc[x]
      BY <1>0, <2>4, Course, OneEnd DEF Others, EndState
    <3>2. pc'[C(r)] \in {"up", "drop", "gone", "aborted"}
      BY <2>1, <3>1, Ends DEF Ahead
    <3>3. pc'[A(r)] \in {"up", "gone", "aborted"}
      BY <2>1, <3>1, Ends DEF Ahead
    <3>. QED BY <2>2, <3>2, <3>3
  <2>. QED BY <2>3, <2>4
<1>2. CASE ~Active(C(s)) /\ ~Active(A(s))
  <2>1. CASE Aborts(e)
    BY <1>2, <2>1, AbortCourse, Ends DEF Active
  <2>2. CASE ~Aborts(e)
    <3>1. Ahead(e) /\ \A x \in End : x # e => pc'[x] = pc[x]
      BY <1>0, <2>2, Course, OneEnd DEF Others, EndState
    <3>2. e[2] = s /\ pc[e] = "off"
      BY <1>2, <3>1, Ends DEF Ahead, Active
    <3>3. Construct(e)
      BY <3>2 DEF Destroy, Step, OpenLockFile, Fcntl, FcntlIf, KeyLock, CountKeyLock,
              FreeKeyLock, FreeKey, CloseLockFile, destroy_shm, CreateShm, InitView, OpenShm, OpenAs,
              AttachView, UnlinkShm, delete_file_lock, DropShm, DropIf
    <3>4. r \in Int /\ s \in Int /\ s > 1 /\ s - 1 \in Session
      BY ShmAssumption DEF Session
    <3>5. Met(s - 1) /\ UNCHANGED view
      BY <3>2, <3>3, <3>4 DEF Construct, MayStart, shm
    <3>6. Active(C(s - 1)) /\ Attached(s - 1, 1) /\ Attached(s - 1, 2)
      BY <3>4, <3>5 DEF Met, Active, Inv, SessionInv, AttacherInv
    <3>7. /\ Attached(r, 1) /\ Attached(r, 2)
          /\ pc[C(r)] \in {"up", "drop", "gone", "aborted"}
          /\ pc[A(r)] \in {"up", "gone", "aborted"}
      <4>1. CASE r = s - 1
        BY <3>5, <3>6, <4>1 DEF Met
      <4>2. CASE r < s - 1
        BY <1>0, <3>4, <3>6, <4>2 DEF OrderInv
      <4>. QED BY <3>4, <4>1, <4>2
    <3>8. e # C(r) /\ e # A(r)
      BY <3>2, <3>4, Ends
    <3>. QED BY <3>1, <3>5, <3>7, <3>8, Ends DEF Attached
  <2>. QED BY <2>1, <2>2
<1>. QED BY <1>1, <1>2

\* The names an earlier run left are gone before the first end looks.
LEMMA OldNameStep ==
    ASSUME Inv, NEW e \in End, Construct(e) \/ Step(e) \/ Destroy(e)
    PROVE  OldNameInv'
<1>0. TypeOK /\ PcInv /\ OrderInv /\ OldNameInv /\ 1 \in Session /\ name \in [Key -> Seg \cup {None}]
  BY ShmAssumption DEF Inv, TypeOK, Session
<1>1. key(e) \in Key /\ e[2] \in Session
  BY <1>0, Keys, Ends
<1>2. \A k \in Key : \/ name'[k] = name[k] \/ name'[k] = None
                     \/ name'[k] = <<e[2], k>>
  <2>1. CASE CreateShm(e)
    BY <1>0, <1>1, <2>1 DEF CreateShm
  <2>2. CASE destroy_shm(e) \/ UnlinkShm(e) \/ DropShm(e)
    BY <1>0, <1>1, <2>2 DEF destroy_shm, UnlinkShm, DropShm, DropIf, unlinked
  <2>3. CASE ~CreateShm(e) /\ ~destroy_shm(e) /\ ~UnlinkShm(e) /\ ~DropShm(e)
    BY <2>3 DEF Construct, Destroy, Step, OpenLockFile, Fcntl, FcntlIf, KeyLock, CountKeyLock,
              FreeKeyLock, FreeKey, CloseLockFile, InitView, OpenShm, OpenAs, AttachView,
              delete_file_lock, shm
  <2>. QED BY <2>1, <2>2, <2>3
<1>3. \A k \in Key : name'[k] \in {None, <<0, k>>} \cup {<<s, k>> : s \in Session}
  BY <1>0, <1>1, <1>2 DEF OldNameInv
<1>4. ASSUME NEW k \in Key, name'[k] = <<0, k>>
      PROVE  /\ pc'[A(1)] = "off"
             /\ pc'[C(1)] = "off" \/ (pc'[C(1)] = "destroy" /\ (k = 1 => dir'[C(1)] = "send"))
  <2>1. name[k] = <<0, k>>
    <3>1. e[2] # 0
      BY <1>1, ShmAssumption DEF Session
    <3>2. <<e[2], k>> # <<0, k>>
      BY <3>1
    <3>. QED BY <1>2, <1>4, <3>2, SegmentTypes
  <2>2. /\ pc[A(1)] = "off"
        /\ pc[C(1)] = "off" \/ (pc[C(1)] = "destroy" /\ (k = 1 => dir[C(1)] = "send"))
    BY <1>0, <2>1 DEF OldNameInv
  <2>3. ~Aborts(e)
    <3>1. ASSUME Aborts(e) PROVE FALSE
      <4>1. e = A(e[2]) /\ pc[e] = "attach"
        BY <3>1, AbortCourse
      <4>2. e[2] # 1 /\ Active(A(e[2]))
        BY <2>2, <4>1 DEF Active
      <4>3. 1 < e[2]
        BY <1>1, <4>2, ShmAssumption DEF Session
      <4>. QED BY <1>0, <1>1, <2>2, <4>2, <4>3 DEF OrderInv
    <3>. QED BY <3>1
  <2>4. Ahead(e) /\ \A x \in End : x # e => pc'[x] = pc[x] /\ dir'[x] = dir[x]
    BY <1>0, <2>3, Course, OneEnd DEF Others, EndState
  <2>5. CASE e = A(1)
    <3>1. Construct(e)
      BY <2>2, <2>5 DEF Destroy, Step, OpenLockFile, Fcntl, FcntlIf, KeyLock, CountKeyLock,
              FreeKeyLock, FreeKey, CloseLockFile, destroy_shm, CreateShm, InitView, OpenShm, OpenAs,
              AttachView, UnlinkShm, delete_file_lock, DropShm, DropIf
    <3>. QED BY <2>1, <2>5, <3>1 DEF Construct, MayStart
  <2>6. CASE e = C(1) /\ pc[e] = "off"
    BY <1>0, <2>2, <2>4, <2>6, Ends DEF Ahead, PcInv
  <2>7. CASE e = C(1) /\ pc[e] = "destroy"
    <3>1. destroy_shm(e)
      BY <2>7 DEF Construct, Destroy, Step, OpenLockFile, Fcntl, FcntlIf, KeyLock, CountKeyLock,
              FreeKeyLock, FreeKey, CloseLockFile, CreateShm, InitView, OpenShm, OpenAs,
              AttachView, UnlinkShm, delete_file_lock, DropShm, DropIf
    <3>2. name'[key(e)] = None
      BY <1>0, <1>1, <3>1 DEF destroy_shm, unlinked
    <3>3. k # key(e)
      BY <1>4, <3>2, SegmentTypes
    <3>4. key(e) = (IF dir[e] = "send" THEN 1 ELSE 2)
      BY <1>0, <2>7, Keys
    <3>5. k = 2 /\ dir[e] = "send"
      BY <2>2, <2>7, <3>3, <3>4 DEF Key
    <3>. QED BY <2>2, <2>4, <2>7, <3>5, Ends, <1>0 DEF Ahead
  <2>8. CASE e # A(1) /\ e # C(1)
    BY <1>0, <2>2, <2>4, <2>8, Ends
  <2>. QED BY <2>2, <2>5, <2>6, <2>7, <2>8
<1>. QED BY <1>3, <1>4 DEF OldNameInv

-----------------------------------------------------------------------------
(* The lock files *)

\* A step that leaves the lock files alone leaves everybody as he was.
LEMMA NoLockStep ==
    ASSUME Inv, NEW e \in End, Ahead(e), Others(e), together' = together,
           UNCHANGED <<lockfile, lock_fd, locked>>,
           pc[e] \notin {"lockfile", "fcntl", "close", "delete"}
    PROVE  FileLockInv'
<1>0. TypeOK /\ FileLockInv
  BY DEF Inv
<1>1. ASSUME NEW x \in End
      PROVE  /\ pc'[x] \in Opened => pc[x] \in Opened /\ key(x)' = key(x)
             /\ pc'[x] \in Locked => pc[x] \in Locked /\ key(x)' = key(x)
             /\ pc'[x] = "delete" => pc[x] = "delete" /\ key(x)' = key(x)
  <2>1. CASE x = e
    BY <2>1 DEF Ahead, key, Opened, Locked, Critical
  <2>2. CASE x # e
    BY <2>2 DEF Others, EndState, key
  <2>. QED BY <2>1, <2>2
<1> SUFFICES ASSUME ~together PROVE FileLockInv'
  BY DEF FileLockInv
<1>2. \A x \in End : pc'[x] \in Opened => lock_fd'[x] = lockfile'[key(x)'] /\ lock_fd'[x] # 0
  BY <1>0, <1>1 DEF FileLockInv
<1>3. \A x \in End : pc'[x] \in Locked => <<x[1], key(x)', lock_fd'[x]>> \in locked'
  BY <1>0, <1>1 DEF FileLockInv
<1>4. \A s \in Session : pc'[A(s)] = "delete" /\ key(C(s))' = key(A(s))' => pc'[C(s)] \notin Opened
  BY <1>0, <1>1, Ends DEF FileLockInv
<1>. QED BY <1>0, <1>2, <1>3, <1>4 DEF FileLockInv

\* Whoever waits for the file lock or has it is busy.
LEMMA LockersBusy ==
    \A e \in End : /\ pc[e] \in Opened \cup {"lockfile", "delete"} => Busy(e)
                   /\ pc[e] \in Locked => pc[e] \in Opened
BY DEF Busy, Settled, Opened, Locked, Critical

\* Two ends that have opened the same key are of the same session, and if they
\* have the same role they are the same end.
LEMMA OneOfARole ==
    ASSUME Inv, NEW e \in End, NEW x \in End, Busy(e), Busy(x), e[1] = x[1]
    PROVE  e = x
BY OneSession, Ends

\* Both processes open the same lock file: it is removed by the one that
\* attached to the segment, when the other cannot have it open any more.
LEMMA FileLockStep ==
    ASSUME Inv, NEW e \in End, Construct(e) \/ Step(e) \/ Destroy(e)
    PROVE  FileLockInv'
<1>0. TypeOK /\ PcInv /\ FileLockInv /\ key(e) \in Key /\ e[2] \in Session
  BY Keys, Ends DEF Inv
<1>1. CASE Aborts(e)
  <2> SUFFICES ASSUME ~together PROVE FileLockInv'
    BY <1>1, AbortCourse DEF FileLockInv
  <2>1. /\ \A x \in End : key(x)' = key(x)
        /\ \A x \in End : pc'[x] = IF x[1] = "attacher" THEN "aborted" ELSE pc[x]
        /\ locked' = {l \in locked : l[1] # "attacher"}
        /\ UNCHANGED <<lockfile, lock_fd>>
    BY <1>1, AbortCourse, Processes, Ends DEF key
  <2>2. \A x \in End : pc'[x] \in Opened \cup Locked => x[1] # "attacher" /\ pc'[x] = pc[x]
    BY <2>1 DEF Opened, Locked, Critical
  <2>3. \A x \in End : pc'[x] \in Opened => lock_fd'[x] = lockfile'[key(x)'] /\ lock_fd'[x] # 0
    BY <1>0, <2>1, <2>2 DEF FileLockInv
  <2>4. \A x \in End : pc'[x] \in Locked => <<x[1], key(x)', lock_fd'[x]>> \in locked'
    BY <1>0, <2>1, <2>2 DEF FileLockInv
  <2>5. \A s \in Session : pc'[A(s)] # "delete"
    BY <2>1, Ends
  <2>6. \A k \in Key, f \in Nat :
              ~(<<"creator", k, f>> \in locked' /\ <<"attacher", k, f>> \in locked')
    BY <2>1
  <2>. QED BY <2>3, <2>4, <2>5, <2>6 DEF FileLockInv
<1>2. CASE ~Aborts(e)
  <2>1. Ahead(e) /\ Others(e) /\ together' = together
    BY <1>0, <1>2, Course, OneEnd
  <2>2. \A x \in End : x # e => pc'[x] = pc[x] /\ key(x)' = key(x) /\ lock_fd'[x] = lock_fd[x]
    BY <2>1 DEF Others, EndState, key
  <2> SUFFICES ASSUME ~together PROVE FileLockInv'
    BY <2>1 DEF FileLockInv
  <2>3. proc(e) = e[1]
    BY Processes
  <2>4. /\ \A x \in End : pc[x] \in Opened => lock_fd[x] = lockfile[key(x)] /\ lock_fd[x] # 0
        /\ \A x \in End : pc[x] \in Locked => <<x[1], key(x), lock_fd[x]>> \in locked
        /\ \A k \in Key, f \in Nat :
              ~(<<"creator", k, f>> \in locked /\ <<"attacher", k, f>> \in locked)
        /\ \A s \in Session : pc[A(s)] = "delete" /\ key(C(s)) = key(A(s)) => pc[C(s)] \notin Opened
    BY <1>0 DEF FileLockInv
  <2>5. CASE OpenLockFile(e)
    <3>1. /\ key(e)' = key(e) /\ pc[e] = "lockfile" /\ pc'[e] = "fcntl" /\ UNCHANGED locked
          /\ lock_fd'[e] = lockfile'[key(e)] /\ lock_fd'[e] # 0
          /\ \A k \in Key : lockfile'[k] # lockfile[k] => lockfile[k] = 0
      BY <1>0, <2>5 DEF OpenLockFile, Goto, TypeOK, key
    <3>2. \A x \in End : pc'[x] \in Opened => lock_fd'[x] = lockfile'[key(x)'] /\ lock_fd'[x] # 0
      BY <1>0, <2>2, <2>4, <3>1, Keys
    <3>3. \A x \in End : pc'[x] \in Locked => <<x[1], key(x)', lock_fd'[x]>> \in locked'
      BY <2>2, <2>4, <3>1 DEF Locked, Critical
    <3>4. ASSUME NEW s \in Session, pc'[A(s)] = "delete", key(C(s))' = key(A(s))', pc'[C(s)] \in Opened
          PROVE  FALSE
      <4>1. A(s) # e /\ pc[A(s)] = "delete" /\ key(A(s))' = key(A(s))
        BY <2>2, <3>1, <3>4, Ends
      <4>2. CASE e # C(s)
        BY <2>2, <2>4, <3>4, <4>1, <4>2, Ends
      <4>3. CASE e = C(s)
        <5>1. key(C(s)) = key(A(s)) /\ pc[C(s)] = "lockfile"
          BY <3>1, <3>4, <4>1, <4>3
        <5>2. AttacherInv(s) /\ CreatorInv(s) /\ ViewInv(s)
          BY DEF Inv, SessionInv
        <5>3. Attached(s, key(A(s)))
          BY <1>0, <4>1, <5>2, Keys DEF AttacherInv, Attached, TypeOK, Dir
        <5>4. Inited(s, key(C(s))) /\ key(C(s)) = (IF dir[C(s)] = "send" THEN 1 ELSE 2)
          BY <1>0, <5>1, <5>2, <5>3, Keys, Ends DEF ViewInv
        <5>. QED BY <5>1, <5>2, <5>4 DEF CreatorInv, Locking
      <4>. QED BY <4>2, <4>3
    <3>. QED BY <2>4, <3>1, <3>2, <3>3, <3>4 DEF FileLockInv
  <2>6. CASE Fcntl(e)
    <3>1. /\ key(e)' = key(e) /\ pc[e] = "fcntl" /\ pc'[e] = "count"
          /\ UNCHANGED <<lockfile, lock_fd>>
          /\ locked' = locked \cup {<<e[1], key(e), lock_fd[e]>>}
          /\ \A p \in Process : p # e[1] => <<p, key(e), lock_fd[e]>> \notin locked
      BY <1>0, <2>3, <2>6 DEF Fcntl, FcntlIf, Goto, TypeOK, key
    <3>2. \A x \in End : pc'[x] \in Opened => lock_fd'[x] = lockfile'[key(x)'] /\ lock_fd'[x] # 0
      BY <2>2, <2>4, <3>1 DEF Opened
    <3>3. \A x \in End : pc'[x] \in Locked => <<x[1], key(x)', lock_fd'[x]>> \in locked'
      BY <2>2, <2>4, <3>1
    <3>4. \A s \in Session : pc'[A(s)] = "delete" /\ key(C(s))' = key(A(s))' => pc'[C(s)] \notin Opened
      BY <2>2, <2>4, <3>1, Ends DEF Opened
    <3>5. \A k \in Key, f \in Nat :
              ~(<<"creator", k, f>> \in locked' /\ <<"attacher", k, f>> \in locked')
      <4>1. "creator" \in Process /\ "attacher" \in Process
        BY DEF Process
      <4>. QED BY <2>4, <3>1, <4>1
    <3>. QED BY <3>2, <3>3, <3>4, <3>5 DEF FileLockInv
  <2>7. CASE CloseLockFile(e)
    <3>1. /\ pc[e] = "close" /\ pc'[e] \in {"lockfile", "up", "delete"}
          /\ UNCHANGED <<lockfile, lock_fd>>
          /\ locked' = locked \ {<<e[1], key(e), lock_fd[e]>>}
      BY <1>0, <2>3, <2>7 DEF CloseLockFile, Goto, NextDir, TypeOK
    <3>2. pc'[e] \notin Opened /\ pc'[e] \notin Locked /\ pc[e] \in Opened /\ pc[e] \in Locked
      BY <3>1 DEF Opened, Locked, Critical
    <3>3. \A x \in End : pc'[x] \in Opened => lock_fd'[x] = lockfile'[key(x)'] /\ lock_fd'[x] # 0
      BY <2>2, <2>4, <3>1, <3>2
    <3>4. ASSUME NEW x \in End, pc'[x] \in Locked PROVE <<x[1], key(x)', lock_fd'[x]>> \in locked'
      <4>1. x # e /\ pc[x] \in Locked
        BY <2>2, <3>2, <3>4
      <4>2. x[1] # e[1]
        BY <3>2, <4>1, OneOfARole, LockersBusy
      <4>. QED BY <2>2, <2>4, <3>1, <4>1, <4>2
    <3>5. ASSUME NEW s \in Session, pc'[A(s)] = "delete", key(C(s))' = key(A(s))', pc'[C(s)] \in Opened
          PROVE  FALSE
      <4>1. e # C(s)
        BY <3>2, <3>5
      <4>2. pc[C(s)] \in Opened /\ key(C(s))' = key(C(s))
        BY <2>2, <3>5, <4>1, Ends
      <4>3. CASE e # A(s)
        <5>1. pc[A(s)] = "delete" /\ key(A(s))' = key(A(s))
          BY <2>2, <3>5, <4>3, Ends
        <5>. QED BY <2>4, <3>5, <4>2, <5>1
      <4>4. CASE e = A(s)
        <5>1. key(A(s))' = key(A(s))
          BY <2>1, <3>1, <3>5, <4>4 DEF Ahead, key
        <5>2. AttacherInv(s) /\ CreatorInv(s) /\ ViewInv(s)
          BY DEF Inv, SessionInv
        <5>3. Attached(s, key(A(s)))
          BY <1>0, <3>1, <4>4, <5>2, Keys DEF AttacherInv, Attached, TypeOK, Dir
        <5>0. key(C(s)) = key(A(s)) /\ key(C(s)) \in Key
              /\ key(C(s)) = (IF dir[C(s)] = "send" THEN 1 ELSE 2)
          BY <1>0, <3>5, <4>2, <5>1, Keys, Ends
        <5>4. Inited(s, key(C(s)))
          BY <5>0, <5>2, <5>3 DEF ViewInv
        <5>5. pc[C(s)] \in Locked
          <6>1. pc[C(s)] # "fcntl"
            BY <5>0, <5>2, <5>4 DEF CreatorInv, Locking
          <6>. QED BY <4>2, <6>1 DEF Opened
        <5>6. lock_fd[C(s)] = lock_fd[A(s)] /\ lock_fd[A(s)] \in Nat /\ key(C(s)) = key(A(s))
          <6>1. lock_fd[A(s)] \in Nat
            BY <1>0, Ends DEF TypeOK
          <6>2. C(s) \in End /\ pc[C(s)] \in Opened /\ A(s) \in End /\ pc[A(s)] \in Opened
            BY <3>2, <4>2, <4>4, Ends
          <6>. QED BY <2>4, <5>0, <6>1, <6>2
        <5>7. /\ <<"creator", key(C(s)), lock_fd[C(s)]>> \in locked
              /\ <<"attacher", key(C(s)), lock_fd[C(s)]>> \in locked
          BY <2>4, <3>2, <4>4, <5>5, <5>6, Ends
        <5>. QED BY <1>0, <2>4, <4>4, <5>6, <5>7
      <4>. QED BY <4>3, <4>4
    <3>. QED BY <2>4, <3>1, <3>3, <3>4, <3>5 DEF FileLockInv
  <2>8. CASE delete_file_lock(e)
    <3>1. /\ pc[e] = "delete" /\ pc'[e] \in {"poll", "up"}
          /\ UNCHANGED <<lock_fd, locked>> /\ e = A(e[2])
          /\ \A k \in Key : k # key(e) => lockfile'[k] = lockfile[k]
      BY <1>0, <2>8, Ends DEF delete_file_lock, NextDir, TypeOK, PcInv
    <3>2. pc'[e] \notin Opened /\ pc'[e] \notin Locked /\ pc'[e] # "delete"
      BY <3>1 DEF Opened, Locked, Critical
    <3>3. ASSUME NEW x \in End, pc'[x] \in Opened
          PROVE  lock_fd'[x] = lockfile'[key(x)'] /\ lock_fd'[x] # 0
      <4>1. x # e /\ pc[x] \in Opened /\ key(x) \in Key
        BY <1>0, <2>2, <3>2, <3>3, Keys
      <4>2. e[2] = x[2]
        BY <3>1, <4>1, OneSession, LockersBusy
      <4>3. x = C(e[2])
        BY <3>1, <4>1, <4>2, Ends
      <4>4. key(x) # key(e)
        BY <1>0, <2>4, <3>1, <4>1, <4>3
      <4>. QED BY <2>2, <2>4, <3>1, <4>1, <4>4
    <3>4. \A x \in End : pc'[x] \in Locked => <<x[1], key(x)', lock_fd'[x]>> \in locked'
      BY <2>2, <2>4, <3>1, <3>2
    <3>5. \A s \in Session : pc'[A(s)] = "delete" /\ key(C(s))' = key(A(s))' => pc'[C(s)] \notin Opened
      BY <2>2, <2>4, <3>1, <3>2, Ends
    <3>. QED BY <2>4, <3>1, <3>3, <3>4, <3>5 DEF FileLockInv
  <2>9. CASE ~OpenLockFile(e) /\ ~Fcntl(e) /\ ~CloseLockFile(e) /\ ~delete_file_lock(e)
    <3>1. /\ UNCHANGED <<lockfile, lock_fd, locked>>
          /\ pc[e] \notin {"lockfile", "fcntl", "close", "delete"}
      BY <1>2, <2>9 DEF Construct, Destroy, Step, KeyLock, CountKeyLock, FreeKeyLock, FreeKey,
              destroy_shm, CreateShm, InitView, OpenShm, OpenAs,
              AttachView, Aborts, UnlinkShm, DropShm, DropIf, locks
    <3>. QED BY <2>1, <3>1, NoLockStep
  <2>. QED BY <2>5, <2>6, <2>7, <2>8, <2>9
<1>. QED BY <1>1, <1>2

-----------------------------------------------------------------------------
(* What a step does to the segments *)

\* The segment an end works on is the one of its session and its key.
LEMMA WorksOn ==
    ASSUME Inv, NEW e \in End
    PROVE  /\ pc[e] = "init" => e = C(e[2]) /\ fd[e] = <<e[2], key(e)>>
           /\ pc[e] = "attach" => e = A(e[2]) /\ fd[e] = <<e[2], key(e)>>
           /\ pc[e] = "drop" => e = C(e[2]) /\ view[e][dir[e]] = <<e[2], key(e)>>
           /\ key(e) \in Key /\ e[2] \in Session /\ <<e[2], key(e)>> \in Seg
<1>0. TypeOK /\ PcInv /\ key(e) \in Key /\ e[2] \in Session /\ <<e[2], key(e)>> \in Seg
  BY Keys, Ends, SegmentTypes DEF Inv
<1>1. pc[e] \in {"init", "drop"} => e = C(e[2])
  BY <1>0, Ends DEF PcInv
<1>2. pc[e] = "attach" => e = A(e[2])
  BY <1>0, Ends DEF PcInv
<1>3. pc[e] = "init" => fd[e] = <<e[2], key(e)>>
  BY <1>0, <1>1 DEF Inv, SessionInv, CreatorInv
<1>4. pc[e] = "attach" => fd[e] = <<e[2], key(e)>>
  BY <1>0, <1>2, Excluded
<1>5. ASSUME pc[e] = "drop" PROVE view[e][dir[e]] = <<e[2], key(e)>>
  <2>1. CreatorInv(e[2]) /\ ViewInv(e[2])
    BY <1>0 DEF Inv, SessionInv
  <2>2. Inited(e[2], 1) /\ Inited(e[2], 2)
    BY <1>1, <1>5, <2>1 DEF CreatorInv
  <2>3. e = C(e[2]) /\ key(e) = (IF dir[e] = "send" THEN 1 ELSE 2) /\ dir[e] \in {"send", "recv"}
    BY <1>0, <1>1, <1>5, Keys DEF TypeOK, Dir
  <2>. QED BY <2>1, <2>2, <2>3 DEF ViewInv, Inited, CDir, Key
<1>. QED BY <1>0, <1>1, <1>2, <1>3, <1>4, <1>5

\* A step touches segments of its own session only.
LEMMA Touches ==
    ASSUME Inv, NEW e \in End, Construct(e) \/ Step(e) \/ Destroy(e)
    PROVE  /\ inited \subseteq inited'
           /\ \A s \in Session, k \in Key : s # e[2] =>
                 /\ client_attached'[<<s, k>>] = client_attached[<<s, k>>]
                 /\ name'[k] = <<s, k>> => name[k] = <<s, k>>
<1>0. TypeOK /\ name \in [Key -> Seg \cup {None}] /\ client_attached \in [Seg -> Nat]
  BY DEF Inv, TypeOK
<1>1. \A s \in Session, k \in Key, j \in Key : s # e[2] => <<s, k>> # <<e[2], j>> /\ <<s, k>> \in Seg
                                                        /\ <<s, k>> # None
  BY SegmentTypes
<1>2. CASE CreateShm(e)
  <2>1. key(e) \in Key /\ e[2] \in Session
    BY WorksOn
  <2>2. name'[key(e)] = <<e[2], key(e)>> \/ name'[key(e)] = name[key(e)]
    BY <1>0, <1>2, <2>1 DEF CreateShm
  <2>3. \A k \in Key : k # key(e) => name'[k] = name[k]
    BY <1>0, <1>2 DEF CreateShm
  <2>4. UNCHANGED <<client_attached, inited>>
    BY <1>2 DEF CreateShm
  <2>. QED BY <1>1, <2>1, <2>2, <2>3, <2>4
<1>3. CASE InitView(e)
  <2>1. fd[e] = <<e[2], key(e)>> /\ key(e) \in Key
    BY <1>3, WorksOn DEF InitView
  <2>2. client_attached' = [client_attached EXCEPT ![<<e[2], key(e)>>] = 0]
    BY <1>3, <2>1 DEF InitView
  <2>3. name' = name /\ inited \subseteq inited'
    BY <1>3 DEF InitView
  <2>. QED BY <1>0, <1>1, <2>1, <2>2, <2>3
<1>4. CASE AttachView(e)
  <2>1. fd[e] = <<e[2], key(e)>> /\ key(e) \in Key
    BY <1>4, WorksOn DEF AttachView
  <2>2. client_attached' = [client_attached EXCEPT ![<<e[2], key(e)>>] = @ + 1]
    BY <1>4, <2>1 DEF AttachView
  <2>3. name' = name /\ UNCHANGED inited
    BY <1>4 DEF AttachView
  <2>. QED BY <1>0, <1>1, <2>1, <2>2, <2>3
<1>5. CASE destroy_shm(e) \/ UnlinkShm(e)
  BY <1>0, <1>1, <1>5, WorksOn DEF destroy_shm, UnlinkShm, unlinked
<1>6. CASE DropShm(e)
  <2>1. view[e][dir[e]] = <<e[2], key(e)>> /\ key(e) \in Key
    BY <1>6, WorksOn DEF DropShm, DropIf
  <2>2. client_attached' = [client_attached EXCEPT ![<<e[2], key(e)>>] = @ + 1]
    BY <1>6, <2>1 DEF DropShm, DropIf
  <2>3. name' = name \/ name' = [name EXCEPT ![key(e)] = None]
    BY <1>6 DEF DropShm, DropIf, unlinked
  <2>4. UNCHANGED inited
    BY <1>6 DEF DropShm, DropIf
  <2>. QED BY <1>0, <1>1, <2>1, <2>2, <2>3, <2>4
<1>7. CASE ~CreateShm(e) /\ ~InitView(e) /\ ~AttachView(e) /\ ~destroy_shm(e) /\ ~UnlinkShm(e) /\ ~DropShm(e)
  <2>1. UNCHANGED <<name, inited, client_attached>>
    BY <1>7 DEF Construct, Destroy, Step, OpenLockFile, Fcntl, FcntlIf, KeyLock, CountKeyLock,
              FreeKeyLock, FreeKey, CloseLockFile, OpenShm, OpenAs, delete_file_lock, shm
  <2>. QED BY <2>1
<1>. QED BY <1>2, <1>3, <1>4, <1>5, <1>6, <1>7

SessionAt(s) == CreatorInv(s) /\ AttacherInv(s) /\ ViewInv(s) /\ AttachInv(s) /\ NameInv(s)

\* If the ends of a session do not move and its segments are left alone, what
\* is known about them stays.
LEMMA SessionFrame ==
    ASSUME Inv, NEW s \in Session, UNCHANGED EndState(C(s)), UNCHANGED EndState(A(s)),
           inited \subseteq inited',
           \A k \in Key : /\ client_attached'[<<s, k>>] = client_attached[<<s, k>>]
                          /\ name'[k] = <<s, k>> => name[k] = <<s, k>>
    PROVE  SessionAt(s)'
<1>0. SessionAt(s)
  BY DEF Inv, SessionInv, SessionAt
<1>1. /\ pc'[C(s)] = pc[C(s)] /\ dir'[C(s)] = dir[C(s)] /\ fd'[C(s)] = fd[C(s)] /\ view'[C(s)] = view[C(s)]
      /\ pc'[A(s)] = pc[A(s)] /\ dir'[A(s)] = dir[A(s)] /\ fd'[A(s)] = fd[A(s)] /\ view'[A(s)] = view[A(s)]
      /\ key(C(s))' = key(C(s)) /\ key(A(s))' = key(A(s))
  BY DEF EndState, key
<1>2. \A k : (Inited(s, k)' <=> Inited(s, k)) /\ (Attached(s, k)' <=> Attached(s, k))
             /\ (Made(s, k)' <=> Made(s, k))
  BY <1>1 DEF Inited, Attached, Made
<1>3. CreatorInv(s)'
  BY <1>0, <1>1, <1>2 DEF SessionAt, CreatorInv
<1>4. AttacherInv(s)'
  BY <1>0, <1>1, <1>2 DEF SessionAt, AttacherInv
<1>5. ViewInv(s)'
  BY <1>0, <1>1, <1>2 DEF SessionAt, ViewInv
<1>6. AttachInv(s)'
  BY <1>0, <1>1, <1>2 DEF SessionAt, AttachInv, Key
<1>7. NameInv(s)'
  BY <1>0, <1>1, <1>2 DEF SessionAt, NameInv
<1>. QED BY <1>3, <1>4, <1>5, <1>6, <1>7 DEF SessionAt

-----------------------------------------------------------------------------
(* Steps of a session's own ends *)

\* A step that only moves on, and changes no segment
LEMMA QuietStep ==
    ASSUME Inv, NEW e \in End, Ahead(e), Others(e), UNCHANGED shm, NEW s \in Session, e[2] = s,
           pc[e] \notin {"destroy", "create", "init", "poll", "attach", "unlink", "drop"}
    PROVE  SessionAt(s)'
<1>0. SessionAt(s) /\ PcInv /\ TypeOK
  BY DEF Inv, SessionInv, SessionAt
<1>1. \A k : (Inited(s, k)' <=> Inited(s, k)) /\ (Attached(s, k)' <=> Attached(s, k))
  BY DEF Inited, Attached, shm
<1>2. UNCHANGED <<name, inited, client_attached, fd, view>>
  BY DEF shm
<1>3. ViewInv(s)'
  BY <1>0, <1>1, <1>2 DEF SessionAt, ViewInv
<1>4. CASE e = C(s)
  <2>1. /\ pc'[A(s)] = pc[A(s)] /\ dir'[A(s)] = dir[A(s)] /\ key(A(s))' = key(A(s))
    BY <1>4, Ends DEF Others, EndState, key
  <2>2. pc[C(s)] # "init" /\ pc'[C(s)] # "init"
    BY <1>4 DEF Ahead
  <2>3. \A k : Made(s, k)' <=> Made(s, k)
    BY <1>1, <2>2 DEF Made
  <2>4. CreatorInv(s)'
    <3>1. CreatorInv(s)
      BY <1>0 DEF SessionAt
    <3>2. dir[C(s)] \in {"send", "recv"} /\ (pc[C(s)] \in {"off", "up"} => dir[C(s)] = "send")
      BY <1>0, Ends DEF TypeOK, Dir, PcInv
    <3>. QED BY <1>1, <1>4, <2>2, <3>1, <3>2, Ends DEF CreatorInv, Ahead, Locking
  <2>5. AttacherInv(s)'
    BY <1>0, <1>1, <1>2, <2>1, <2>3 DEF SessionAt, AttacherInv
  <2>6. AttachInv(s)'
    <3>1. /\ pc'[C(s)] \notin {"drop", "gone", "aborted"} => pc[C(s)] \notin {"drop", "gone", "aborted"}
          /\ pc'[C(s)] # "gone"
          /\ ~(pc'[C(s)] = "drop" /\ dir'[C(s)] = "recv")
      BY <1>0, <1>4, Ends DEF Ahead, PcInv
    <3>. QED BY <1>0, <1>1, <1>2, <3>1 DEF SessionAt, AttachInv
  <2>7. NameInv(s)'
    BY <1>0, <1>2, <2>1, <2>3 DEF SessionAt, NameInv
  <2>. QED BY <1>3, <2>4, <2>5, <2>6, <2>7 DEF SessionAt
<1>5. CASE e = A(s)
  <2>1. /\ pc'[C(s)] = pc[C(s)] /\ dir'[C(s)] = dir[C(s)] /\ key(C(s))' = key(C(s))
    BY <1>5, Ends DEF Others, EndState, key
  <2>2. pc[A(s)] # "unlink" /\ pc'[A(s)] # "unlink"
    BY <1>5 DEF Ahead
  <2>3. \A k : Made(s, k)' <=> Made(s, k)
    BY <1>1, <2>1 DEF Made
  <2>4. CreatorInv(s)'
    BY <1>0, <1>1, <1>2, <2>1 DEF SessionAt, CreatorInv
  <2>5. AttacherInv(s)'
    <3>1. AttacherInv(s)
      BY <1>0 DEF SessionAt
    <3>2. dir[A(s)] \in {"send", "recv"} /\ (pc[A(s)] \in {"off", "up"} => dir[A(s)] = "send")
      BY <1>0, Ends DEF TypeOK, Dir, PcInv
    <3>3. pc'[A(s)] \in Locking \cup {"attach", "unlink"} =>
             pc[A(s)] \in Locking /\ key(A(s))' = key(A(s)) /\ dir'[A(s)] = dir[A(s)]
      BY <1>5, Ends DEF Ahead, Locking, key
    <3>4. pc'[A(s)] \in Locking \cup {"attach", "unlink"} =>
             fd'[A(s)] = <<s, key(A(s))'>> /\ Made(s, key(A(s)))'
      BY <1>2, <2>3, <3>1, <3>3 DEF AttacherInv
    <3>5. /\ pc'[A(s)] \in {"off"} \cup Locking \cup {"poll", "attach"} =>
                IF dir'[A(s)] = "send" THEN ~Attached(s, 2) /\ ~Attached(s, 1)
                                       ELSE Attached(s, 2) /\ ~Attached(s, 1)
      BY <1>5, <2>2, <3>1, <3>2, Ends DEF AttacherInv, Ahead, Locking
    <3>6. /\ pc'[A(s)] \in {"unlink", "free", "close", "delete"} =>
                IF dir'[A(s)] = "send" THEN Attached(s, 2) /\ ~Attached(s, 1)
                                       ELSE Attached(s, 2) /\ Attached(s, 1)
          /\ pc'[A(s)] \in {"up", "gone"} => Attached(s, 1) /\ Attached(s, 2)
      BY <1>5, <2>2, <3>1, <3>2, Ends DEF AttacherInv, Ahead, Locking
    <3>. QED BY <1>1, <3>4, <3>5, <3>6 DEF AttacherInv
  <2>6. AttachInv(s)'
    BY <1>0, <1>1, <1>2, <2>1 DEF SessionAt, AttachInv
  <2>7. NameInv(s)'
    BY <1>0, <1>2, <2>2, <2>3 DEF SessionAt, NameInv
  <2>. QED BY <1>3, <2>4, <2>5, <2>6, <2>7 DEF SessionAt
<1>. QED BY <1>4, <1>5, Ends

\* The constructor's destroy_shm
LEMMA DestroyShmStep ==
    ASSUME Inv, NEW s \in Session, Ahead(C(s)), Others(C(s)), destroy_shm(C(s))
    PROVE  SessionAt(s)'
<1>0. SessionAt(s) /\ PcInv /\ TypeOK /\ key(C(s)) \in Key
  BY Keys, Ends DEF Inv, SessionInv, SessionAt
<1>1. /\ UNCHANGED <<inited, client_attached, fd, view>>
      /\ \A k \in Key : name'[k] = name[k] \/ name'[k] = None
      /\ pc[C(s)] = "destroy" /\ pc'[C(s)] \in {"destroy", "lockfile"}
      /\ pc'[C(s)] = "lockfile" => dir'[C(s)] = "send"
      /\ pc'[A(s)] = pc[A(s)] /\ dir'[A(s)] = dir[A(s)] /\ key(A(s))' = key(A(s))
  <2>1. UNCHANGED <<inited, client_attached, fd, view>> /\ pc[C(s)] = "destroy"
    BY DEF destroy_shm
  <2>2. \A k \in Key : name'[k] = name[k] \/ name'[k] = None
    BY <1>0 DEF destroy_shm, unlinked, TypeOK
  <2>3. pc'[C(s)] \in {"destroy", "lockfile"} /\ (pc'[C(s)] = "lockfile" => dir'[C(s)] = "send")
    BY <2>1 DEF Ahead
  <2>4. pc'[A(s)] = pc[A(s)] /\ dir'[A(s)] = dir[A(s)] /\ key(A(s))' = key(A(s))
    BY Ends DEF Others, EndState, key
  <2>. QED BY <2>1, <2>2, <2>3, <2>4
<1>2. \A k : /\ (Inited(s, k)' <=> Inited(s, k)) /\ (Attached(s, k)' <=> Attached(s, k))
             /\ (Made(s, k)' <=> Made(s, k))
  BY <1>1 DEF Inited, Attached, Made
<1>3. CreatorInv(s)'
  BY <1>0, <1>1, <1>2 DEF SessionAt, CreatorInv, Locking
<1>4. AttacherInv(s)'
  BY <1>0, <1>1, <1>2 DEF SessionAt, AttacherInv
<1>5. ViewInv(s)'
  BY <1>0, <1>1, <1>2 DEF SessionAt, ViewInv
<1>6. AttachInv(s)'
  BY <1>0, <1>1, <1>2 DEF SessionAt, AttachInv
<1>7. NameInv(s)'
  BY <1>0, <1>1, <1>2, SegmentTypes DEF SessionAt, NameInv
<1>. QED BY <1>3, <1>4, <1>5, <1>6, <1>7 DEF SessionAt

\* shm_open by the creator: the name is free.
LEMMA CreateStep ==
    ASSUME Inv, NEW s \in Session, Ahead(C(s)), Others(C(s)), CreateShm(C(s)),
           NEW k \in Key, key(C(s)) = k
    PROVE  SessionAt(s)'
<1>0. SessionAt(s) /\ PcInv /\ TypeOK /\ k \in Key
  BY Keys, Ends DEF Inv, SessionInv, SessionAt
<1>1. pc[C(s)] = "create" /\ pc'[C(s)] = "init" /\ dir'[C(s)] = dir[C(s)] /\ key(C(s))' = k
  BY DEF CreateShm, Ahead, key
<1>2. k = (IF dir[C(s)] = "send" THEN 1 ELSE 2) /\ dir[C(s)] \in {"send", "recv"}
      /\ dir[C(s)] = CDir(k)
  BY <1>0, Keys, Ends DEF TypeOK, Dir, CDir
<1>3. ~Inited(s, k) /\ ~Made(s, k)
  BY <1>0, <1>1, <1>2 DEF SessionAt, CreatorInv, Made
<1>4. name[k] = None
  <2>1. name[k] \in {None, <<s, k>>}
    BY <1>0, <1>1, OwnName DEF Busy, Settled
  <2>. QED BY <1>0, <1>3, <2>1 DEF SessionAt, NameInv
<1>5. /\ name'[k] = <<s, k>> /\ \A j \in Key : j # k => name'[j] = name[j]
      /\ fd'[C(s)] = <<s, k>> /\ UNCHANGED <<inited, client_attached, view>>
  BY <1>0, <1>4, Ends DEF CreateShm, TypeOK
<1>6. /\ pc'[A(s)] = pc[A(s)] /\ dir'[A(s)] = dir[A(s)] /\ key(A(s))' = key(A(s)) /\ fd'[A(s)] = fd[A(s)]
  BY Ends DEF Others, EndState, key
<1>7. \A j : /\ (Inited(s, j)' <=> Inited(s, j)) /\ (Attached(s, j)' <=> Attached(s, j))
             /\ (Made(s, j) => Made(s, j)')
  BY <1>1, <1>5 DEF Inited, Attached, Made
<1>8. CreatorInv(s)'
  BY <1>0, <1>1, <1>2, <1>5, <1>7 DEF SessionAt, CreatorInv, Locking
<1>9. AttacherInv(s)'
  BY <1>0, <1>6, <1>7 DEF SessionAt, AttacherInv
<1>10. ViewInv(s)'
  BY <1>0, <1>5, <1>7 DEF SessionAt, ViewInv
<1>11. AttachInv(s)'
  BY <1>0, <1>1, <1>5, <1>7 DEF SessionAt, AttachInv
<1>12. NameInv(s)'
  <2>1. Made(s, k)'
    BY <1>1, <1>2 DEF Made
  <2>2. ~Attached(s, k)
    BY <1>0, <1>3 DEF SessionAt, ViewInv
  <2>3. client_attached[<<s, k>>] = 0
    BY <1>0, <1>1, <2>2 DEF SessionAt, AttachInv
  <2>4. ASSUME NEW j \in Key, name'[j] = <<s, j>>
        PROVE  Made(s, j)' /\ (client_attached'[<<s, j>>] > 0 => pc'[A(s)] = "unlink" /\ fd'[A(s)] = <<s, j>>)
    <3>1. CASE j = k
      BY <1>5, <2>1, <2>3, <3>1
    <3>2. CASE j # k
      BY <1>0, <1>5, <1>6, <1>7, <2>4, <3>2 DEF SessionAt, NameInv
    <3>. QED BY <3>1, <3>2
  <2>. QED BY <2>4 DEF NameInv
<1>. QED BY <1>8, <1>9, <1>10, <1>11, <1>12 DEF SessionAt

\* The creator sizes and initialises the segment.
LEMMA InitViewStep ==
    ASSUME Inv, NEW s \in Session, Ahead(C(s)), Others(C(s)), InitView(C(s)),
           NEW k \in Key, key(C(s)) = k
    PROVE  SessionAt(s)'
<1>0. SessionAt(s) /\ PcInv /\ TypeOK /\ k \in Key /\ fd[C(s)] = <<s, k>> /\ <<s, k>> \in Seg
  <2>1. C(s) \in End /\ C(s)[2] = s /\ pc[C(s)] = "init"
    BY Ends DEF InitView
  <2>2. fd[C(s)] = <<s, k>> /\ k \in Key /\ <<s, k>> \in Seg
    BY <2>1, WorksOn
  <2>. QED BY <2>2 DEF Inv, SessionInv, SessionAt
<1>1. pc[C(s)] = "init" /\ pc'[C(s)] = "free" /\ dir'[C(s)] = dir[C(s)] /\ key(C(s))' = k
  BY DEF InitView, Ahead, key
<1>2. k = (IF dir[C(s)] = "send" THEN 1 ELSE 2) /\ dir[C(s)] \in {"send", "recv"}
      /\ dir[C(s)] = CDir(k)
  BY <1>0, Keys, Ends DEF TypeOK, Dir, CDir
<1>3. ~Inited(s, k)
  BY <1>0, <1>1, <1>2 DEF SessionAt, CreatorInv
<1>4. ~Attached(s, k)
  BY <1>0, <1>3 DEF SessionAt, ViewInv
<1>5. /\ client_attached'[<<s, k>>] = 0
      /\ \A j \in Key : j # k => client_attached'[<<s, j>>] = client_attached[<<s, j>>]
      /\ inited' = inited \cup {<<s, k>>} /\ UNCHANGED <<name, fd>>
  <2>1. client_attached' = [client_attached EXCEPT ![<<s, k>>] = 0] /\ client_attached \in [Seg -> Nat]
    BY <1>0 DEF InitView, TypeOK
  <2>2. \A j \in Key : <<s, j>> \in Seg /\ (j # k => <<s, j>> # <<s, k>>)
    BY SegmentTypes
  <2>3. inited' = inited \cup {<<s, k>>} /\ UNCHANGED <<name, fd>>
    BY <1>0 DEF InitView
  <2>. QED BY <1>0, <2>1, <2>2, <2>3
<1>6. /\ pc'[A(s)] = pc[A(s)] /\ dir'[A(s)] = dir[A(s)] /\ key(A(s))' = key(A(s))
      /\ view'[A(s)] = view[A(s)]
  BY Ends DEF Others, EndState, key
<1>7. view'[C(s)][CDir(k)] = <<s, k>> /\ \A d \in Dir : d # CDir(k) => view'[C(s)][d] = view[C(s)][d]
  <2>1. view' = [view EXCEPT ![C(s)][CDir(k)] = <<s, k>>] /\ CDir(k) \in Dir
    BY <1>0, <1>2 DEF InitView, Dir
  <2>2. view \in [End -> [Dir -> Seg \cup {None}]] /\ C(s) \in End
    BY <1>0, Ends DEF TypeOK
  <2>. QED BY <2>1, <2>2
<1>8. /\ Inited(s, k)' /\ \A j \in Key : j # k => (Inited(s, j)' <=> Inited(s, j))
      /\ \A j : Attached(s, j)' <=> Attached(s, j)
  <2>1. \A j \in Key : CDir(j) \in Dir /\ (j # k => CDir(j) # CDir(k))
    BY <1>0 DEF CDir, Dir, Key
  <2>. QED BY <1>0, <1>6, <1>7, <2>1, SegmentTypes DEF Inited, Attached
<1>9. \A j \in Key : Made(s, j)' <=> Made(s, j)
  <2>1. \A j \in Key : CDir(j) = CDir(k) => j = k
    BY <1>0 DEF CDir, Key
  <2>. QED BY <1>1, <1>2, <1>8, <2>1 DEF Made
<1>10. CreatorInv(s)'
  <2>1. k = 1 => Inited(s, 1)' /\ ~Inited(s, 2)'
    BY <1>0, <1>1, <1>2, <1>8 DEF SessionAt, CreatorInv, Key
  <2>2. k = 2 => Inited(s, 1)' /\ Inited(s, 2)'
    BY <1>0, <1>1, <1>2, <1>8 DEF SessionAt, CreatorInv, Key
  <2>. QED BY <1>0, <1>1, <1>2, <2>1, <2>2 DEF CreatorInv, Locking, Key
<1>11. AttacherInv(s)'
  <2>1. key(A(s)) \in Key
    BY <1>0, Keys, Ends
  <2>. QED BY <1>0, <1>5, <1>6, <1>8, <1>9, <2>1 DEF SessionAt, AttacherInv
<1>12. ViewInv(s)'
  <2> SUFFICES ASSUME NEW j \in Key
               PROVE  /\ view'[C(s)][CDir(j)] \in {None, <<s, j>>}
                      /\ view'[A(s)][ADir(j)] \in {None, <<s, j>>}
                      /\ Attached(s, j)' => Inited(s, j)'
                      /\ Inited(s, j)' => <<s, j>> \in inited'
    BY DEF ViewInv
  <2>1. CASE j = k
    BY <1>0, <1>5, <1>6, <1>7, <1>8, <2>1 DEF SessionAt, ViewInv
  <2>2. CASE j # k
    <3>1. CDir(j) \in Dir /\ CDir(j) # CDir(k)
      BY <1>0, <2>2 DEF CDir, Dir, Key
    <3>. QED BY <1>0, <1>5, <1>6, <1>7, <1>8, <2>2, <3>1 DEF SessionAt, ViewInv
  <2>. QED BY <2>1, <2>2
<1>13. AttachInv(s)'
  <2>1. \A j \in Key : /\ Attached(s, j)' => client_attached'[<<s, j>>] > 0
                       /\ ~Attached(s, j)' => client_attached'[<<s, j>>] = 0
    BY <1>0, <1>1, <1>4, <1>5, <1>8 DEF SessionAt, AttachInv
  <2>. QED BY <1>1, <2>1 DEF AttachInv
<1>14. NameInv(s)'
  <2> SUFFICES ASSUME NEW j \in Key, name'[j] = <<s, j>>
        PROVE  Made(s, j)' /\ (client_attached'[<<s, j>>] > 0 => pc'[A(s)] = "unlink" /\ fd'[A(s)] = <<s, j>>)
    BY DEF NameInv
  <2>1. Made(s, j)'
    BY <1>0, <1>5, <1>9 DEF SessionAt, NameInv
  <2>2. CASE j = k
    BY <1>5, <2>1, <2>2
  <2>3. CASE j # k
    BY <1>0, <1>5, <1>6, <2>1, <2>3 DEF SessionAt, NameInv
  <2>. QED BY <2>2, <2>3
<1>. QED BY <1>10, <1>11, <1>12, <1>13, <1>14 DEF SessionAt

\* shm_open by the attacher finds a name of its own session.
LEMMA OpenStep ==
    ASSUME Inv, NEW s \in Session, Ahead(A(s)), Others(A(s)), OpenShm(A(s)),
           NEW k \in Key, key(A(s)) = k
    PROVE  SessionAt(s)'
<1>0. SessionAt(s) /\ PcInv /\ TypeOK /\ k \in Key
  BY Keys, Ends DEF Inv, SessionInv, SessionAt
<1>1. pc[A(s)] = "poll" /\ pc'[A(s)] = "lockfile" /\ dir'[A(s)] = dir[A(s)] /\ key(A(s))' = k
  BY DEF OpenShm, OpenAs, Ahead, key
<1>2. name[k] = <<s, k>>
  <2>1. name[k] # None
    BY DEF OpenShm, OpenAs
  <2>. QED BY <1>0, <1>1, <2>1, OwnName DEF Busy, Settled
<1>3. fd'[A(s)] = <<s, k>> /\ UNCHANGED <<name, inited, client_attached, view>>
  BY <1>0, <1>2, Ends DEF OpenShm, OpenAs, TypeOK
<1>4. /\ pc'[C(s)] = pc[C(s)] /\ dir'[C(s)] = dir[C(s)] /\ key(C(s))' = key(C(s)) /\ fd'[C(s)] = fd[C(s)]
  BY Ends DEF Others, EndState, key
<1>5. \A j : /\ (Inited(s, j)' <=> Inited(s, j)) /\ (Attached(s, j)' <=> Attached(s, j))
             /\ (Made(s, j)' <=> Made(s, j))
  BY <1>3, <1>4 DEF Inited, Attached, Made
<1>6. CreatorInv(s)'
  BY <1>0, <1>4, <1>5 DEF SessionAt, CreatorInv
<1>7. AttacherInv(s)'
  <2>1. Made(s, k)
    BY <1>0, <1>2 DEF SessionAt, NameInv
  <2>. QED BY <1>0, <1>1, <1>3, <1>5, <2>1 DEF SessionAt, AttacherInv, Locking
<1>8. ViewInv(s)'
  BY <1>0, <1>3, <1>5 DEF SessionAt, ViewInv
<1>9. AttachInv(s)'
  BY <1>0, <1>3, <1>4, <1>5 DEF SessionAt, AttachInv
<1>10. NameInv(s)'
  BY <1>0, <1>1, <1>3, <1>5 DEF SessionAt, NameInv
<1>. QED BY <1>6, <1>7, <1>8, <1>9, <1>10 DEF SessionAt

\* attach_init counts first: the segment is initialised, and nobody else has
\* attached to it.
LEMMA AttachStep ==
    ASSUME Inv, NEW s \in Session, Ahead(A(s)), Others(A(s)), AttachView(A(s)), ~Aborts(A(s)),
           NEW k \in Key, key(A(s)) = k
    PROVE  SessionAt(s)'
<1>0. SessionAt(s) /\ PcInv /\ TypeOK /\ fd[A(s)] = <<s, k>> /\ <<s, k>> \in Seg /\ Inited(s, k)
  <2>1. A(s) \in End /\ A(s)[2] = s /\ pc[A(s)] = "attach"
    BY Ends DEF AttachView
  <2>2. Inited(s, k) /\ fd[A(s)] = <<s, k>>
    BY <2>1, Excluded
  <2>. QED BY <2>2, SegmentTypes DEF Inv, SessionInv, SessionAt
<1>1. pc[A(s)] = "attach" /\ pc'[A(s)] = "unlink" /\ dir'[A(s)] = dir[A(s)] /\ key(A(s))' = k
  BY DEF AttachView, Ahead, key
<1>2. k = (IF dir[A(s)] = "send" THEN 2 ELSE 1) /\ dir[A(s)] \in {"send", "recv"}
      /\ dir[A(s)] = ADir(k)
  BY <1>0, Keys, Ends DEF TypeOK, Dir, ADir
<1>3. /\ client_attached'[<<s, k>>] = 1
      /\ \A j \in Key : j # k => client_attached'[<<s, j>>] = client_attached[<<s, j>>]
      /\ UNCHANGED <<name, fd, inited>>
  <2>1. /\ client_attached' = [client_attached EXCEPT ![<<s, k>>] = @ + 1]
        /\ client_attached \in [Seg -> Nat] /\ client_attached'[<<s, k>>] = 1
    BY <1>0 DEF AttachView, Aborts, TypeOK
  <2>2. \A j \in Key : <<s, j>> \in Seg /\ (j # k => <<s, j>> # <<s, k>>)
    BY SegmentTypes
  <2>3. UNCHANGED <<name, fd, inited>>
    BY DEF AttachView
  <2>. QED BY <2>1, <2>2, <2>3
<1>4. /\ pc'[C(s)] = pc[C(s)] /\ dir'[C(s)] = dir[C(s)] /\ key(C(s))' = key(C(s))
      /\ view'[C(s)] = view[C(s)]
  BY Ends DEF Others, EndState, key
<1>5. view'[A(s)][ADir(k)] = <<s, k>> /\ \A d \in Dir : d # ADir(k) => view'[A(s)][d] = view[A(s)][d]
  <2>1. view' = [view EXCEPT ![A(s)][ADir(k)] = <<s, k>>] /\ ADir(k) \in Dir
    BY <1>0, <1>2 DEF AttachView, Aborts, Dir
  <2>2. view \in [End -> [Dir -> Seg \cup {None}]] /\ A(s) \in End
    BY <1>0, Ends DEF TypeOK
  <2>. QED BY <2>1, <2>2
<1>6. \A j \in Key : ADir(j) \in Dir /\ (j # k => ADir(j) # ADir(k))
  BY DEF ADir, Dir, Key
<1>7. /\ Attached(s, k)' /\ \A j \in Key : j # k => (Attached(s, j)' <=> Attached(s, j))
      /\ \A j : (Inited(s, j)' <=> Inited(s, j)) /\ (Made(s, j)' <=> Made(s, j))
  <2>1. Attached(s, k)'
    BY <1>5, SegmentTypes DEF Attached
  <2>2. \A j \in Key : j # k => (Attached(s, j)' <=> Attached(s, j))
    BY <1>5, <1>6 DEF Attached
  <2>3. \A j : (Inited(s, j)' <=> Inited(s, j)) /\ (Made(s, j)' <=> Made(s, j))
    BY <1>4 DEF Inited, Made
  <2>. QED BY <2>1, <2>2, <2>3
<1>8. CreatorInv(s)'
  BY <1>0, <1>3, <1>4, <1>7 DEF SessionAt, CreatorInv
<1>9. AttacherInv(s)'
  <2>1. k = 2 => Attached(s, 2)' /\ ~Attached(s, 1)'
    BY <1>0, <1>1, <1>2, <1>7 DEF SessionAt, AttacherInv, Key
  <2>2. k = 1 => Attached(s, 2)' /\ Attached(s, 1)'
    BY <1>0, <1>1, <1>2, <1>7 DEF SessionAt, AttacherInv, Key
  <2>3. Made(s, k)
    BY <1>0 DEF Made
  <2>. QED BY <1>0, <1>1, <1>2, <1>3, <1>7, <2>1, <2>2, <2>3 DEF AttacherInv, Locking, Key
<1>10. ViewInv(s)'
  <2> SUFFICES ASSUME NEW j \in Key
               PROVE  /\ view'[C(s)][CDir(j)] \in {None, <<s, j>>}
                      /\ view'[A(s)][ADir(j)] \in {None, <<s, j>>}
                      /\ Attached(s, j)' => Inited(s, j)'
                      /\ Inited(s, j)' => <<s, j>> \in inited'
    BY DEF ViewInv
  <2>1. CASE j = k
    BY <1>0, <1>3, <1>4, <1>5, <1>7, <2>1 DEF SessionAt, ViewInv
  <2>2. CASE j # k
    BY <1>0, <1>3, <1>4, <1>5, <1>6, <1>7, <2>2 DEF SessionAt, ViewInv
  <2>. QED BY <2>1, <2>2
<1>11. AttachInv(s)'
  <2> SUFFICES ASSUME NEW j \in Key
               PROVE  /\ Attached(s, j)' => client_attached'[<<s, j>>] > 0
                      /\ ~Attached(s, j)' /\ pc[C(s)] \notin {"drop", "gone", "aborted"} =>
                            client_attached'[<<s, j>>] = 0
                      /\ pc[C(s)] = "gone" => client_attached'[<<s, j>>] > 0
                      /\ pc[C(s)] = "drop" /\ dir[C(s)] = "recv" => client_attached'[<<s, 1>>] > 0
    BY <1>4 DEF AttachInv, Key
  <2>1. CASE j = k
    BY <1>0, <1>3, <1>7, <2>1 DEF SessionAt, AttachInv, Key
  <2>2. CASE j # k
    BY <1>0, <1>3, <1>7, <2>2 DEF SessionAt, AttachInv, Key
  <2>. QED BY <2>1, <2>2
<1>12. NameInv(s)'
  <2> SUFFICES ASSUME NEW j \in Key, name'[j] = <<s, j>>
        PROVE  Made(s, j)' /\ (client_attached'[<<s, j>>] > 0 => pc'[A(s)] = "unlink" /\ fd'[A(s)] = <<s, j>>)
    BY DEF NameInv
  <2>1. Made(s, j)'
    BY <1>0, <1>3, <1>7 DEF SessionAt, NameInv
  <2>2. CASE j = k
    BY <1>0, <1>1, <1>3, <2>1, <2>2
  <2>3. CASE j # k
    BY <1>0, <1>1, <1>3, <2>1, <2>3 DEF SessionAt, NameInv
  <2>. QED BY <2>2, <2>3
<1>. QED BY <1>8, <1>9, <1>10, <1>11, <1>12 DEF SessionAt

\* The attacher removes the name, which is the one it has attached to.
LEMMA UnlinkStep ==
    ASSUME Inv, NEW s \in Session, Ahead(A(s)), Others(A(s)), UnlinkShm(A(s)),
           NEW k \in Key, key(A(s)) = k
    PROVE  SessionAt(s)'
<1>0. SessionAt(s) /\ PcInv /\ TypeOK
  BY DEF Inv, SessionInv, SessionAt
<1>1. pc[A(s)] = "unlink" /\ pc'[A(s)] = "free" /\ dir'[A(s)] = dir[A(s)] /\ key(A(s))' = k
  BY DEF UnlinkShm, Ahead, key
<1>2. /\ UNCHANGED <<inited, client_attached, fd, view>>
      /\ name'[k] = None /\ \A j \in Key : j # k => name'[j] = name[j]
  BY <1>0 DEF UnlinkShm, unlinked, TypeOK
<1>3. /\ pc'[C(s)] = pc[C(s)] /\ dir'[C(s)] = dir[C(s)] /\ key(C(s))' = key(C(s))
  BY Ends DEF Others, EndState, key
<1>4. \A j : /\ (Inited(s, j)' <=> Inited(s, j)) /\ (Attached(s, j)' <=> Attached(s, j))
             /\ (Made(s, j)' <=> Made(s, j))
  BY <1>2, <1>3 DEF Inited, Attached, Made
<1>5. CreatorInv(s)'
  BY <1>0, <1>2, <1>3, <1>4 DEF SessionAt, CreatorInv
<1>6. AttacherInv(s)'
  BY <1>0, <1>1, <1>4 DEF SessionAt, AttacherInv, Locking
<1>7. ViewInv(s)'
  BY <1>0, <1>2, <1>4 DEF SessionAt, ViewInv
<1>8. AttachInv(s)'
  BY <1>0, <1>2, <1>3, <1>4 DEF SessionAt, AttachInv
<1>9. NameInv(s)'
  <2> SUFFICES ASSUME NEW j \in Key, name'[j] = <<s, j>>
        PROVE  Made(s, j)' /\ ~(client_attached[<<s, j>>] > 0)
    BY <1>2 DEF NameInv
  <2>1. j # k
    BY <1>2, SegmentTypes
  <2>2. fd[A(s)] = <<s, k>>
    BY <1>0, <1>1 DEF SessionAt, AttacherInv
  <2>3. fd[A(s)] # <<s, j>>
    BY <2>1, <2>2
  <2>. QED BY <1>0, <1>2, <1>4, <2>1, <2>3 DEF SessionAt, NameInv
<1>. QED BY <1>5, <1>6, <1>7, <1>8, <1>9 DEF SessionAt

\* The destructor counts, and removes the name if it counts first.
LEMMA DropStep ==
    ASSUME Inv, NEW s \in Session, Ahead(C(s)), Others(C(s)), DropShm(C(s)),
           NEW k \in Key, key(C(s)) = k
    PROVE  SessionAt(s)'
<1>0. SessionAt(s) /\ PcInv /\ TypeOK /\ view[C(s)][dir[C(s)]] = <<s, k>> /\ <<s, k>> \in Seg
  <2>1. C(s) \in End /\ C(s)[2] = s /\ pc[C(s)] = "drop"
    BY Ends DEF DropShm, DropIf
  <2>2. view[C(s)][dir[C(s)]] = <<s, k>>
    BY <2>1, WorksOn
  <2>. QED BY <2>2, SegmentTypes DEF Inv, SessionInv, SessionAt
<1>1. k = (IF dir[C(s)] = "send" THEN 1 ELSE 2) /\ dir[C(s)] \in {"send", "recv"}
  BY <1>0, Keys, Ends DEF TypeOK, Dir
<1>2. /\ pc[C(s)] = "drop"
      /\ k = 1 => pc'[C(s)] = "drop" /\ dir'[C(s)] = "recv"
      /\ k = 2 => pc'[C(s)] = "gone" /\ dir'[C(s)] = "send"
  BY <1>1 DEF DropShm, DropIf, Ahead
<1>3. /\ client_attached'[<<s, k>>] = client_attached[<<s, k>>] + 1
      /\ client_attached'[<<s, k>>] > 0 /\ client_attached[<<s, k>>] \in Nat
      /\ \A j \in Key : j # k => client_attached'[<<s, j>>] = client_attached[<<s, j>>]
      /\ UNCHANGED <<view, fd, inited>>
  <2>1. /\ client_attached' = [client_attached EXCEPT ![<<s, k>>] = @ + 1]
        /\ client_attached \in [Seg -> Nat] /\ UNCHANGED <<view, fd, inited>>
    BY <1>0 DEF DropShm, DropIf, TypeOK
  <2>2. \A j \in Key : <<s, j>> \in Seg /\ (j # k => <<s, j>> # <<s, k>>)
    BY SegmentTypes
  <2>. QED BY <1>0, <2>1, <2>2
<1>4. /\ client_attached[<<s, k>>] = 0 => name'[k] = None
      /\ client_attached[<<s, k>>] # 0 => name'[k] = name[k]
      /\ \A j \in Key : j # k => name'[j] = name[j]
  BY <1>0 DEF DropShm, DropIf, unlinked, TypeOK
<1>5. /\ pc'[A(s)] = pc[A(s)] /\ dir'[A(s)] = dir[A(s)] /\ key(A(s))' = key(A(s))
  BY Ends DEF Others, EndState, key
<1>6. \A j : /\ (Inited(s, j)' <=> Inited(s, j)) /\ (Attached(s, j)' <=> Attached(s, j))
             /\ (Made(s, j)' <=> Made(s, j))
  BY <1>2, <1>3, <1>1 DEF Inited, Attached, Made
<1>7. CreatorInv(s)'
  BY <1>0, <1>1, <1>2, <1>6 DEF SessionAt, CreatorInv, Locking
<1>8. AttacherInv(s)'
  BY <1>0, <1>3, <1>5, <1>6 DEF SessionAt, AttacherInv
<1>9. ViewInv(s)'
  BY <1>0, <1>3, <1>6 DEF SessionAt, ViewInv
<1>10. AttachInv(s)'
  <2>1. \A j \in Key : Attached(s, j)' => client_attached'[<<s, j>>] > 0
    BY <1>0, <1>3, <1>6 DEF SessionAt, AttachInv
  <2>2. CASE k = 1
    BY <1>2, <1>3, <2>1, <2>2 DEF AttachInv
  <2>3. CASE k = 2
    <3>1. client_attached'[<<s, 1>>] > 0
      BY <1>0, <1>1, <1>2, <1>3, <2>3 DEF SessionAt, AttachInv, Key
    <3>. QED BY <1>2, <1>3, <2>1, <2>3, <3>1 DEF AttachInv, Key
  <2>. QED BY <2>2, <2>3 DEF Key
<1>11. NameInv(s)'
  <2> SUFFICES ASSUME NEW j \in Key, name'[j] = <<s, j>>
        PROVE  Made(s, j)' /\ (client_attached'[<<s, j>>] > 0 => pc'[A(s)] = "unlink" /\ fd'[A(s)] = <<s, j>>)
    BY DEF NameInv
  <2>1. name[j] = <<s, j>>
    BY <1>3, <1>4, SegmentTypes
  <2>2. Made(s, j)'
    BY <1>0, <1>6, <2>1 DEF SessionAt, NameInv
  <2>3. CASE j = k
    <3>1. client_attached[<<s, k>>] > 0
      BY <1>3, <1>4, <2>3, SegmentTypes
    <3>. QED BY <1>0, <1>3, <1>5, <2>1, <2>2, <2>3, <3>1 DEF SessionAt, NameInv
  <2>4. CASE j # k
    BY <1>0, <1>3, <1>5, <2>1, <2>2, <2>4 DEF SessionAt, NameInv
  <2>. QED BY <2>3, <2>4
<1>. QED BY <1>7, <1>8, <1>9, <1>10, <1>11 DEF SessionAt

\* A failing assert: the count was the destructor's, so the names are gone.
LEMMA AbortStep ==
    ASSUME Inv, NEW e \in End, AttachView(e), Aborts(e), NEW s \in Session
    PROVE  SessionAt(s)'
<1>0. SessionAt(s) /\ PcInv /\ TypeOK
  BY DEF Inv, SessionInv, SessionAt
<1> DEFINE t == e[2]
           k == key(e)
<1>1. /\ e = A(t) /\ pc[e] = "attach" /\ together' = together
      /\ \A x \in End : pc'[x] = IF proc(x) = proc(e) THEN "aborted" ELSE pc[x]
      /\ UNCHANGED <<dir, view, name, inited, fd>>
      /\ client_attached' = [client_attached EXCEPT ![fd[e]] = @ + 1]
      /\ client_attached[fd[e]] # 0 /\ fd[e] \in Seg
  BY AbortCourse
<1>2. fd[e] = <<t, k>> /\ k \in Key /\ t \in Session
  BY <1>1, WorksOn
<1>3. \A x \in Session : pc'[A(x)] = "aborted" /\ pc'[C(x)] \in {pc[C(x)], "aborted"}
  BY <1>1, Ends, Processes
<1>4. \A j \in Key : /\ client_attached[<<s, j>>] \in Nat /\ client_attached'[<<s, j>>] \in Nat
                     /\ client_attached'[<<s, j>>] >= client_attached[<<s, j>>]
                     /\ <<s, j>> # <<t, k>> => client_attached'[<<s, j>>] = client_attached[<<s, j>>]
  <2>1. client_attached \in [Seg -> Nat]
    BY <1>0 DEF TypeOK
  <2>. QED BY <1>1, <1>2, <2>1, SegmentTypes
<1>5. \A j : (Inited(s, j)' <=> Inited(s, j)) /\ (Attached(s, j)' <=> Attached(s, j))
  BY <1>1 DEF Inited, Attached
<1>6. CreatorInv(s)'
  <2>1. key(C(s))' = key(C(s)) /\ fd'[C(s)] = fd[C(s)] /\ dir'[C(s)] = dir[C(s)]
    BY <1>1 DEF key
  <2>2. CASE pc'[C(s)] = "aborted"
    BY <2>2 DEF CreatorInv, Locking
  <2>3. CASE pc'[C(s)] = pc[C(s)]
    BY <1>0, <1>5, <2>1, <2>3 DEF SessionAt, CreatorInv
  <2>. QED BY <1>3, <2>2, <2>3
<1>7. AttacherInv(s)'
  BY <1>3 DEF AttacherInv, Locking
<1>8. ViewInv(s)'
  BY <1>0, <1>1, <1>5 DEF SessionAt, ViewInv
<1>9. \A j \in Key : name[j] = <<s, j>> => client_attached[<<s, j>>] = 0 /\ <<s, j>> # <<t, k>>
  <2> SUFFICES ASSUME NEW j \in Key, name[j] = <<s, j>>
               PROVE  client_attached[<<s, j>>] = 0 /\ <<s, j>> # <<t, k>>
    OBVIOUS
  <2>1. pc[A(s)] # "unlink"
    <3>1. ASSUME pc[A(s)] = "unlink" PROVE FALSE
      <4>1. Busy(A(s)) /\ Busy(e) /\ A(s) \in End /\ A(s)[2] = s
        BY <1>1, <3>1, Ends DEF Busy, Settled
      <4>2. s = t
        BY <4>1, OneSession
      <4>. QED BY <1>1, <3>1, <4>2
    <3>. QED BY <3>1
  <2>2. client_attached[<<s, j>>] = 0
    BY <1>0, <1>4, <2>1 DEF SessionAt, NameInv
  <2>. QED BY <1>1, <1>2, <2>2
<1>10. AttachInv(s)'
  <2>1. \A j \in Key : Attached(s, j)' => client_attached'[<<s, j>>] > 0
    BY <1>0, <1>4, <1>5 DEF SessionAt, AttachInv
  <2>2. ASSUME NEW j \in Key, ~Attached(s, j)', pc'[C(s)] \notin {"drop", "gone", "aborted"}
        PROVE  client_attached'[<<s, j>>] = 0
    <3>1. pc[C(s)] \notin {"drop", "gone", "aborted"}
      BY <1>3, <2>2, <1>0, <1>1, Ends DEF PcInv
    <3>2. client_attached[<<s, j>>] = 0
      BY <1>0, <1>5, <2>2, <3>1 DEF SessionAt, AttachInv
    <3>3. <<s, j>> # <<t, k>>
      BY <1>1, <1>2, <3>2
    <3>. QED BY <1>4, <3>2, <3>3
  <2>3. pc'[C(s)] \in {"drop", "gone"} => pc[C(s)] = pc'[C(s)] /\ dir'[C(s)] = dir[C(s)]
    BY <1>1, <1>3
  <2>4. /\ \A j \in Key : pc'[C(s)] = "gone" => client_attached'[<<s, j>>] > 0
        /\ pc'[C(s)] = "drop" /\ dir'[C(s)] = "recv" => client_attached'[<<s, 1>>] > 0
    BY <1>0, <1>4, <2>3 DEF SessionAt, AttachInv, Key
  <2>. QED BY <2>1, <2>2, <2>4 DEF AttachInv
<1>11. NameInv(s)'
  <2> SUFFICES ASSUME NEW j \in Key, name[j] = <<s, j>>
               PROVE  Made(s, j)' /\ ~(client_attached'[<<s, j>>] > 0)
    BY <1>1 DEF NameInv
  <2>1. ~(client_attached'[<<s, j>>] > 0)
    BY <1>4, <1>9
  <2>2. Made(s, j)
    BY <1>0 DEF SessionAt, NameInv
  <2>3. pc[C(s)] # "init"
    <3>1. ASSUME pc[C(s)] = "init" PROVE FALSE
      <4>1. Busy(C(s)) /\ Busy(e) /\ C(s) \in End /\ C(s)[2] = s
        BY <1>1, <3>1, Ends DEF Busy, Settled
      <4>2. s = t
        BY <4>1, OneSession
      <4>3. ~Attached(s, k)
        BY <1>0, <1>1, <1>2, <4>2, Keys DEF SessionAt, AttacherInv
      <4>4. client_attached[<<s, k>>] = 0
        BY <1>0, <1>2, <3>1, <4>3 DEF SessionAt, AttachInv
      <4>. QED BY <1>1, <1>2, <4>2, <4>4
    <3>. QED BY <3>1
  <2>4. Made(s, j)'
    BY <1>5, <2>2, <2>3 DEF Made
  <2>. QED BY <2>1, <2>4
<1>. QED BY <1>6, <1>7, <1>8, <1>10, <1>11 DEF SessionAt

\* What is known about the sessions stays.
LEMMA SessionStep ==
    ASSUME Inv, NEW e \in End, Construct(e) \/ Step(e) \/ Destroy(e)
    PROVE  SessionInv'
<1> SUFFICES ASSUME NEW s \in Session PROVE SessionAt(s)'
  BY DEF SessionInv, SessionAt
<1>0. TypeOK /\ PcInv
  BY DEF Inv
<1>1. CASE Aborts(e)
  BY <1>1, AbortStep DEF Aborts
<1>2. CASE ~Aborts(e)
  <2>1. Ahead(e) /\ Others(e)
    BY <1>0, <1>2, Course, OneEnd
  <2>2. CASE s # e[2]
    <3>1. UNCHANGED EndState(C(s)) /\ UNCHANGED EndState(A(s))
      BY <2>1, <2>2, Ends DEF Others
    <3>. QED BY <2>2, <3>1, Touches, SessionFrame
  <2>3. CASE s = e[2]
    <3>1. key(e) \in Key /\ (e = C(s) \/ e = A(s))
      BY <1>0, <2>3, Keys, Ends
    <3>2. CASE destroy_shm(e) \/ CreateShm(e) \/ InitView(e) \/ DropShm(e)
      <4>1. e = C(s)
        BY <1>0, <3>1, <3>2 DEF destroy_shm, CreateShm, InitView, DropShm, DropIf, PcInv
      <4>. QED BY <2>1, <3>1, <3>2, <4>1, DestroyShmStep, CreateStep, InitViewStep, DropStep
    <3>3. CASE OpenShm(e) \/ AttachView(e) \/ UnlinkShm(e)
      <4>1. e = A(s)
        BY <1>0, <3>1, <3>3 DEF OpenShm, OpenAs, AttachView, UnlinkShm, PcInv
      <4>. QED BY <1>2, <2>1, <3>1, <3>3, <4>1, OpenStep, AttachStep, UnlinkStep
    <3>4. CASE ~destroy_shm(e) /\ ~CreateShm(e) /\ ~InitView(e) /\ ~DropShm(e)
               /\ ~OpenShm(e) /\ ~AttachView(e) /\ ~UnlinkShm(e)
      <4>1. UNCHANGED shm
        BY <3>4 DEF Construct, Destroy, Step, OpenLockFile, Fcntl, FcntlIf, KeyLock, CountKeyLock,
              FreeKeyLock, FreeKey, CloseLockFile, delete_file_lock
      <4>2. pc[e] \notin {"destroy", "create", "init", "poll", "attach", "unlink", "drop"}
        BY <3>4 DEF Construct, Destroy, Step, OpenLockFile, Fcntl, FcntlIf, KeyLock, CountKeyLock,
              FreeKeyLock, FreeKey, CloseLockFile, delete_file_lock
      <4>. QED BY <2>1, <2>3, <4>1, <4>2, QuietStep
    <3>. QED BY <3>2, <3>3, <3>4
  <2>. QED BY <2>2, <2>3
<1>. QED BY <1>1, <1>2

-----------------------------------------------------------------------------
(* The theorems *)

\* The invariant holds at the start ...
LEMMA InitHolds == Init => Inv
<1> SUFFICES ASSUME Init PROVE Inv
  OBVIOUS
<1>1. TypeOK
  <2>1. \A k \in Key : <<0, k>> \in Seg
    BY ShmAssumption DEF Seg
  <2>. QED BY <2>1 DEF Init, TypeOK, Dir, Process, Key
<1>2. \A e \in End : pc[e] = "off" /\ dir[e] = "send"
  BY DEF Init
<1>3. PcInv /\ MutexInv /\ OrderInv
  BY <1>2, Ends DEF PcInv, MutexInv, OrderInv, Active, Critical
<1>4. FileLockInv
  BY <1>2, Ends DEF FileLockInv, Opened, Locked, Critical, Init
<1>5. CounterInv
  <2>1. \A p \in Process, k \in Key : Users(p, k) = {}
    BY <1>2 DEF Users, Critical
  <2>2. \A p \in Process, k \in Key : counter[p][k] = 0
    BY DEF Init
  <2>3. Cardinality({}) = 0
    BY FS_EmptySet
  <2>. QED BY <2>1, <2>2, <2>3 DEF CounterInv
<1>6. \A k \in Key : name[k] \in {None, <<0, k>>}
  BY DEF Init
<1>7. OldNameInv
  BY <1>2, <1>6, Ends, ShmAssumption DEF OldNameInv, Session
<1>8. ASSUME NEW s \in Session PROVE SessionAt(s)
  <2>1. \A k \in Key : ~Inited(s, k) /\ ~Attached(s, k)
                       /\ view[C(s)][CDir(k)] = None /\ view[A(s)][ADir(k)] = None
    BY Ends DEF Init, Inited, Attached, CDir, ADir, Dir
  <2>2. \A k \in Key : client_attached[<<s, k>>] = 0
    BY SegmentTypes DEF Init
  <2>3. \A k \in Key : name[k] # <<s, k>>
    <3>1. s # 0
      BY ShmAssumption DEF Session
    <3>2. \A k \in Key : <<s, k>> # <<0, k>>
      BY <3>1
    <3>. QED BY <1>6, <3>2, SegmentTypes
  <2>4. CreatorInv(s) /\ AttacherInv(s)
    BY <1>2, <2>1, Ends DEF CreatorInv, AttacherInv, Locking, Key
  <2>5. ViewInv(s) /\ AttachInv(s) /\ NameInv(s)
    BY <1>2, <2>1, <2>2, <2>3, Ends DEF ViewInv, AttachInv, NameInv
  <2>. QED BY <2>4, <2>5 DEF SessionAt
<1>. QED BY <1>1, <1>3, <1>4, <1>5, <1>7, <1>8 DEF Inv, SessionInv, SessionAt

\* ... and every step keeps it.
LEMMA StepHolds == Inv /\ [Next]_vars => Inv'
<1> SUFFICES ASSUME Inv, [Next]_vars PROVE Inv'
  OBVIOUS
<1>1. ASSUME NEW e \in End, Construct(e) \/ Step(e) \/ Destroy(e) PROVE Inv'
  BY <1>1, TypeStep, PcStep, CounterStep, MutexStep, SessionStep, OldNameStep, OrderStep, FileLockStep
     DEF Inv
<1>2. CASE UNCHANGED vars
  BY <1>2 DEF vars, shm, locks, Inv, TypeOK, PcInv, CounterInv, MutexInv, SessionInv, OldNameInv,
        OrderInv, FileLockInv, Users, CreatorInv, AttacherInv, ViewInv, AttachInv, NameInv, Active,
        Inited, Attached, Made, key, proc
<1>. QED BY <1>1, <1>2 DEF Next, Stopped

\* Inv is an invariant.
LEMMA InvHolds == Spec => []Inv
BY InitHolds, StepHolds, PTL DEF Spec

\* The type invariant, for any number of sessions: no segment is used that was
\* not opened, and no counter goes below 0.
THEOREM ShmTypes == Spec => []TypeOK
<1>1. Inv => TypeOK
  BY DEF Inv
<1>. QED BY <1>1, InvHolds, PTL

\* However many sessions and threads use it, free_key_lock does not erase the
\* entry of s_key_lock_global_map whose mutex somebody holds or waits for.
THEOREM MutexStaysAlive == Spec => []MutexAlive
<1>1. Inv => MutexAlive
  BY Counted DEF MutexAlive
<1>. QED BY <1>1, InvHolds, PTL

\* attach_shm, which opens the segment without a lock, maps it after the
\* creator has sized and initialised it, in one process and in two.
THEOREM MapsWhatIsReady == Spec => []MappedWhenReady
<1>1. Inv => MappedWhenReady
  <2> SUFFICES ASSUME Inv, NEW s \in Session, pc[A(s)] = "attach" PROVE fd[A(s)] \in inited
    BY DEF MappedWhenReady
  <2>1. Inited(s, key(A(s))) /\ fd[A(s)] = <<s, key(A(s))>>
    BY Excluded
  <2>2. key(A(s)) \in Key /\ ViewInv(s)
    BY Keys, Ends DEF Inv, SessionInv
  <2>. QED BY <2>1, <2>2 DEF ViewInv
<1>. QED BY <1>1, InvHolds, PTL

\* attach_init's assertion can fail only against the creator's own destructor:
\* no second end finds the segment, in whatever session.
THEOREM AssertsOnlyQuit == Spec => []AssertHolds
<1>1. Inv => AssertHolds
  <2> SUFFICES ASSUME Inv, NEW s \in Session, pc[A(s)] = "attach"
               PROVE  client_attached[fd[A(s)]] = 0 \/ pc[C(s)] \in {"drop", "gone"}
    BY DEF AssertHolds
  <2>1. Inited(s, key(A(s))) /\ fd[A(s)] = <<s, key(A(s))>>
    BY Excluded
  <2>2. key(A(s)) \in Key /\ AttachInv(s) /\ AttacherInv(s) /\ PcInv
        /\ key(A(s)) = (IF dir[A(s)] = "send" THEN 2 ELSE 1)
    BY Keys, Ends DEF Inv, SessionInv
  <2>3. ~Attached(s, key(A(s)))
    BY <2>2 DEF AttacherInv
  <2>4. pc[C(s)] # "aborted"
    BY <2>2, Ends DEF PcInv
  <2>. QED BY <2>1, <2>2, <2>3, <2>4 DEF AttachInv
<1>. QED BY <1>1, InvHolds, PTL

\* Of the two ends, the one that counts first removes the name: when the
\* creator is gone none of its names is left, but the one being removed.
THEOREM NamesAreRemoved == Spec => []NothingLeft
<1>1. Inv => NothingLeft
  BY DEF Inv, SessionInv, AttachInv, NameInv, NothingLeft
<1>. QED BY <1>1, InvHolds, PTL

\* Ends that have met use the same two segments, crosswise, and share them
\* with no end of another session, although all sessions use the same names.
THEOREM SegmentsAreShared == Spec => []SameSegments
<1>1. Inv => SameSegments
  <2> SUFFICES ASSUME Inv, NEW s \in Session, Met(s)
               PROVE  /\ view[A(s)]["send"] = view[C(s)]["recv"]
                      /\ view[A(s)]["recv"] = view[C(s)]["send"]
                      /\ \A e \in End, d, c \in Dir : view[e][d] = view[C(s)][c] => e[2] = s
    BY DEF SameSegments
  <2>1. ASSUME NEW r \in Session
        PROVE  /\ view[C(r)]["send"] \in {None, <<r, 1>>} /\ view[C(r)]["recv"] \in {None, <<r, 2>>}
               /\ view[A(r)]["send"] \in {None, <<r, 2>>} /\ view[A(r)]["recv"] \in {None, <<r, 1>>}
    <3>1. ViewInv(r)
      BY DEF Inv, SessionInv
    <3>. QED BY <3>1 DEF ViewInv, CDir, ADir, Key
  <2>2. Attached(s, 1) /\ Attached(s, 2) /\ Inited(s, 1) /\ Inited(s, 2)
    BY DEF Met, Inv, SessionInv, AttacherInv, CreatorInv
  <2>3. /\ view[C(s)]["send"] = <<s, 1>> /\ view[C(s)]["recv"] = <<s, 2>>
        /\ view[A(s)]["send"] = <<s, 2>> /\ view[A(s)]["recv"] = <<s, 1>>
    BY <2>1, <2>2 DEF Attached, Inited, CDir, ADir
  <2>4. \A e \in End, d \in Dir : view[e][d] \in {None, <<e[2], 1>>, <<e[2], 2>>}
    BY <2>1, Ends DEF Dir
  <2>5. ASSUME NEW e \in End, NEW d \in Dir, NEW c \in Dir, view[e][d] = view[C(s)][c] PROVE e[2] = s
    <3>1. \E k \in Key : view[C(s)][c] = <<s, k>>
      BY <2>3 DEF Dir, Key
    <3>2. PICK k \in Key : view[C(s)][c] = <<s, k>>
      BY <3>1
    <3>3. view[e][d] # None
      BY <2>5, <3>2, SegmentTypes
    <3>. QED BY <2>4, <2>5, <3>2, <3>3
  <2>. QED BY <2>3, <2>5
<1>. QED BY <1>1, InvHolds, PTL

\* A name that was created in this run is removed by a step after which its
\* segment is counted: by the end that attached, or by its own creator's
\* destructor.  No destructor or constructor takes the name of a later session.
THEOREM OnlyOwnNamesRemoved == Spec => OnlyOwnNames
<1>1. ASSUME Inv, NEW e \in End, Construct(e) \/ Step(e) \/ Destroy(e),
             NEW k \in Key, name[k] # None, name'[k] = None
      PROVE  name[k] = <<0, k>> \/ client_attached'[name[k]] > 0
  <2>0. TypeOK /\ PcInv /\ SessionAt(e[2]) /\ e[2] \in Session /\ key(e) \in Key
    BY <1>1, Ends, Keys DEF Inv, SessionInv, SessionAt
  <2>1. (destroy_shm(e) \/ UnlinkShm(e) \/ DropShm(e)) /\ k = key(e)
    <3>1. CASE CreateShm(e)
      BY <1>1, <2>0, <3>1, SegmentTypes DEF CreateShm, TypeOK
    <3>2. CASE destroy_shm(e) \/ UnlinkShm(e) \/ DropShm(e)
      BY <1>1, <2>0, <3>2 DEF destroy_shm, UnlinkShm, DropShm, DropIf, unlinked, TypeOK
    <3>3. CASE ~CreateShm(e) /\ ~destroy_shm(e) /\ ~UnlinkShm(e) /\ ~DropShm(e)
      <4>1. UNCHANGED name
        BY <1>1, <3>3 DEF Construct, Destroy, Step, OpenLockFile, Fcntl, FcntlIf, KeyLock, CountKeyLock,
              FreeKeyLock, FreeKey, CloseLockFile, InitView, OpenShm, OpenAs, AttachView,
              delete_file_lock, shm
      <4>. QED BY <1>1, <4>1
    <3>. QED BY <3>1, <3>2, <3>3
  <2>2. PICK s \in Session : s = e[2]
    BY <2>0
  <2>3. Active(C(s)) \/ Active(A(s))
    BY <2>1, <2>2, Ends DEF destroy_shm, UnlinkShm, DropShm, DropIf, Active
  <2>4. \/ name[k] = <<s, k>> \/ name[k] = <<0, k>>
        \/ Attached(s, k) /\ pc[C(s)] \in Settled /\ pc[A(s)] \in Settled
    BY <1>1, <2>3, NamesOf
  <2>5. CASE destroy_shm(e)
    <3>1. e = C(s) /\ pc[C(s)] = "destroy"
      BY <2>0, <2>2, <2>5, Ends DEF destroy_shm, PcInv
    <3>2. ~Made(s, k)
      BY <2>0, <2>2, <3>1 DEF SessionAt, CreatorInv, Made, Key
    <3>3. name[k] # <<s, k>>
      BY <2>0, <2>2, <3>2 DEF SessionAt, NameInv
    <3>. QED BY <2>4, <3>1, <3>3 DEF Settled
  <2>6. CASE UnlinkShm(e)
    <3>1. e = A(s) /\ pc[A(s)] = "unlink" /\ UNCHANGED client_attached
      BY <2>0, <2>2, <2>6, Ends DEF UnlinkShm, PcInv
    <3>2. k = (IF dir[A(s)] = "send" THEN 2 ELSE 1)
      BY <2>0, <2>1, <3>1, Keys
    <3>3. Attached(s, k)
      BY <2>0, <2>2, <3>1, <3>2 DEF SessionAt, AttacherInv
    <3>4. client_attached[<<s, k>>] > 0
      BY <2>0, <2>2, <3>3 DEF SessionAt, AttachInv
    <3>. QED BY <2>4, <3>1, <3>4 DEF Settled
  <2>7. CASE DropShm(e)
    <3>1. e = C(s) /\ pc[e] = "drop" /\ view[e][dir[e]] = <<s, k>> /\ <<s, k>> \in Seg
      BY <1>1, <2>1, <2>2, <2>7, WorksOn DEF DropShm, DropIf
    <3>2. client_attached \in [Seg -> Nat] /\ client_attached' = [client_attached EXCEPT ![<<s, k>>] = @ + 1]
      BY <2>0, <2>7, <3>1 DEF DropShm, DropIf, TypeOK
    <3>3. client_attached[<<s, k>>] \in Nat /\ client_attached'[<<s, k>>] = client_attached[<<s, k>>] + 1
      BY <3>1, <3>2
    <3>4. client_attached[<<s, k>>] = 0
      BY <1>1, <2>7, <3>1 DEF DropShm, DropIf
    <3>5. ~Attached(s, k)
      BY <2>0, <2>2, <3>3, <3>4 DEF SessionAt, AttachInv
    <3>. QED BY <2>4, <3>3, <3>4, <3>5
  <2>. QED BY <2>1, <2>5, <2>6, <2>7
<1>2. Inv /\ [Next]_vars =>
        [\A k \in Key : name[k] # None /\ name'[k] = None =>
            name[k] = <<0, k>> \/ client_attached'[name[k]] > 0]_vars
  <2> SUFFICES ASSUME Inv, [Next]_vars, ~UNCHANGED vars, NEW k \in Key, name[k] # None, name'[k] = None
               PROVE  name[k] = <<0, k>> \/ client_attached'[name[k]] > 0
    OBVIOUS
  <2>. QED BY <1>1 DEF Next, Stopped
<1>. QED BY <1>2, InvHolds, PTL DEF Spec, OnlyOwnNames
=============================================================================
