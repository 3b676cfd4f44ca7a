------------------------- MODULE PassthroughFsProofs ------------------------
(***************************************************************************)
(* Theorems about the passthrough engine, for any number of files, names,  *)
(* ids, handles and fds, and any interleaving with other host processes.   *)
(***************************************************************************)
EXTENDS PassthroughFs, InodeStoreProofs

\* The obligations are large: give the provers the time they need.
USE SMTT(20), ZenonT(30)

\* What the steps of a request rely on while other processes run between
\* them: the tables have not changed since the request started.
CallInv ==
  /\ LookupPending =>
       call.ino \in DOMAIN by_id /\ call.name \in Names /\ next_id \in Ids
  /\ call.op = "create" => call.fd \in Files /\ next_handle <= MaxHandle
  /\ call.op = "setattr" => call.ino \in DOMAIN by_id

EngineInv == TypeOK /\ StoreInv /\ CallInv
-----------------------------------------------------------------------------
(***************************************************************************)
(* The host file system.                                                   *)
(***************************************************************************)
\* A name resolves to a file or to nothing.
LEMMA AtType ==
  ASSUME HostTypeOK, NEW d \in Files, NEW n
  PROVE  At(d, n) \in Files \cup {Nil}
  BY DEF At, HostTypeOK

\* mkdirat, symlinkat, openat(O_CREAT | O_EXCL).
LEMMA MakeAtType ==
  ASSUME HostTypeOK, NEW d \in Files, NEW n \in Names, NEW k \in Kinds,
         NEW f \in Files, NEW open, MakeAt(d, n, k, f, open)
  PROVE  HostTypeOK'
  BY DEF HostTypeOK, MakeAt

\* unlinkat.
LEMMA RemoveAtType ==
  ASSUME HostTypeOK, NEW d \in Files, NEW n \in Names,
         UnlinkAt(d, n) \/ RmdirAt(d, n)
  PROVE  HostTypeOK'
<1>1. CASE UnlinkAt(d, n)
  BY <1>1 DEF HostTypeOK, UnlinkAt
<1>2. CASE RmdirAt(d, n)
  BY <1>2 DEF HostTypeOK, RmdirAt
<1> QED
  BY Zenon, <1>1, <1>2

\* renameat.
LEMMA RenameAtType ==
  ASSUME HostTypeOK, NEW d \in Files, NEW n \in Names,
         NEW d2 \in Files, NEW n2 \in Names, RenameAt(d, n, d2, n2)
  PROVE  HostTypeOK'
<1>1. dents[d][n] \in Files \cup {Nil}
  BY DEF HostTypeOK
<1> DEFINE removed == [dents EXCEPT ![d][n] = Nil]
<1>2. removed \in [Files -> [Names -> Files \cup {Nil}]]
  BY DEF HostTypeOK
<1>3. dents' \in [Files -> [Names -> Files \cup {Nil}]]
  <2>1. dents' = dents \/ dents' = [removed EXCEPT ![d2][n2] = dents[d][n]]
    BY DEF RenameAt
  <2> DEFINE row == [removed[d2] EXCEPT ![n2] = dents[d][n]]
  <2> HIDE DEF removed
  <2>2. row \in [Names -> Files \cup {Nil}]
    BY <1>1, <1>2
  <2>3. dents' = dents \/ dents' = [removed EXCEPT ![d2] = row]
    BY <2>1
  <2> HIDE DEF row
  <2> QED
    BY <1>2, <2>2, <2>3 DEF HostTypeOK
<1> QED
  BY ZenonT(30), <1>3 DEF HostTypeOK, RenameAt

\* linkat.
LEMMA LinkAtType ==
  ASSUME HostTypeOK, NEW f \in Files, NEW d \in Files, NEW n \in Names,
         LinkAt(f, d, n)
  PROVE  HostTypeOK'
  BY DEF HostTypeOK, LinkAt
-----------------------------------------------------------------------------
(***************************************************************************)
(* The handle table.                                                       *)
(***************************************************************************)
\* insert: the handle id is new.
LEMMA InsertHandleType ==
  ASSUME HandleTypeOK, next_handle <= MaxHandle, NEW type \in {"File", "Dir"},
         NEW fd \in Files, InsertHandle(type, fd)
  PROVE  HandleTypeOK'
<1>1. /\ DOMAIN handles' = DOMAIN handles \cup {next_handle}
      /\ handles'[next_handle] = [type |-> type, fd |-> fd]
      /\ \A h \in DOMAIN handles : h # next_handle /\ handles'[h] = handles[h]
  BY DEF InsertHandle, Put, HandleTypeOK
<1>2. next_handle \in Nat /\ next_handle >= 1 /\ next_handle' = next_handle + 1
  BY HandleAssumption DEF HandleTypeOK, InsertHandle
<1>3. [type |-> type, fd |-> fd] \in HandleData
  BY DEF HandleData
<1>4. DOMAIN handles' \subseteq 1 .. MaxHandle
  BY <1>1, <1>2, HandleAssumption DEF HandleTypeOK
<1>5. \A h \in DOMAIN handles' : handles'[h] \in HandleData /\ h < next_handle'
  BY <1>1, <1>2, <1>3, HandleAssumption DEF HandleTypeOK
<1>6. next_handle' \in 1 .. (MaxHandle + 1)
  BY <1>2, HandleAssumption
<1> QED
  BY <1>4, <1>5, <1>6 DEF HandleTypeOK

\* remove.
LEMMA RemoveHandleType ==
  ASSUME HandleTypeOK, NEW h, RemoveHandle(h)
  PROVE  HandleTypeOK'
  BY DEF HandleTypeOK, RemoveHandle, Drop
-----------------------------------------------------------------------------
(***************************************************************************)
(* The engine.                                                             *)
(***************************************************************************)
\* PassthroughFs::new.
LEMMA InitEngineInv == Init => EngineInv
<1> SUFFICES ASSUME Init PROVE EngineInv
  OBVIOUS
<1>1. StoreInv
  BY StoreInitInv DEF Init
<1>2. HandleTypeOK
  BY HandleAssumption DEF Init, HandleInit, HandleTypeOK
<1>3. HostTypeOK
  BY DEF Init, HostInit, HostTypeOK, Kinds
<1>4. call \in CallType /\ CallInv
  BY DEF Init, NoCall, CallType, CallInv, LookupPending
<1>5. /\ refs \in [Ids -> Nat] /\ leaked \subseteq Files
      /\ acted \in [ino: Ids \cup {Nil}, file: Files \cup {Nil}]
      /\ hostOps \in 0 .. MaxHostOps /\ raced \subseteq Ids
  BY PassthroughAssumption DEF Init, NotActed
<1> QED
  BY <1>1, <1>2, <1>3, <1>4, <1>5 DEF EngineInv, TypeOK, StoreInv

ActedType == [ino: Ids \cup {Nil}, file: Files \cup {Nil}]

\* Between two requests nothing is pending.
LEMMA NoCallType == NoCall \in CallType /\ NotActed \in ActedType
  BY DEF NoCall, CallType, NotActed, ActedType

\* The cached location of a tracked inode leads to a file or to an error.
LEMMA ViaParentType ==
  ASSUME StoreInv, HostTypeOK, NEW id \in DOMAIN by_id
  PROVE  ViaParent(id) \in Files \cup {Nil} /\ Reopened(id) \subseteq Files \cup {Nil}
<1>1. \A i \in DOMAIN by_id : by_id[i].fd \in Files
  BY DEF StoreInv, StoreTypeOK, InodeData
<1>2. \A d \in Files : At(d, by_id[id].name) \in Files \cup {Nil}
  BY ZenonT(30), AtType
<1> QED
  BY <1>1, <1>2 DEF ViaParent, Reopened, Resolves

\* A request that is over, or has not gone beyond its first step, in which
\* only the host's names may have changed.
LEMMA QuietStep ==
  ASSUME EngineInv, UNCHANGED <<storeVars, handleVars, leaked, hostOps>>, raced' \subseteq raced,
         HostTypeOK', call' \in CallType, CallInv',
         refs' \in [Ids -> Nat], acted' \in ActedType
  PROVE  EngineInv'
<1>1. StoreInv'
  BY StoreUnchanged DEF EngineInv
<1>2. HandleTypeOK'
  BY DEF EngineInv, TypeOK, HandleTypeOK, handleVars
<1> QED
  BY <1>1, <1>2 DEF EngineInv, TypeOK, StoreInv, ActedType

\* No request is pending.
LEMMA NoCallInv == call = NoCall => CallInv
  BY DEF NoCall, CallInv, LookupPending

\* The first step of a request that ends in a lookup.
LEMMA BeginLookupInv ==
  ASSUME EngineInv, NEW op \in {"lookup", "mkdir", "create", "symlink"},
         NEW p \in DOMAIN by_id, NEW n \in Names, NEW fd \in Files \cup {Nil},
         op = "create" => fd \in Files /\ RoomForHandle,
         RoomForInode, BeginLookup(op, p, n, fd),
         UNCHANGED <<storeVars, handleVars>>
  PROVE  call' \in CallType /\ CallInv'
<1>1. p \in Ids /\ next_id \in Ids
  BY DEF EngineInv, StoreInv, StoreTypeOK, RoomForInode, Ids
<1>2. call' = [op |-> op, ino |-> p, name |-> n, fd |-> fd, key |-> Nil,
               kind |-> Nil, todo |-> {}]
  BY ZenonT(30) DEF BeginLookup, NoCall
<1>3. call' \in CallType
  BY <1>1, <1>2 DEF CallType
<1>4. CallInv'
  BY <1>1, <1>2 DEF CallInv, LookupPending, RoomForHandle, storeVars, handleVars
<1> QED
  BY <1>3, <1>4

\* An inode the guest may name has an entry, open on a file.
LEMMA TrackedType ==
  ASSUME EngineInv, NEW id, Tracked(id)
  PROVE  id \in DOMAIN by_id /\ id \in Ids /\ by_id[id].fd \in Files
  BY DEF Tracked, EngineInv, StoreInv, StoreTypeOK, InodeData

\* lookup, up to its first system call.
LEMMA LookupInv ==
  ASSUME EngineInv, NEW p, NEW n \in Names, Lookup(p, n)
  PROVE  EngineInv'
<1>1. p \in DOMAIN by_id
  BY TrackedType DEF Lookup, TrackedAs
<1>2. call' \in CallType /\ CallInv'
  BY <1>1, BeginLookupInv DEF Lookup
<1>3. HostTypeOK' /\ refs' \in [Ids -> Nat]
  BY DEF Lookup, EngineInv, TypeOK, HostTypeOK, hostVars
<1> QED
  BY <1>2, <1>3, QuietStep, NoCallType DEF otherVars, Lookup

\* mkdir, symlink and create, up to their first system call.
LEMMA MakeInv ==
  ASSUME EngineInv, NEW p, NEW n \in Names, NEW f \in Files,
         Mkdir(p, n, f) \/ Symlink(p, n, f) \/ Create(p, n, f)
  PROVE  EngineInv'
<1>1. PICK op \in {"mkdir", "symlink", "create"}, k \in Kinds :
        /\ Make(op, p, n, k, f)
        /\ BeginLookup(op, p, n, IF op = "create" THEN f ELSE Nil)
        /\ op = "create" => RoomForHandle
  BY DEF Mkdir, Symlink, Create, Kinds
<1>2. p \in DOMAIN by_id /\ by_id[p].fd \in Files
  BY <1>1, TrackedType DEF Make, TrackedAs
<1>3. call' \in CallType /\ CallInv'
  BY <1>1, <1>2, BeginLookupInv DEF Make
<1>4. HostTypeOK'
  BY <1>1, <1>2, MakeAtType DEF Make, EngineInv, TypeOK
<1> QED
  BY <1>1, <1>3, <1>4, QuietStep, NoCallType DEF otherVars, Make, EngineInv, TypeOK

\* A request that ends in an error, or a setattr that is done.
LEMMA FailInv ==
  ASSUME EngineInv, Fail
  PROVE  EngineInv'
<1>1. StoreInv'
  BY StoreUnchanged DEF EngineInv, Fail
<1>2. HandleTypeOK' /\ HostTypeOK'
  BY DEF EngineInv, TypeOK, HandleTypeOK, handleVars, HostTypeOK, hostVars, Fail
<1>3. CallInv'
  BY NoCallInv, NoCallType DEF Fail, NoCall, CallInv, LookupPending
<1>4. leaked' \subseteq Files
  BY DEF EngineInv, TypeOK, CallType, Fail
<1>5. call' \in CallType /\ acted' \in ActedType
  BY NoCallType DEF Fail
<1> QED
  BY <1>1, <1>2, <1>3, <1>4, <1>5 DEF otherVars, EngineInv, TypeOK, StoreInv, Fail, ActedType

\* The child of a pending lookup is a file or missing.
LEMMA ChildType ==
  ASSUME EngineInv, LookupPending
  PROVE  Child \in Files \cup {Nil}
<1>1. by_id[call.ino].fd \in Files
  BY DEF EngineInv, CallInv, StoreInv, StoreTypeOK, InodeData
<1> QED
  BY <1>1, AtType DEF Child, EngineInv, TypeOK

\* fstatat in open_child.
LEMMA StatChildInv ==
  ASSUME EngineInv, StatChild
  PROVE  EngineInv'
<1>1. Child \in Files /\ kind[Child] \in Kinds
  BY ChildType DEF StatChild, StatPending, EngineInv, TypeOK, HostTypeOK
<1>2. /\ call \in CallType
      /\ call' = [call EXCEPT !.key = Child, !.kind = kind[Child]]
  BY DEF StatChild, EngineInv, TypeOK
<1> HIDE DEF Child
<1>3. /\ call' \in CallType /\ call'.op = call.op /\ call'.ino = call.ino
      /\ call'.name = call.name /\ call'.fd = call.fd
  BY ZenonT(30), <1>1, <1>2 DEF CallType
<1>4. CallInv'
  BY <1>3 DEF StatChild, EngineInv, CallInv, LookupPending, storeVars, handleVars
<1>5. HostTypeOK'
  BY DEF StatChild, EngineInv, TypeOK, HostTypeOK, hostVars
<1> QED
  BY <1>3, <1>4, <1>5, QuietStep DEF otherVars, StatChild, EngineInv, TypeOK, ActedType

\* openat in open_child, register, and create's handle.
LEMMA OpenChildInv ==
  ASSUME EngineInv, OpenChild
  PROVE  EngineInv'
<1>1. /\ Child \in Files
      /\ call.ino \in Ids /\ call.name \in Names /\ call.key \in Files
      /\ next_id \in Ids
  BY Zenon, ChildType DEF OpenChild, OpenPending, ChildOpens, EngineInv, CallInv, TypeOK,
     CallType, StoreInv, StoreTypeOK
<1>2. StoreInv'
  BY <1>1, RegisterKnownInv, RegisterNewInv DEF OpenChild, Register, EngineInv
<1>3. HandleTypeOK'
  <2>1. CASE call.op = "create"
    BY <2>1, InsertHandleType DEF OpenChild, EngineInv, TypeOK, CallInv
  <2>2. CASE call.op # "create"
    BY <2>2 DEF OpenChild, EngineInv, TypeOK, HandleTypeOK, handleVars
  <2> QED
    BY ZenonT(30), <2>1, <2>2
<1>4. HostTypeOK' /\ refs' \in [Ids -> Nat]
  <2>1. HostTypeOK'
    BY DEF OpenChild, EngineInv, TypeOK, HostTypeOK, hostVars
  <2>2. PICK i \in Ids : refs' = [refs EXCEPT ![i] = @ + 1]
    BY ZenonT(30), <1>1 DEF OpenChild, RegisteredId, EngineInv, StoreInv, StoreTypeOK
  <2> QED
    BY <2>1, <2>2 DEF EngineInv, TypeOK
<1>5. call' \in CallType /\ acted' \in ActedType /\ CallInv'
  BY NoCallType DEF OpenChild, NoCall, CallInv, LookupPending
<1> QED
  BY <1>2, <1>3, <1>4, <1>5 DEF otherVars, EngineInv, TypeOK, StoreInv, OpenChild, ActedType

\* unlink and rmdir.
LEMMA RemoveInv ==
  ASSUME EngineInv, NEW p, NEW n \in Names, Unlink(p, n) \/ Rmdir(p, n)
  PROVE  EngineInv'
<1>1. p \in DOMAIN by_id /\ by_id[p].fd \in Files
  BY TrackedType DEF Unlink, Rmdir, TrackedAs
<1>2. HostTypeOK'
  BY <1>1, RemoveAtType DEF Unlink, Rmdir, EngineInv, TypeOK
<1>3. CallInv' /\ call' \in CallType /\ refs' \in [Ids -> Nat]
  BY DEF Unlink, Rmdir, EngineInv, TypeOK, CallInv, LookupPending, storeVars, handleVars
<1> QED
  BY <1>2, <1>3, QuietStep, NoCallType DEF otherVars, Unlink, Rmdir

\* rename and its note_rename.
LEMMA RenameInv ==
  ASSUME EngineInv, NEW p, NEW p2, NEW n \in Names, NEW n2 \in Names,
         Rename(p, n, p2, n2)
  PROVE  EngineInv'
<1>1. /\ p \in DOMAIN by_id /\ by_id[p].fd \in Files
      /\ p2 \in Ids /\ by_id[p2].fd \in Files
  BY TrackedType DEF Rename, TrackedAs
<1>2. HostTypeOK'
  BY <1>1, RenameAtType DEF Rename, EngineInv, TypeOK
<1>3. StoreInv'
  BY <1>1, NoteRenameInv DEF Rename, EngineInv
<1>4. HandleTypeOK'
  BY ZenonT(30) DEF Rename, EngineInv, TypeOK, HandleTypeOK, handleVars
<1>5. CallInv' /\ call' \in CallType
  BY Zenon, NoCallType DEF Rename, Starts, NoCall, CallInv, LookupPending
<1> QED
  BY ZenonT(30), <1>2, <1>3, <1>4, <1>5, NoCallType
  DEF otherVars, EngineInv, TypeOK, StoreInv, Rename, ActedType

\* link.
LEMMA LinkInv ==
  ASSUME EngineInv, NEW id, NEW p, NEW n \in Names, Link(id, p, n)
  PROVE  EngineInv'
<1>1. /\ id \in DOMAIN by_id /\ id \in Ids /\ by_id[id].fd \in Files
      /\ p \in DOMAIN by_id /\ by_id[p].fd \in Files
  BY TrackedType DEF Link, TrackedAs
<1>2. LinkSource(id) \in Files
  BY Zenon, <1>1, ViaParentType DEF Link, LinkSource, EngineInv, TypeOK
<1>3. HostTypeOK'
  BY ZenonT(30), <1>1, <1>2, LinkAtType DEF Link, EngineInv, TypeOK
<1>4. CallInv' /\ call' \in CallType
  BY ZenonT(30) DEF Link, EngineInv, TypeOK, CallInv, LookupPending, storeVars, handleVars
<1>5. refs' \in [Ids -> Nat] /\ acted' \in ActedType
  BY <1>1, <1>2 DEF Link, EngineInv, TypeOK, ActedType
<1> QED
  BY <1>3, <1>4, <1>5, QuietStep DEF otherVars, Link

\* open and opendir.
LEMMA OpenInv ==
  ASSUME EngineInv, NEW id, Open(id) \/ Opendir(id)
  PROVE  EngineInv'
<1>1. id \in DOMAIN by_id /\ id \in Ids
  BY Zenon, TrackedType DEF Open, Opendir, TrackedAs
<1>2. PICK f \in Files, type \in {"File", "Dir"} :
        InsertHandle(type, f) /\ acted' = [ino |-> id, file |-> f]
  <2>1. Reopened(id) \ {Nil} \subseteq Files
    BY ZenonT(30), <1>1, ViaParentType DEF EngineInv, TypeOK
  <2> QED
    BY ZenonT(30), <2>1 DEF Open, Opendir
<1>3. HandleTypeOK'
  BY <1>2, InsertHandleType DEF Open, Opendir, RoomForHandle, EngineInv, TypeOK
<1>4. StoreInv'
  BY ZenonT(30), StoreUnchanged DEF Open, Opendir, EngineInv
<1>5. CallInv' /\ call' \in CallType
  BY NoCallType DEF Open, Opendir, Starts, NoCall, CallInv, LookupPending
<1>6. acted' \in ActedType
  BY <1>1, <1>2 DEF ActedType
<1>7. HostTypeOK'
  BY DEF Open, Opendir, EngineInv, TypeOK, HostTypeOK, hostVars
<1> QED
  BY ZenonT(30), <1>3, <1>4, <1>5, <1>6, <1>7
  DEF otherVars, Open, Opendir, EngineInv, TypeOK, StoreInv, ActedType

\* readlink.
LEMMA ReadlinkInv ==
  ASSUME EngineInv, NEW id, Readlink(id)
  PROVE  EngineInv'
<1>1. id \in DOMAIN by_id /\ id \in Ids
  BY TrackedType DEF Readlink, TrackedAs
<1>2. acted' \in ActedType
  BY ZenonT(30), <1>1, ViaParentType DEF Readlink, ActedType, EngineInv, TypeOK
<1>3. CallInv' /\ call' \in CallType /\ HostTypeOK' /\ refs' \in [Ids -> Nat]
  BY Zenon DEF Readlink, EngineInv, TypeOK, CallInv, LookupPending, storeVars, handleVars,
         HostTypeOK, hostVars
<1> QED
  BY <1>2, <1>3, QuietStep DEF otherVars, Readlink

\* release and releasedir.
LEMMA ReleaseInv ==
  ASSUME EngineInv, NEW h, Release(h)
  PROVE  EngineInv'
<1>1. HandleTypeOK'
  BY RemoveHandleType DEF Release, EngineInv, TypeOK
<1>2. StoreInv'
  BY ZenonT(30), StoreUnchanged DEF Release, EngineInv
<1>3. CallInv' /\ call' \in CallType
  BY NoCallType DEF Release, Starts, NoCall, CallInv, LookupPending
<1>4. HostTypeOK'
  BY DEF Release, EngineInv, TypeOK, HostTypeOK, hostVars
<1> QED
  BY <1>1, <1>2, <1>3, <1>4, NoCallType
  DEF otherVars, Release, EngineInv, TypeOK, StoreInv, ActedType

\* FORGET.
LEMMA ForgetInodeInv ==
  ASSUME EngineInv, NEW id \in Ids, ForgetInode(id)
  PROVE  EngineInv'
<1>1. refs[id] \in Nat
  BY DEF EngineInv, TypeOK
<1>2. StoreInv'
  BY ZenonT(30), <1>1, ForgetInv DEF ForgetInode, EngineInv
<1>3. CallInv' /\ call' \in CallType
  BY NoCallType DEF ForgetInode, Starts, NoCall, CallInv, LookupPending
<1>4. HandleTypeOK' /\ HostTypeOK' /\ refs' \in [Ids -> Nat]
  BY DEF ForgetInode, EngineInv, TypeOK, HandleTypeOK, handleVars, HostTypeOK, hostVars
<1> QED
  BY <1>2, <1>3, <1>4, NoCallType
  DEF otherVars, ForgetInode, EngineInv, TypeOK, StoreInv, ActedType

\* setattr, up to its first system call.
LEMMA SetattrInv ==
  ASSUME EngineInv, NEW id, NEW todo \in AttrSets, Setattr(id, todo)
  PROVE  EngineInv'
<1>1. id \in DOMAIN by_id /\ id \in Ids
  BY TrackedType DEF Setattr
<1>2. call' = [op |-> "setattr", ino |-> id, name |-> Nil, fd |-> Nil,
               key |-> Nil, kind |-> Nil, todo |-> todo]
  BY ZenonT(30) DEF Setattr, NoCall
<1>3. call' \in CallType /\ CallInv'
  BY <1>1, <1>2, PassthroughAssumption
  DEF CallType, CallInv, LookupPending, Setattr, storeVars
<1>4. HostTypeOK' /\ refs' \in [Ids -> Nat]
  BY DEF Setattr, EngineInv, TypeOK, HostTypeOK, hostVars
<1> QED
  BY <1>3, <1>4, QuietStep, NoCallType DEF otherVars, Setattr

\* One attribute of setattr.
LEMMA SetattrStepInv ==
  ASSUME EngineInv, SetattrStep
  PROVE  EngineInv'
<1>1. call.ino \in DOMAIN by_id /\ call.ino \in Ids
  BY DEF SetattrStep, EngineInv, CallInv, StoreInv, StoreTypeOK
<1>2. PICK f \in Files : acted' = [ino |-> call.ino, file |-> f]
  <2>1. AttrTargets \subseteq Files \cup {Nil}
    BY ZenonT(30), <1>1, ViaParentType DEF AttrTargets, EngineInv, TypeOK
  <2> QED
    BY ZenonT(30), <2>1 DEF SetattrStep, AttrApplies
<1>3. acted' \in ActedType
  BY <1>1, <1>2 DEF ActedType
<1>4. PICK t \in SUBSET AttrNames : call' = [call EXCEPT !.todo = t]
  BY ZenonT(30) DEF SetattrStep, EngineInv, TypeOK, CallType
<1>5. /\ call' \in CallType /\ call'.op = call.op /\ call'.ino = call.ino
      /\ call'.name = call.name /\ call'.fd = call.fd
  BY <1>4 DEF EngineInv, TypeOK, CallType
<1>6. CallInv'
  BY <1>5 DEF SetattrStep, EngineInv, CallInv, LookupPending, storeVars, handleVars
<1>7. HostTypeOK' /\ refs' \in [Ids -> Nat]
  BY DEF SetattrStep, EngineInv, TypeOK, HostTypeOK, hostVars
<1> QED
  BY <1>3, <1>5, <1>6, <1>7, QuietStep DEF otherVars, SetattrStep

\* A step of another host process.
LEMMA HostStepInv ==
  ASSUME EngineInv, HostStep, HostTypeOK'
  PROVE  EngineInv'
<1>1. StoreInv'
  BY StoreUnchanged DEF HostStep, EngineInv
<1>2. HandleTypeOK' /\ CallInv'
  BY DEF HostStep, EngineInv, TypeOK, HandleTypeOK, handleVars, storeVars, CallInv,
         LookupPending
<1>3. hostOps' \in 0 .. MaxHostOps
  BY PassthroughAssumption DEF HostStep, EngineInv, TypeOK
<1>4. raced' \subseteq Ids
  BY ZenonT(30) DEF HostStep, OpenPending, EngineInv, CallInv, TypeOK
<1> QED
  BY <1>1, <1>2, <1>3, <1>4 DEF HostStep, EngineInv, TypeOK, StoreInv

\* Every step keeps the inductive invariant.
LEMMA NextEngineInv == EngineInv /\ [Next]_vars => EngineInv'
<1> SUFFICES ASSUME EngineInv, [Next]_vars PROVE EngineInv'
  OBVIOUS
<1>1. ASSUME NEW p \in Ids, NEW n \in Names,
             Lookup(p, n) \/ Unlink(p, n) \/ Rmdir(p, n)
      PROVE  EngineInv'
  BY <1>1, LookupInv, RemoveInv
<1>2. ASSUME NEW p \in Ids, NEW n \in Names, NEW f \in Files,
             Mkdir(p, n, f) \/ Symlink(p, n, f) \/ Create(p, n, f)
      PROVE  EngineInv'
  BY <1>2, MakeInv
<1>3. CASE StatChild \/ StatChildFails \/ OpenChild \/ OpenChildFails
  BY <1>3, StatChildInv, OpenChildInv, FailInv DEF StatChildFails, OpenChildFails
<1>4. ASSUME NEW p \in DOMAIN by_id, NEW p2 \in DOMAIN by_id, NEW n \in Names,
             NEW n2 \in Names, Rename(p, n, p2, n2)
      PROVE  EngineInv'
  BY <1>4, RenameInv
<1>5. ASSUME NEW id \in Ids, NEW p \in Ids, NEW n \in Names, Link(id, p, n)
      PROVE  EngineInv'
  BY <1>5, LinkInv
<1>6. ASSUME NEW id \in Ids,
             Open(id) \/ Opendir(id) \/ Readlink(id) \/ ForgetInode(id)
      PROVE  EngineInv'
  BY <1>6, OpenInv, ReadlinkInv, ForgetInodeInv
<1>7. ASSUME NEW h \in DOMAIN handles, Release(h) PROVE EngineInv'
  BY <1>7, ReleaseInv
<1>8. ASSUME NEW id \in Ids, NEW todo \in AttrSets, Setattr(id, todo)
      PROVE  EngineInv'
  BY <1>8, SetattrInv
<1>9. CASE SetattrStep \/ SetattrEnds
  BY ZenonT(30), <1>9, SetattrStepInv, FailInv DEF SetattrEnds
<1>10. ASSUME NEW d \in Files, NEW n \in Names, NEW k \in Kinds, NEW f \in Files,
              HostMake(d, n, k, f)
       PROVE  EngineInv'
  BY ZenonT(30), <1>10, MakeAtType, HostStepInv DEF HostMake, EngineInv, TypeOK
<1>11. ASSUME NEW d \in Files, NEW n \in Names, HostRemove(d, n)
       PROVE  EngineInv'
  BY ZenonT(30), <1>11, RemoveAtType, HostStepInv DEF HostRemove, EngineInv, TypeOK
<1>12. ASSUME NEW d \in Files, NEW d2 \in Files, NEW n \in Names, NEW n2 \in Names,
              HostRename(d, n, d2, n2)
       PROVE  EngineInv'
  BY ZenonT(30), <1>12, RenameAtType, HostStepInv DEF HostRename, EngineInv, TypeOK
<1>13. CASE UNCHANGED vars
  BY Zenon, <1>13, QuietStep DEF otherVars, vars, fsVars, EngineInv, TypeOK, HostTypeOK, hostVars,
     ActedType, CallInv, LookupPending, storeVars, handleVars
<1> QED
  BY ZenonT(30), <1>1, <1>2, <1>3, <1>4, <1>5, <1>6, <1>7, <1>8, <1>9, <1>10, <1>11, <1>12,
     <1>13 DEF Next

(***************************************************************************)
(* The engine keeps its types, whatever the guest asks for and whatever    *)
(* other host processes do between its system calls.                       *)
(***************************************************************************)
THEOREM TypeCorrect == Spec => []TypeOK
<1>1. EngineInv => TypeOK
  BY DEF EngineInv
<1> QED
  BY <1>1, InitEngineInv, NextEngineInv, PTL DEF Spec

(***************************************************************************)
(* by_id and by_key stay inverse to each other: the unwrap in register     *)
(* never meets a dangling key.                                             *)
(***************************************************************************)
THEOREM TablesConsistent == Spec => []TablesAgree
<1>1. EngineInv => TablesAgree
  BY DEF EngineInv, StoreInv
<1> QED
  BY <1>1, InitEngineInv, NextEngineInv, PTL DEF Spec

(***************************************************************************)
(* An entry stays in the inode table only while its count is positive.     *)
(***************************************************************************)
THEOREM TrackedIsCounted == Spec => []LookupsPositive
<1>1. EngineInv => LookupsPositive
  BY ZenonT(30) DEF EngineInv, StoreInv
<1> QED
  BY <1>1, InitEngineInv, NextEngineInv, PTL DEF Spec
-----------------------------------------------------------------------------
\* The requests that write to the inode table; no other step does.
LEMMA StoreWriters ==
  [Next]_vars =>
    \/ UNCHANGED storeVars
    \/ OpenChild
    \/ \E p, p2 \in DOMAIN by_id, n, n2 \in Names : Rename(p, n, p2, n2)
    \/ \E id \in Ids : ForgetInode(id)
  BY ZenonT(30) DEF Next, vars, Lookup, Unlink, Rmdir, Make, Mkdir, Symlink, Create, StatChild,
         StatChildFails, OpenChildFails, Fail, Link, Open, Opendir, Readlink, Release,
         Setattr, SetattrStep, SetattrEnds, HostStep, HostMake, HostRemove, HostRename

\* The arguments that a pending lookup passes to register.
LEMMA OpenChildArgs ==
  ASSUME EngineInv, OpenChild
  PROVE  /\ call.ino \in Ids /\ call.name \in Names /\ call.key \in Files
         /\ Child \in Files /\ next_id \in Ids
         /\ Register(call.ino, call.name, Child, call.key)
  BY Zenon, ChildType DEF OpenChild, OpenPending, ChildOpens, EngineInv, CallInv, TypeOK,
     CallType, StoreInv, StoreTypeOK

\* Every step keeps the file of every inode id.
LEMMA NextIdKept == EngineInv /\ [Next]_vars => IdKept
<1> SUFFICES ASSUME EngineInv, [Next]_vars PROVE IdKept
  OBVIOUS
<1>1. CASE UNCHANGED storeVars
  BY <1>1 DEF storeVars, IdKept
<1>2. CASE OpenChild
  BY ZenonT(30), <1>2, OpenChildArgs, RegisterKept DEF EngineInv
<1>3. ASSUME NEW p, NEW p2, NEW n, NEW n2 \in Names, Rename(p, n, p2, n2)
      PROVE  IdKept
  BY Zenon, <1>3, TrackedType, NoteRenameKept DEF Rename, TrackedAs, EngineInv
<1>4. ASSUME NEW id, ForgetInode(id) PROVE IdKept
  BY <1>4, ForgetKept DEF ForgetInode, EngineInv
<1> QED
  BY <1>1, <1>2, <1>3, <1>4, StoreWriters

(***************************************************************************)
(* An inode id denotes one file for ever: an id the guest holds is never   *)
(* given to another file, also when inode numbers are reused on the host.  *)
(***************************************************************************)
THEOREM IdsAreStable == Spec => IdNamesOneFile
  BY InitEngineInv, NextEngineInv, NextIdKept, PTL DEF Spec, IdNamesOneFile
-----------------------------------------------------------------------------
\* What fstatat has described is what openat will open, unless another
\* process has been at work in between.
StatIsCurrent == OpenPending /\ next_id \notin raced => call.key = Child

KeyInv == EngineInv /\ KeyIsFd /\ StatIsCurrent

\* After a step that leaves no lookup waiting for its openat there is nothing
\* to go out of date.
LEMMA StatStep ==
  ASSUME EngineInv, StatIsCurrent, [Next]_vars
  PROVE  StatIsCurrent'
<1>1. CASE StatChild
  <2>1. /\ call \in CallType
        /\ call' = [call EXCEPT !.key = Child, !.kind = kind[Child]]
        /\ UNCHANGED <<by_id, dents>>
    BY <1>1 DEF StatChild, EngineInv, TypeOK, storeVars, hostVars
  <2>2. call'.ino = call.ino /\ call'.name = call.name /\ call'.key = Child
    BY <2>1 DEF CallType
  <2>3. Child' = Child
    BY <2>1, <2>2 DEF Child, At
  <2> QED
    BY <2>2, <2>3 DEF StatIsCurrent
<1>2. CASE call' = NoCall
  BY <1>2 DEF NoCall, StatIsCurrent, OpenPending, LookupPending
<1>3. ASSUME NEW op, NEW p, NEW n, NEW fd, BeginLookup(op, p, n, fd)
      PROVE  StatIsCurrent'
  <2>1. call'.key = Nil
    BY <1>3 DEF BeginLookup, NoCall
  <2> QED
    BY <2>1 DEF StatIsCurrent, OpenPending
<1>4. ASSUME NEW id, NEW todo, Setattr(id, todo) PROVE StatIsCurrent'
  <2>1. call'.op = "setattr"
    BY <1>4 DEF Setattr, NoCall
  <2> QED
    BY <2>1 DEF StatIsCurrent, OpenPending, LookupPending
<1>5. CASE SetattrStep
  <2>1. PICK t : call' = [call EXCEPT !.todo = t]
    BY ZenonT(30), <1>5 DEF SetattrStep
  <2>2. call'.op = "setattr"
    BY <1>5, <2>1 DEF SetattrStep, EngineInv, TypeOK, CallType
  <2> QED
    BY <2>2 DEF StatIsCurrent, OpenPending, LookupPending
<1>6. CASE UNCHANGED vars
  BY Zenon, <1>6 DEF vars, fsVars, otherVars, storeVars, hostVars, StatIsCurrent, OpenPending,
              LookupPending, Child, At
<1>7. CASE HostStep
  <2>1. /\ call' = call /\ next_id' = next_id
        /\ OpenPending => next_id \in raced'
    BY ZenonT(30), <1>7 DEF HostStep, storeVars
  <2> QED
    BY ZenonT(30), <2>1 DEF StatIsCurrent, OpenPending, LookupPending
<1>8. \/ StatChild \/ call' = NoCall \/ SetattrStep \/ UNCHANGED vars \/ HostStep
      \/ \E op, p, n, fd : BeginLookup(op, p, n, fd)
      \/ \E id, todo : Setattr(id, todo)
  BY ZenonT(30) DEF Next, Lookup, Unlink, Rmdir, Make, Mkdir, Symlink, Create, StatChildFails,
         OpenChild, OpenChildFails, Fail, Rename, Link, Open, Opendir, Readlink,
         ForgetInode, Release, SetattrEnds, HostMake, HostRemove, HostRename, Starts
<1> QED
  BY ZenonT(30), <1>1, <1>2, <1>3, <1>4, <1>5, <1>6, <1>7, <1>8

\* Only fstatat, which starts a new window, takes anything out of raced.
LEMMA RacedWriters ==
  ASSUME [Next]_vars
  PROVE  \/ raced' = raced \/ raced' = raced \ {next_id}
         \/ HostStep /\ raced \subseteq raced'
<1>1. raced' = raced \/ raced' = raced \ {next_id} \/ HostStep
  BY ZenonT(30) DEF Next, vars, fsVars, otherVars, Lookup, Unlink, Rmdir, Make, Mkdir, Symlink,
         Create, StatChild, StatChildFails, OpenChild, OpenChildFails, Fail, Rename, Link,
         Open, Opendir, Readlink, ForgetInode, Release, Setattr, SetattrStep, SetattrEnds,
         HostMake, HostRemove, HostRename
<1>2. HostStep => raced \subseteq raced'
  BY ZenonT(30) DEF HostStep
<1> QED
  BY <1>1, <1>2

\* Every step keeps key and reference fd of every inode together.
LEMMA NextKeyInv == KeyInv /\ [Next]_vars => KeyInv'
<1> SUFFICES ASSUME KeyInv, [Next]_vars PROVE KeyInv'
  OBVIOUS
<1>1. EngineInv' /\ IdKept
  BY NextEngineInv, NextIdKept DEF KeyInv
<1>2. StatIsCurrent'
  BY ZenonT(30), StatStep DEF KeyInv
<1>3. \A id \in DOMAIN by_id' \ DOMAIN by_id :
        id \notin raced' => by_id'[id].key = by_id'[id].fd
  <2>1. CASE UNCHANGED storeVars
    BY ZenonT(30), <2>1 DEF storeVars
  <2>2. CASE OpenChild
    <3>1. next_id \notin raced' => call.key = Child
      BY ZenonT(30), <2>2 DEF KeyInv, StatIsCurrent, OpenChild, otherVars
    <3>2. CASE RegisterKnown(call.ino, call.name, call.key)
      BY ZenonT(30), <3>2 DEF RegisterKnown
    <3>3. CASE RegisterNew(call.ino, call.name, Child, call.key)
      BY ZenonT(30), <3>1, <3>3 DEF RegisterNew, Put
    <3> QED
      BY Zenon, <2>2, <3>2, <3>3 DEF OpenChild, Register
  <2>3. ASSUME NEW p, NEW p2, NEW n, NEW n2 \in Names, Rename(p, n, p2, n2)
        PROVE  DOMAIN by_id' = DOMAIN by_id
    BY ZenonT(30), <2>3, TrackedType, NoteRenameInv DEF Rename, TrackedAs, KeyInv, EngineInv
  <2>4. ASSUME NEW id, ForgetInode(id) PROVE DOMAIN by_id' \subseteq DOMAIN by_id
    BY <2>4 DEF ForgetInode, Forget, ForgetIgnored, ForgetKeep, ForgetEvict, Drop,
                storeVars
  <2> QED
    BY ZenonT(30), <2>1, <2>2, <2>3, <2>4, StoreWriters
<1>4. \A id \in DOMAIN by_id : id \in raced => id \in raced'
  <2>1. next_id \notin DOMAIN by_id
    BY DEF KeyInv, EngineInv, StoreInv, StoreTypeOK, IdsAllocated, Ids
  <2> QED
    BY ZenonT(30), <2>1, RacedWriters
<1>5. KeyIsFd'
  BY <1>1, <1>3, <1>4 DEF KeyInv, KeyIsFd, IdKept
<1> QED
  BY <1>1, <1>2, <1>5 DEF KeyInv

\* The root is registered under its own key.
LEMMA InitKeyInv == Init => KeyInv
<1> SUFFICES ASSUME Init PROVE KeyInv
  OBVIOUS
<1>1. KeyIsFd
  BY DEF Init, StoreInit, KeyIsFd
<1>2. StatIsCurrent
  BY DEF Init, NoCall, StatIsCurrent, OpenPending, LookupPending
<1> QED
  BY ZenonT(30), <1>1, <1>2, InitEngineInv DEF KeyInv

(***************************************************************************)
(* Other processes may rename, remove and replace files between any two    *)
(* system calls of the engine: the fd of an inode is open on the file that *)
(* fstatat described, unless they came between that fstatat and its openat.*)
(***************************************************************************)
THEOREM KeysAreRight == Spec => []KeyIsFd
<1>1. KeyInv => KeyIsFd
  BY ZenonT(30) DEF KeyInv
<1> QED
  BY <1>1, InitKeyInv, NextKeyInv, PTL DEF Spec

(***************************************************************************)
(* Hence no file has two inodes made outside of that window, which is what *)
(* FileKey is there for.                                                   *)
(***************************************************************************)
THEOREM FilesAreUnique == Spec => []OneInodePerFile
<1>1. KeyInv => OneInodePerFile
  BY DEF KeyInv, KeyIsFd, EngineInv, StoreInv, TablesAgree, OneInodePerFile
<1> QED
  BY <1>1, InitKeyInv, NextKeyInv, PTL DEF Spec
-----------------------------------------------------------------------------
RefInv == EngineInv /\ RefsMatch

\* The steps that write to the inode table or to the guest's counts.
LEMMA RefWriters ==
  ASSUME "link" \notin Ops, [Next]_vars
  PROVE  \/ UNCHANGED <<by_id, refs>>
         \/ OpenChild
         \/ \E p, p2 \in DOMAIN by_id, n, n2 \in Names : Rename(p, n, p2, n2)
         \/ \E id \in Ids : ForgetInode(id)
  BY ZenonT(30) DEF Next, vars, fsVars, storeVars, Lookup, Unlink, Rmdir, Make, Mkdir, Symlink,
         Create, StatChild, StatChildFails, OpenChildFails, Fail, Link, Starts, Open,
         Opendir, Readlink, Release, Setattr, SetattrStep, SetattrEnds, HostStep,
         HostMake, HostRemove, HostRename

\* register counts the entry that the guest is about to count.
LEMMA OpenChildRefs ==
  ASSUME RefInv, OpenChild
  PROVE  RefsMatch'
<1>0. PICK r \in Ids : r = RegisteredId(call.key) /\ refs' = [refs EXCEPT ![r] = @ + 1]
  BY ZenonT(30), OpenChildArgs DEF OpenChild, RegisteredId, RefInv, EngineInv, StoreInv, StoreTypeOK
<1>1. refs \in [Ids -> Nat]
  BY DEF RefInv, EngineInv, TypeOK
<1>2. CASE RegisterKnown(call.ino, call.name, call.key)
  <2>1. r \in DOMAIN by_id /\ by_id[r] \in InodeData /\ r = by_key[call.key]
    BY Zenon, <1>0, <1>2 DEF RegisterKnown, RegisteredId, RefInv, EngineInv, StoreInv,
                      StoreTypeOK, TablesAgree
  <2> DEFINE e == SetLocation(by_id[r], call.ino, call.name)
             d == Counted(e)
  <2>2. by_id' = [by_id EXCEPT ![r] = d]
    BY ZenonT(30), <1>2, <2>1 DEF RegisterKnown
  <2>3. e \in InodeData /\ e.lookups = by_id[r].lookups
    BY ZenonT(30), <2>1, OpenChildArgs, SetLocationType DEF RefInv
  <2> HIDE DEF e
  <2>4. d.lookups = by_id[r].lookups + 1
    BY ZenonT(30), <2>3, CountedType
  <2> HIDE DEF d
  <2> QED
    BY <1>0, <1>1, <2>1, <2>2, <2>4 DEF RefInv, RefsMatch
<1>3. CASE RegisterNew(call.ino, call.name, Child, call.key)
  <2>1. r = next_id /\ r \notin DOMAIN by_id
    BY <1>0, <1>3 DEF RegisterNew, RegisteredId, RefInv, EngineInv, StoreInv,
                      StoreTypeOK, IdsAllocated, Ids
  <2>2. /\ DOMAIN by_id' = DOMAIN by_id \cup {r}
        /\ by_id'[r].lookups = 1
        /\ \A i \in DOMAIN by_id : by_id'[i] = by_id[i]
    BY ZenonT(30), <1>3, <2>1 DEF RegisterNew, Put
  <2> QED
    BY <1>0, <1>1, <2>1, <2>2 DEF RefInv, RefsMatch
<1> QED
  BY <1>2, <1>3 DEF OpenChild, Register

\* note_rename counts nothing.
LEMMA RenameRefs ==
  ASSUME RefInv, NEW p, NEW p2, NEW n, NEW n2 \in Names, Rename(p, n, p2, n2)
  PROVE  RefsMatch'
<1>1. NoteRename(p, n, p2, n2) /\ refs' = refs /\ p2 \in Ids
  BY ZenonT(30), TrackedType DEF Rename, TrackedAs, RefInv
<1>2. CASE UNCHANGED by_id
  BY Zenon, <1>1, <1>2 DEF RefInv, RefsMatch
<1>3. ASSUME NEW id \in LocatedAt(p, n),
             by_id' = [by_id EXCEPT ![id] = SetLocation(@, p2, n2)]
      PROVE  RefsMatch'
  <2> DEFINE d == SetLocation(by_id[id], p2, n2)
  <2>1. id \in DOMAIN by_id /\ by_id[id] \in InodeData
    BY Zenon DEF LocatedAt, RefInv, EngineInv, StoreInv, StoreTypeOK
  <2>2. d.lookups = by_id[id].lookups
    BY <1>1, <2>1, SetLocationType
  <2>3. by_id' = [by_id EXCEPT ![id] = d]
    BY Zenon, <1>3
  <2> HIDE DEF d
  <2> QED
    BY ZenonT(30), <1>1, <2>1, <2>2, <2>3 DEF RefInv, RefsMatch
<1> QED
  BY ZenonT(30), <1>1, <1>2, <1>3 DEF NoteRename

\* FORGET gives back exactly what the table has counted, so it evicts.
LEMMA ForgetRefs ==
  ASSUME RefInv, NEW id \in Ids, ForgetInode(id)
  PROVE  RefsMatch'
<1>1. /\ refs \in [Ids -> Nat] /\ refs[id] > 0
      /\ refs' = [refs EXCEPT ![id] = 0] /\ Forget(id, refs[id])
  BY Zenon DEF ForgetInode, RefInv, EngineInv, TypeOK
<1>2. CASE id = ROOT_ID
  <2>1. UNCHANGED by_id
    BY ZenonT(30), <1>1, <1>2 DEF Forget, ForgetIgnored, ForgetKeep, ForgetEvict, storeVars
  <2> QED
    BY Zenon, <1>1, <1>2, <2>1 DEF RefInv, RefsMatch
<1>3. CASE id # ROOT_ID
  <2>1. id \in DOMAIN by_id /\ by_id[id].lookups = refs[id]
    BY <1>1, <1>3 DEF RefInv, RefsMatch
  <2>2. by_id' = Drop(by_id, id)
    BY <1>1, <1>3, <2>1 DEF Forget, ForgetIgnored, ForgetKeep, ForgetEvict
  <2>3. DOMAIN by_id' = DOMAIN by_id \ {id} /\ \A i \in DOMAIN by_id' : by_id'[i] = by_id[i]
    BY Zenon, <2>2 DEF Drop
  <2> QED
    BY ZenonT(30), <1>1, <1>3, <2>3 DEF RefInv, RefsMatch
<1> QED
  BY <1>2, <1>3

(***************************************************************************)
(* The table's lookup counts are the guest's, whatever other host          *)
(* processes do, unless the guest makes hard links.                        *)
(***************************************************************************)
THEOREM RefsAgree ==
  ASSUME "link" \notin Ops
  PROVE  Spec => []RefsMatch
<1>1. Init => RefInv
  <2>1. Init => RefsMatch
    BY DEF Init, StoreInit, RefsMatch, ROOT_ID
  <2> QED
    BY ZenonT(30), <2>1, InitEngineInv DEF RefInv
<1>2. RefInv /\ [Next]_vars => RefInv'
  <2> SUFFICES ASSUME RefInv, [Next]_vars PROVE RefsMatch'
    BY NextEngineInv DEF RefInv
  <2>1. CASE UNCHANGED <<by_id, refs>>
    BY <2>1 DEF RefInv, RefsMatch
  <2> QED
    BY <2>1, RefWriters, OpenChildRefs, RenameRefs, ForgetRefs
<1>3. RefInv => RefsMatch
  BY ZenonT(30) DEF RefInv
<1> QED
  BY <1>1, <1>2, <1>3, PTL DEF Spec
-----------------------------------------------------------------------------
(***************************************************************************)
(* The cached (parent, name) of an inode leads to its file, as long as no  *)
(* name is taken away from a file other than by renaming it and nobody     *)
(* else works in the shared directory.                                     *)
(***************************************************************************)

\* No request removes a name, or replaces what has one.
NamesKept == MaxHostOps = 0 /\ Ops \cap {"unlink", "rmdir", "replace"} = {}

\* The location of an inode that is not the root.  Its parent may have been
\* forgotten; then no other inode gets the parent's id.
Placed(id) ==
  LET parent == by_id[id].parent
  IN /\ parent \in Ids /\ parent < next_id /\ by_id[id].name \in Names
     /\ parent \in DOMAIN by_id =>
          dents[by_id[parent].fd][by_id[id].name] = by_id[id].fd

RootPlaced ==
  /\ by_id[ROOT_ID].key = RootFile
  /\ by_id[ROOT_ID].parent = Nil /\ by_id[ROOT_ID].name = Nil
  /\ \A d \in Files, n \in Names : dents[d][n] # RootFile

PlaceInv == RootPlaced /\ \A id \in DOMAIN by_id \ {ROOT_ID} : Placed(id)

LocInv == KeyInv /\ raced = {} /\ PlaceInv
-----------------------------------------------------------------------------
\* What the invariant says of the tables, in one place.
LEMMA LocFacts ==
  ASSUME LocInv
  PROVE  /\ ROOT_ID \in DOMAIN by_id /\ Nil \notin DOMAIN by_id /\ Nil \notin Ids
         /\ \A id \in DOMAIN by_id : /\ id \in Ids /\ id < next_id
                                     /\ by_id[id] \in InodeData
                                     /\ by_id[id].fd \in Files
                                     /\ by_id[id].key = by_id[id].fd
         /\ \A i, j \in DOMAIN by_id : by_id[i].fd = by_id[j].fd => i = j
         /\ dents \in [Files -> [Names -> Files \cup {Nil}]]
<1>1. KeyIsFd /\ raced = {} /\ StoreInv /\ HostTypeOK
  BY DEF LocInv, KeyInv, EngineInv, TypeOK
<1>2. Nil \notin Ids
  BY FsAssumption, StoreAssumption DEF Ids
<1>3. QED
  BY <1>1, <1>2 DEF KeyIsFd, StoreInv, StoreTypeOK, IdsAllocated, TablesAgree,
                    InodeData, HostTypeOK

\* The root alone is located nowhere.
LEMMA InitPlace == Init => PlaceInv
<1> SUFFICES ASSUME Init PROVE PlaceInv
  OBVIOUS
<1>1. RootPlaced
  BY ZenonT(30), FsAssumption DEF Init, StoreInit, HostInit, RootPlaced
<1>2. DOMAIN by_id = {ROOT_ID}
  BY DEF Init, StoreInit
<1>3. QED
  BY ZenonT(30), <1>1, <1>2 DEF PlaceInv

\* A file is made or linked under a name that was free: no location was there.
LEMMA NameAdded ==
  ASSUME LocInv, NEW d \in Files, NEW n \in Names, NEW f \in Files \ {RootFile},
         dents[d][n] = Nil, dents' = [dents EXCEPT ![d][n] = f],
         UNCHANGED <<by_id, next_id>>
  PROVE  PlaceInv'
<1>1. \A x \in Files, m \in Names :
        dents'[x][m] = IF x = d /\ m = n THEN f ELSE dents[x][m]
  BY LocFacts
<1>2. RootPlaced'
  BY <1>1 DEF LocInv, PlaceInv, RootPlaced
<1>3. ASSUME NEW id \in DOMAIN by_id \ {ROOT_ID} PROVE Placed(id)'
  <2>1. Placed(id) /\ by_id[id].fd # Nil
    BY ZenonT(30), LocFacts, FsAssumption DEF LocInv, PlaceInv
  <2>2. QED
    BY <1>1, <2>1, LocFacts DEF Placed
<1>4. QED
  BY ZenonT(30), <1>2, <1>3 DEF PlaceInv

\* Neither the table nor a name changes.
LEMMA NothingPlaced ==
  ASSUME PlaceInv, UNCHANGED <<by_id, next_id, dents>>
  PROVE  PlaceInv'
  BY ZenonT(30) DEF PlaceInv, RootPlaced, Placed

\* register: the location is the one the file was just opened under.
LEMMA OpenChildPlaces ==
  ASSUME LocInv, OpenChild
  PROVE  PlaceInv'
<1>1. /\ call.ino \in DOMAIN by_id /\ call.name \in Names /\ next_id \in Ids
      /\ call.key = Child /\ Child \in Files
      /\ Register(call.ino, call.name, Child, call.key)
      /\ dents' = dents
  BY ZenonT(30), OpenChildArgs DEF LocInv, KeyInv, StatIsCurrent, OpenChild, OpenPending, EngineInv,
                       CallInv, hostVars
<1>2. Child = dents[by_id[call.ino].fd][call.name]
  BY ZenonT(30), <1>1 DEF Child, At
<1>3. Child # RootFile
  BY <1>1, <1>2, LocFacts DEF LocInv, PlaceInv, RootPlaced
<1>4. CASE RegisterKnown(call.ino, call.name, call.key)
  <2> DEFINE r == by_key[call.key]
             e == SetLocation(by_id[r], call.ino, call.name)
             new == Counted(e)
  <2>1. r \in DOMAIN by_id /\ by_id[r].key = Child
    BY ZenonT(30), <1>1, <1>4 DEF RegisterKnown, LocInv, KeyInv, EngineInv, StoreInv, TablesAgree
  <2>2. r # ROOT_ID
    BY ZenonT(30), <1>3, <2>1 DEF LocInv, PlaceInv, RootPlaced
  <2>3. by_id' = [by_id EXCEPT ![r] = new] /\ next_id' = next_id
    BY <1>4 DEF RegisterKnown
  <2>4. /\ new.fd = by_id[r].fd
        /\ new.parent = call.ino /\ new.name = call.name
    <3>1. by_id[r] \in InodeData
      BY ZenonT(30), <2>1, LocFacts
    <3>2. QED
      BY ZenonT(30), <3>1 DEF InodeData, SetLocation, Counted
  <2>5. by_id[r].fd = Child
    BY <2>1, LocFacts
  <2> HIDE DEF new, r
  <2>6. /\ DOMAIN by_id' = DOMAIN by_id /\ by_id'[r] = new
        /\ \A i \in DOMAIN by_id \ {r} : by_id'[i] = by_id[i]
        /\ \A i \in DOMAIN by_id : by_id'[i].fd = by_id[i].fd
    BY ZenonT(30), <2>1, <2>3, <2>4
  <2>7. RootPlaced'
    BY ZenonT(30), <1>1, <2>2, <2>6, LocFacts DEF LocInv, PlaceInv, RootPlaced
  <2>8. ASSUME NEW id \in DOMAIN by_id \ {ROOT_ID} PROVE Placed(id)'
    <3>1. CASE id = r
      BY ZenonT(30), <1>1, <1>2, <2>3, <2>4, <2>5, <2>6, <3>1, LocFacts DEF Placed
    <3>2. CASE id # r
      <4>1. Placed(id)
        BY DEF LocInv, PlaceInv
      <4>2. QED
        BY ZenonT(30), <1>1, <2>3, <2>6, <3>2, <4>1 DEF Placed
    <3>3. QED
      BY ZenonT(30), <3>1, <3>2
  <2>9. QED
    BY ZenonT(30), <2>6, <2>7, <2>8 DEF PlaceInv
<1>5. CASE RegisterNew(call.ino, call.name, Child, call.key)
  <2>1. PICK r \in Ids : /\ r = next_id /\ next_id' = r + 1
                         /\ r \notin DOMAIN by_id /\ r \in Nat
    BY <1>1, <1>5, LocFacts DEF RegisterNew, Ids
  <2>2. /\ DOMAIN by_id' = DOMAIN by_id \cup {r}
        /\ by_id'[r].fd = Child
        /\ by_id'[r].parent = call.ino /\ by_id'[r].name = call.name
        /\ \A i \in DOMAIN by_id : by_id'[i] = by_id[i]
    BY ZenonT(30), <1>5, <2>1 DEF RegisterNew, Put
  <2>3. RootPlaced'
    BY ZenonT(30), <1>1, <2>2, LocFacts DEF LocInv, PlaceInv, RootPlaced
  <2>4. Placed(r)'
    <3>1. call.ino \in Ids /\ call.ino < r + 1
      BY <1>1, <2>1, LocFacts DEF Ids
    <3>2. QED
      BY ZenonT(30), <1>1, <1>2, <2>1, <2>2, <3>1 DEF Placed
  <2>5. ASSUME NEW id \in DOMAIN by_id \ {ROOT_ID} PROVE Placed(id)'
    <3>1. Placed(id)
      BY ZenonT(30) DEF LocInv, PlaceInv
    <3>2. by_id[id].parent # r /\ by_id[id].parent < r + 1
      BY <2>1, <3>1 DEF Placed, Ids
    <3>3. QED
      BY ZenonT(30), <1>1, <2>1, <2>2, <3>1, <3>2 DEF Placed
  <2>6. QED
    BY ZenonT(30), <2>2, <2>3, <2>4, <2>5 DEF PlaceInv
<1>6. QED
  BY ZenonT(30), <1>1, <1>4, <1>5 DEF Register

\* A name has moved: in the two directories, nothing else has changed.
Renamed(d, n, d2, n2) ==
  /\ dents[d][n] \in Files
  /\ \A x \in Files, m \in Names :
       dents'[x][m] = IF x = d /\ m = n THEN Nil
                      ELSE IF x = d2 /\ m = n2 THEN dents[d][n]
                      ELSE dents[x][m]

\* renameat moves a name to one that is free.
LEMMA RenamedDents ==
  ASSUME dents \in [Files -> [Names -> Files \cup {Nil}]],
         NEW d \in Files, NEW n \in Names, NEW d2 \in Files, NEW n2 \in Names,
         dents[d2][n2] = Nil, RenameAt(d, n, d2, n2)
  PROVE  Renamed(d, n, d2, n2)
<1> DEFINE f == dents[d][n]
           removed == [dents EXCEPT ![d][n] = Nil]
<1>1. f \in Files /\ f # dents[d2][n2]
  BY ZenonT(30) DEF RenameAt
<1>2. dents' = [removed EXCEPT ![d2][n2] = f]
  BY Zenon, <1>1 DEF RenameAt
<1>3. /\ removed \in [Files -> [Names -> Files \cup {Nil}]]
      /\ \A x \in Files, m \in Names :
           removed[x][m] = IF x = d /\ m = n THEN Nil ELSE dents[x][m]
  BY ZenonT(30)
<1> HIDE DEF removed
<1>4. \A x \in Files, m \in Names :
        dents'[x][m] = IF x = d2 /\ m = n2 THEN f ELSE removed[x][m]
  BY ZenonT(30), <1>2, <1>3
<1>5. ~(d = d2 /\ n = n2)
  BY ZenonT(30), <1>1
<1>6. QED
  BY <1>1, <1>3, <1>4, <1>5 DEF Renamed

\* An inode that is not the one being renamed is located neither where the
\* renamed file was nor where it goes.
LEMMA OthersStay ==
  ASSUME LocInv, NEW p \in DOMAIN by_id, NEW n \in Names,
         NEW p2 \in DOMAIN by_id, NEW n2 \in Names,
         dents[by_id[p2].fd][n2] = Nil,
         RenameAt(by_id[p].fd, n, by_id[p2].fd, n2),
         NEW id \in DOMAIN by_id \ {ROOT_ID}, id \notin LocatedAt(p, n),
         DOMAIN by_id' = DOMAIN by_id, next_id' = next_id,
         \A i \in DOMAIN by_id : by_id'[i].fd = by_id[i].fd,
         by_id'[id] = by_id[id]
  PROVE  Placed(id)'
<1>1. Placed(id)
  BY ZenonT(30) DEF LocInv, PlaceInv
<1> DEFINE q == by_id[id].parent
           m == by_id[id].name
<1>2. CASE q \notin DOMAIN by_id
  BY ZenonT(30), <1>1, <1>2 DEF Placed
<1>3. CASE q \in DOMAIN by_id
  <2>1. ~(q = p /\ m = n)
    BY ZenonT(30) DEF LocatedAt
  <2>2. ~(by_id[q].fd = by_id[p].fd /\ m = n)
    BY ZenonT(30), <1>3, <2>1, LocFacts
  <2>3. dents[by_id[q].fd][m] = by_id[id].fd /\ by_id[id].fd # Nil /\ m \in Names
    BY ZenonT(30), <1>1, <1>3, LocFacts, FsAssumption DEF Placed
  <2>4. ~(by_id[q].fd = by_id[p2].fd /\ m = n2)
    BY ZenonT(30), <2>3
  <2>5. /\ by_id[p].fd \in Files /\ by_id[p2].fd \in Files /\ by_id[q].fd \in Files
        /\ dents \in [Files -> [Names -> Files \cup {Nil}]]
    BY ZenonT(30), <1>3, LocFacts
  <2>6. Renamed(by_id[p].fd, n, by_id[p2].fd, n2)
    BY ZenonT(30), <2>5, RenamedDents
  <2>7. dents'[by_id[q].fd][m] = dents[by_id[q].fd][m]
    BY ZenonT(30), <2>2, <2>3, <2>4, <2>5, <2>6 DEF Renamed
  <2>8. QED
    BY ZenonT(30), <1>1, <1>3, <2>3, <2>7 DEF Placed
<1>4. QED
  BY ZenonT(30), <1>2, <1>3

\* rename: note_rename moves the one inode that was located there.
LEMMA RenamePlaces ==
  ASSUME LocInv, NamesKept, NEW p \in DOMAIN by_id, NEW p2 \in DOMAIN by_id,
         NEW n \in Names, NEW n2 \in Names, Rename(p, n, p2, n2)
  PROVE  PlaceInv'
<1> DEFINE d == by_id[p].fd
           d2 == by_id[p2].fd
<1>1. d \in Files /\ d2 \in Files /\ p2 \in Ids /\ p2 < next_id /\ p \in Ids
  BY Zenon, LocFacts
<1>2. dents[d2][n2] = Nil
  BY ZenonT(30) DEF Rename, Starts, NamesKept, At
<1>3. RenameAt(d, n, d2, n2) /\ NoteRename(p, n, p2, n2) /\ next_id' = next_id
  BY ZenonT(30) DEF Rename, NoteRename
<1>4. /\ dents[d][n] \in Files /\ dents'[d2][n2] = dents[d][n]
      /\ \A x \in Files, m \in Names : dents'[x][m] # RootFile
  <2>1. \A x \in Files, m \in Names : dents[x][m] # RootFile
    BY ZenonT(30) DEF LocInv, PlaceInv, RootPlaced
  <2>2. dents \in [Files -> [Names -> Files \cup {Nil}]]
    BY ZenonT(30), LocFacts
  <2>3. Renamed(d, n, d2, n2)
    BY ZenonT(30), <1>1, <1>2, <1>3, <2>2, RenamedDents
  <2>4. ~(d = d2 /\ n = n2) /\ Nil # RootFile
    BY Zenon, <1>2, <2>3, FsAssumption DEF Renamed
  <2>5. QED
    BY <1>1, <2>1, <2>3, <2>4 DEF Renamed
<1>5. CASE LocatedAt(p, n) = {} /\ UNCHANGED by_id
  <2>1. RootPlaced'
    BY Zenon, <1>4, <1>5 DEF LocInv, PlaceInv, RootPlaced
  <2>2. \A id \in DOMAIN by_id \ {ROOT_ID} : Placed(id)'
    BY ZenonT(30), <1>2, <1>3, <1>5, OthersStay
  <2>3. QED
    BY <1>5, <2>1, <2>2 DEF PlaceInv
<1>6. ASSUME NEW r \in LocatedAt(p, n),
             by_id' = [by_id EXCEPT ![r] = SetLocation(by_id[r], p2, n2)]
      PROVE  PlaceInv'
  <2> DEFINE new == SetLocation(by_id[r], p2, n2)
  <2>1. r \in DOMAIN by_id /\ by_id[r].parent = p /\ by_id[r].name = n
    BY ZenonT(30) DEF LocatedAt
  <2>2. r # ROOT_ID
    BY ZenonT(30), <2>1, LocFacts DEF LocInv, PlaceInv, RootPlaced
  <2>3. by_id[r].fd = dents[d][n]
    BY Zenon, <2>1, <2>2 DEF LocInv, PlaceInv, Placed
  <2>4. new.fd = by_id[r].fd /\ new.parent = p2 /\ new.name = n2
    BY <2>1, LocFacts DEF InodeData, SetLocation
  <2>5. by_id' = [by_id EXCEPT ![r] = new]
    BY <1>6
  <2> HIDE DEF new
  <2>6. /\ DOMAIN by_id' = DOMAIN by_id /\ by_id'[r] = new
        /\ \A i \in DOMAIN by_id \ {r} : by_id'[i] = by_id[i]
        /\ \A i \in DOMAIN by_id : by_id'[i].fd = by_id[i].fd
    BY ZenonT(30), <2>1, <2>4, <2>5
  <2>7. RootPlaced'
    BY ZenonT(30), <1>4, <2>2, <2>6, LocFacts DEF LocInv, PlaceInv, RootPlaced
  <2>8. Placed(r)'
    BY ZenonT(30), <1>1, <1>3, <1>4, <2>1, <2>3, <2>4, <2>6 DEF Placed
  <2>9. ASSUME NEW id \in DOMAIN by_id \ {ROOT_ID}, id # r PROVE Placed(id)'
    <3>1. id \notin LocatedAt(p, n)
      <4>1. SUFFICES ASSUME id \in LocatedAt(p, n) PROVE FALSE
        BY ZenonT(30)
      <4>2. by_id[id].fd = dents[d][n]
        BY Zenon, <4>1 DEF LocatedAt, LocInv, PlaceInv, Placed
      <4>3. QED
        BY ZenonT(30), <2>1, <2>3, <2>9, <4>2, LocFacts
    <3>2. QED
      BY ZenonT(30), <1>2, <1>3, <2>6, <2>9, <3>1, OthersStay
  <2>10. QED
    BY ZenonT(30), <2>6, <2>7, <2>8, <2>9 DEF PlaceInv
<1>7. QED
  BY <1>3, <1>5, <1>6 DEF NoteRename

\* forget: the locations under an inode that is evicted lead nowhere any more.
LEMMA ForgetPlaces ==
  ASSUME LocInv, NEW id \in Ids, ForgetInode(id)
  PROVE  PlaceInv'
<1>1. Forget(id, refs[id]) /\ dents' = dents
  BY DEF ForgetInode, hostVars
<1>2. CASE ForgetIgnored(id)
  BY ZenonT(30), <1>1, <1>2, NothingPlaced DEF ForgetIgnored, storeVars, LocInv
<1>3. CASE ForgetKeep(id, refs[id])
  <2> DEFINE new == [by_id[id] EXCEPT !.lookups = @ - refs[id]]
  <2>1. id \in DOMAIN by_id /\ by_id' = [by_id EXCEPT ![id] = new] /\ next_id' = next_id
    BY <1>3 DEF ForgetKeep
  <2>2. /\ new.fd = by_id[id].fd /\ new.key = by_id[id].key
        /\ new.parent = by_id[id].parent /\ new.name = by_id[id].name
    BY ZenonT(30), <2>1, LocFacts DEF InodeData
  <2> HIDE DEF new
  <2>3. /\ DOMAIN by_id' = DOMAIN by_id
        /\ \A i \in DOMAIN by_id :
             /\ by_id'[i].fd = by_id[i].fd /\ by_id'[i].key = by_id[i].key
             /\ by_id'[i].parent = by_id[i].parent /\ by_id'[i].name = by_id[i].name
    BY ZenonT(30), <2>1, <2>2
  <2>4. RootPlaced'
    BY ZenonT(30), <1>1, <2>3, LocFacts DEF LocInv, PlaceInv, RootPlaced
  <2>5. ASSUME NEW i \in DOMAIN by_id \ {ROOT_ID} PROVE Placed(i)'
    <3>1. Placed(i)
      BY DEF LocInv, PlaceInv
    <3>2. QED
      BY ZenonT(30), <1>1, <2>1, <2>3, <3>1 DEF Placed
  <2>6. QED
    BY <2>3, <2>4, <2>5 DEF PlaceInv
<1>4. CASE ForgetEvict(id, refs[id])
  <2>1. /\ id # ROOT_ID /\ next_id' = next_id
        /\ DOMAIN by_id' = DOMAIN by_id \ {id}
        /\ \A i \in DOMAIN by_id \ {id} : by_id'[i] = by_id[i]
    BY ZenonT(30), <1>4 DEF ForgetEvict, Drop
  <2>2. RootPlaced'
    BY ZenonT(30), <1>1, <2>1, LocFacts DEF LocInv, PlaceInv, RootPlaced
  <2>3. ASSUME NEW i \in DOMAIN by_id' \ {ROOT_ID} PROVE Placed(i)'
    <3>1. Placed(i)
      BY ZenonT(30), <2>1 DEF LocInv, PlaceInv
    <3>2. QED
      BY ZenonT(30), <1>1, <2>1, <3>1 DEF Placed
  <2>4. QED
    BY ZenonT(30), <2>2, <2>3 DEF PlaceInv
<1>5. QED
  BY ZenonT(30), <1>1, <1>2, <1>3, <1>4 DEF Forget

\* mkdir, symlink and create make a file that had no name, so not the root.
LEMMA MakePlaces ==
  ASSUME LocInv, NEW op, NEW p, NEW n \in Names, NEW k, NEW f \in Files,
         Make(op, p, n, k, f)
  PROVE  PlaceInv'
<1>1. p \in DOMAIN by_id /\ by_id[p].fd \in Files
  BY ZenonT(30), LocFacts DEF Make, TrackedAs, Tracked
<1>2. /\ dents[by_id[p].fd][n] = Nil /\ dents' = [dents EXCEPT ![by_id[p].fd][n] = f]
      /\ f # RootFile /\ UNCHANGED <<by_id, next_id>>
  BY ZenonT(30) DEF Make, MakeAt, CanMake, Linked, storeVars
<1>3. QED
  BY ZenonT(30), <1>1, <1>2, NameAdded

\* link gives a second name to a file that is no directory, so not the root.
LEMMA LinkPlaces ==
  ASSUME LocInv, kind[RootFile] = "dir", NEW id, NEW p, NEW n \in Names, Link(id, p, n)
  PROVE  PlaceInv'
<1>1. /\ id \in DOMAIN by_id /\ by_id[id].fd \in Files
      /\ p \in DOMAIN by_id /\ by_id[p].fd \in Files
  BY ZenonT(30), LocFacts DEF Link, TrackedAs, Tracked
<1>2. LinkSource(id) \in Files
  BY ZenonT(30), <1>1, ViaParentType DEF Link, LinkSource, LocInv, KeyInv, EngineInv, TypeOK
<1>3. /\ dents[by_id[p].fd][n] = Nil
      /\ dents' = [dents EXCEPT ![by_id[p].fd][n] = LinkSource(id)]
      /\ LinkSource(id) # RootFile /\ UNCHANGED <<by_id, next_id>>
  BY ZenonT(30) DEF Link, LinkAt, CanMake, storeVars
<1>4. QED
  BY ZenonT(30), <1>1, <1>2, <1>3, NameAdded

\* The root stays a directory: only a file without a name gets another kind.
LEMMA RootIsDir ==
  ASSUME HostTypeOK, kind[RootFile] = "dir", [Next]_vars
  PROVE  kind'[RootFile] = "dir"
<1>1. ASSUME NEW d, NEW n, NEW k, NEW f \in Files, NEW open, MakeAt(d, n, k, f, open)
      PROVE  kind'[RootFile] = "dir"
  BY ZenonT(30), <1>1, FsAssumption DEF MakeAt, Linked, HostTypeOK
<1>2. ASSUME NEW op, NEW p, NEW n, NEW k, NEW f \in Files, Make(op, p, n, k, f)
      PROVE  kind'[RootFile] = "dir"
  BY ZenonT(30), <1>1, <1>2 DEF Make
<1>3. ASSUME NEW d, NEW n, NEW k, NEW f \in Files, HostMake(d, n, k, f)
      PROVE  kind'[RootFile] = "dir"
  BY ZenonT(30), <1>1, <1>3 DEF HostMake
<1>4. /\ \A d, n : UnlinkAt(d, n) \/ RmdirAt(d, n) => UNCHANGED kind
      /\ \A d, n, d2, n2 : RenameAt(d, n, d2, n2) => UNCHANGED kind
      /\ \A f, d, n : LinkAt(f, d, n) => UNCHANGED kind
  BY ZenonT(30) DEF UnlinkAt, RmdirAt, RenameAt, LinkAt
<1>5. \/ UNCHANGED kind
      \/ \E op, p, n, k : \E f \in Files : Make(op, p, n, k, f)
      \/ \E d, n, k : \E f \in Files : HostMake(d, n, k, f)
  BY ZenonT(30), <1>4 DEF Next, vars, hostVars, Lookup, Unlink, Rmdir, Mkdir, Symlink, Create,
              StatChild, StatChildFails, OpenChild, OpenChildFails, Fail, Rename, Link,
              Open, Opendir, Readlink, ForgetInode, Release, Setattr, SetattrStep,
              SetattrEnds, HostRemove, HostRename
<1>6. QED
  BY ZenonT(30), <1>2, <1>3, <1>5

\* The steps that write to the table or to a directory.
LEMMA PlaceWriters ==
  ASSUME NamesKept, [Next]_vars
  PROVE  \/ UNCHANGED <<by_id, next_id, dents>>
         \/ OpenChild \/ HostStep
         \/ \E op, p, k : \E n \in Names, f \in Files : Make(op, p, n, k, f)
         \/ \E p, p2 \in DOMAIN by_id, n, n2 \in Names : Rename(p, n, p2, n2)
         \/ \E id, p : \E n \in Names : Link(id, p, n)
         \/ \E id \in Ids : ForgetInode(id)
  BY ZenonT(30) DEF Next, vars, hostVars, storeVars, NamesKept, Starts, Lookup, Unlink, Rmdir, Mkdir,
         Symlink, Create, StatChild, StatChildFails, OpenChildFails, Fail,
         Open, Opendir, Readlink, Release, Setattr, SetattrStep, SetattrEnds,
         HostMake, HostRemove, HostRename

\* A setattr that has yet to truncate is for a regular file.
TruncatesFile ==
  call.op = "setattr" /\ "size" \in call.todo => kind[by_id[call.ino].fd] = "reg"

\* Nothing changes the kind of a file while a setattr waits.
LEMMA TruncatesStep ==
  ASSUME EngineInv, TruncatesFile, ~HostStep, [Next]_vars
  PROVE  TruncatesFile'
<1>1. CASE StatChild
  <2>1. call'.op = call.op
    BY ZenonT(30), <1>1 DEF StatChild, EngineInv, TypeOK, CallType
  <2> QED
    BY <1>1, <2>1 DEF StatChild, StatPending, LookupPending, TruncatesFile
<1>2. CASE call' = NoCall
  BY <1>2 DEF NoCall, TruncatesFile
<1>3. ASSUME NEW op \in {"lookup", "mkdir", "create", "symlink"}, NEW p, NEW n, NEW fd,
             BeginLookup(op, p, n, fd)
      PROVE  TruncatesFile'
  <2>1. call'.op = op
    BY <1>3 DEF BeginLookup, NoCall
  <2> QED
    BY <2>1 DEF TruncatesFile
<1>4. ASSUME NEW id, NEW todo, Setattr(id, todo) PROVE TruncatesFile'
  <2>1. /\ call'.ino = id /\ call'.todo = todo
        /\ by_id' = by_id /\ kind' = kind
    BY ZenonT(30), <1>4 DEF Setattr, NoCall, storeVars, hostVars
  <2> QED
    BY ZenonT(30), <1>4, <2>1 DEF Setattr, TrackedAs, TruncatesFile
<1>5. CASE SetattrStep
  <2>1. /\ call'.ino = call.ino /\ call'.todo \subseteq call.todo
        /\ call.op = "setattr" /\ by_id' = by_id /\ kind' = kind
    BY ZenonT(30), <1>5 DEF SetattrStep, EngineInv, TypeOK, CallType, storeVars, hostVars
  <2> QED
    BY ZenonT(30), <2>1 DEF TruncatesFile
<1>6. CASE UNCHANGED vars
  BY Zenon, <1>6 DEF vars, fsVars, storeVars, hostVars, TruncatesFile
<1>7. \/ StatChild \/ call' = NoCall \/ SetattrStep \/ UNCHANGED vars
      \/ \E op \in {"lookup", "mkdir", "create", "symlink"} :
           \E p, n, fd : BeginLookup(op, p, n, fd)
      \/ \E id, todo : Setattr(id, todo)
  BY ZenonT(30) DEF Next, Lookup, Unlink, Rmdir, Make, Mkdir, Symlink, Create, StatChildFails,
         OpenChild, OpenChildFails, Fail, Rename, Link, Open, Opendir, Readlink,
         ForgetInode, Release, SetattrEnds, HostMake, HostRemove, HostRename, Starts
<1> QED
  BY ZenonT(30), <1>1, <1>2, <1>3, <1>4, <1>5, <1>6, <1>7

LocRootInv == LocInv /\ kind[RootFile] = "dir" /\ TruncatesFile

\* Every step leaves every location right.
LEMMA NextLocInv ==
  ASSUME NamesKept
  PROVE  LocRootInv /\ [Next]_vars => LocRootInv'
<1> SUFFICES ASSUME LocRootInv, [Next]_vars PROVE LocRootInv'
  OBVIOUS
<1>1. KeyInv'
  BY ZenonT(30), NextKeyInv DEF LocRootInv, LocInv
<1>2. kind'[RootFile] = "dir"
  BY ZenonT(30), RootIsDir DEF LocRootInv, LocInv, KeyInv, EngineInv, TypeOK
<1>3. ~HostStep
  BY DEF HostStep, NamesKept, LocRootInv, LocInv, KeyInv, EngineInv, TypeOK
<1>4. PlaceInv'
  BY ZenonT(30), <1>3, PlaceWriters, NothingPlaced, OpenChildPlaces, MakePlaces, RenamePlaces,
     LinkPlaces, ForgetPlaces DEF LocRootInv, LocInv
<1>5. raced' = {}
  BY ZenonT(30), <1>3, RacedWriters DEF LocRootInv, LocInv
<1>6. TruncatesFile'
  BY ZenonT(30), <1>3, TruncatesStep DEF LocRootInv, LocInv, KeyInv
<1>7. QED
  BY <1>1, <1>2, <1>4, <1>5, <1>6 DEF LocRootInv, LocInv

\* A new engine satisfies the invariant.
LEMMA InitLocInv == Init => LocRootInv
  BY InitPlace, InitKeyInv, FsAssumption
     DEF LocRootInv, LocInv, Init, HostInit, NoCall, TruncatesFile

(***************************************************************************)
(* The location the engine caches for an inode (register, note_rename) is  *)
(* where its file is, after any lookups, creations, renames to free names, *)
(* hard links and forgets.                                                 *)
(***************************************************************************)
THEOREM LocationsAreRight ==
  ASSUME NamesKept
  PROVE  Spec => []LocationCurrent
<1>1. LocRootInv => LocationCurrent
  <2> SUFFICES ASSUME LocInv, NEW id \in DOMAIN by_id \ {ROOT_ID},
                      by_id[id].parent \in DOMAIN by_id
               PROVE  ViaParent(id) = by_id[id].fd
    BY ZenonT(30) DEF LocRootInv, LocationCurrent
  <2>1. Placed(id) /\ by_id[id].parent # Nil
    BY ZenonT(30), LocFacts DEF LocInv, PlaceInv
  <2>2. QED
    BY ZenonT(30), <2>1 DEF Placed, ViaParent, At
<1>2. QED
  BY <1>1, InitLocInv, NextLocInv, PTL DEF Spec

\* What a cached location leads to is the inode's file, or nothing; that is
\* followed further only where the inode is a symbolic link itself.
LEMMA LeadsToItsFile ==
  ASSUME LocInv, NEW id \in DOMAIN by_id
  PROVE  /\ ViaParent(id) # Nil => ViaParent(id) = by_id[id].fd
         /\ kind[by_id[id].fd] # "lnk" =>
              \A f \in Reopened(id) : f # Nil => f = by_id[id].fd
<1>1. ViaParent(id) # Nil => ViaParent(id) = by_id[id].fd
  <2>1. CASE id = ROOT_ID
    BY ZenonT(30), <2>1, FsAssumption DEF LocInv, PlaceInv, RootPlaced, ViaParent, At
  <2>2. CASE id # ROOT_ID
    <3>1. Placed(id) /\ by_id[id].parent # Nil
      BY ZenonT(30), <2>2, LocFacts DEF LocInv, PlaceInv, Placed
    <3>2. QED
      BY ZenonT(30), <2>2, <3>1 DEF Placed, ViaParent, At
  <2>3. QED
    BY ZenonT(30), <2>1, <2>2
<1>2. QED
  BY ZenonT(30), <1>1 DEF Reopened, Resolves

\* The next attribute is one of those that are left.
LEMMA NextAttrLeft ==
  ASSUME call.todo \in SUBSET AttrNames, call.todo # {}
  PROVE  NextAttr \in call.todo
<1>1. /\ AttrRank["size"] = 1 /\ AttrRank["mode"] = 2
      /\ AttrRank["owner"] = 3 /\ AttrRank["times"] = 4
  BY DEF AttrRank
<1>2. \E a \in call.todo : \A b \in call.todo : AttrRank[a] <= AttrRank[b]
  BY <1>1 DEF AttrNames
<1>3. QED
  BY ZenonT(30), <1>2 DEF NextAttr

\* A request that goes through a location works on the file of its inode.
LEMMA ActsStep ==
  ASSUME LocInv, TruncatesFile, NamesKept, ActsOnItsInode, [Next]_vars
  PROVE  ActsOnItsInode'
<1>1. ASSUME NEW id \in DOMAIN by_id, NEW f, f = by_id[id].fd,
             acted' = [ino |-> id, file |-> f], UNCHANGED by_id
      PROVE  ActsOnItsInode'
  BY ZenonT(30), <1>1 DEF ActsOnItsInode
<1>2. ASSUME NEW id, Open(id) \/ Opendir(id) PROVE ActsOnItsInode'
  <2>1. id \in DOMAIN by_id /\ kind[by_id[id].fd] \in {"reg", "dir"} /\ by_id' = by_id
    BY ZenonT(30), <1>2 DEF Open, Opendir, TrackedAs, Tracked, storeVars
  <2>2. kind[by_id[id].fd] # "lnk"
    BY <2>1
  <2>3. PICK f \in Reopened(id) : f # Nil /\ acted' = [ino |-> id, file |-> f]
    BY ZenonT(30), <1>2 DEF Open, Opendir
  <2>4. f = by_id[id].fd
    BY ZenonT(30), <2>1, <2>2, <2>3, LeadsToItsFile
  <2>5. QED
    BY ZenonT(30), <1>1, <2>1, <2>3, <2>4
<1>3. ASSUME NEW id, Readlink(id) PROVE ActsOnItsInode'
  BY ZenonT(30), <1>1, <1>3, LeadsToItsFile DEF Readlink, TrackedAs, Tracked, storeVars
<1>4. ASSUME NEW id, NEW p, NEW n, Link(id, p, n) PROVE ActsOnItsInode'
  BY Zenon, <1>1, <1>4, LeadsToItsFile DEF Link, LinkSource, Tracked, storeVars
<1>5. CASE SetattrStep
  <2>1. call.ino \in DOMAIN by_id
    BY <1>5 DEF SetattrStep, LocInv, KeyInv, EngineInv, CallInv
  <2>2. PICK f \in AttrTargets : f # Nil /\ acted' = [ino |-> call.ino, file |-> f]
    BY ZenonT(30), <1>5 DEF SetattrStep, AttrApplies
  <2>3. ASSUME NextAttr = "size" PROVE f = by_id[call.ino].fd
    <3>1. "size" \in call.todo
      BY ZenonT(30), <1>5, <2>3, NextAttrLeft
         DEF SetattrStep, LocInv, KeyInv, EngineInv, TypeOK, CallType
    <3>2. kind[by_id[call.ino].fd] = "reg"
      BY ZenonT(30), <1>5, <3>1 DEF SetattrStep, TruncatesFile
    <3>3. kind[by_id[call.ino].fd] # "lnk"
      BY <3>2
    <3>4. QED
      BY ZenonT(30), <2>1, <2>2, <2>3, <3>3, LeadsToItsFile DEF AttrTargets
  <2>4. ASSUME NextAttr # "size" PROVE f = by_id[call.ino].fd
    BY ZenonT(30), <2>1, <2>2, <2>4, LeadsToItsFile DEF AttrTargets
  <2>5. f = by_id[call.ino].fd => ActsOnItsInode'
    BY ZenonT(30), <1>1, <1>5, <2>1, <2>2 DEF SetattrStep, storeVars
  <2>6. QED
    BY ZenonT(30), <2>3, <2>4, <2>5
<1>6. CASE acted' = NotActed
  <2>1. acted'.ino = Nil
    BY <1>6 DEF NotActed
  <2>2. Nil \notin DOMAIN by_id'
    <3>1. KeyInv'
      BY NextKeyInv DEF LocInv
    <3>2. QED
      BY <3>1, FsAssumption, StoreAssumption
         DEF KeyInv, EngineInv, StoreInv, StoreTypeOK, Ids
  <2>3. QED
    BY ZenonT(30), <2>1, <2>2 DEF ActsOnItsInode
<1>7. CASE UNCHANGED <<acted, by_id>>
  BY <1>7 DEF ActsOnItsInode
<1>8. ~HostStep
  BY DEF HostStep, NamesKept, LocInv, KeyInv, EngineInv, TypeOK
<1>9. \/ \E id : Open(id) \/ Opendir(id) \/ Readlink(id)
      \/ \E id, p, n : Link(id, p, n)
      \/ SetattrStep \/ acted' = NotActed \/ UNCHANGED <<acted, by_id>>
  BY ZenonT(30), <1>8 DEF Next, vars, fsVars, storeVars, Lookup, Unlink, Rmdir, Make, Mkdir, Symlink,
              Create, StatChild, StatChildFails, OpenChild, OpenChildFails, Fail,
              Rename, ForgetInode, Release, Setattr, SetattrEnds,
              HostMake, HostRemove, HostRename
<1>10. QED
  BY ZenonT(30), <1>2, <1>3, <1>4, <1>5, <1>6, <1>7, <1>9

(***************************************************************************)
(* Hence every request served by name (open, opendir, readlink, setattr,   *)
(* and link where there is no linkat by fd) reaches the file of the inode  *)
(* the guest named, also between the steps of a setattr.                   *)
(***************************************************************************)
THEOREM RequestsReachTheirFile ==
  ASSUME NamesKept
  PROVE  Spec => []ActsOnItsInode
<1>1. Init => LocRootInv /\ ActsOnItsInode
  <2>1. Init => ActsOnItsInode
    <3>1. SUFFICES ASSUME Init PROVE Nil \notin DOMAIN by_id
      BY DEF Init, NotActed, ActsOnItsInode
    <3>2. QED
      BY ZenonT(30), <3>1, InitLocInv, LocFacts DEF LocRootInv
  <2>2. QED
    BY ZenonT(30), <2>1, InitLocInv
<1>2. LocRootInv /\ ActsOnItsInode /\ [Next]_vars => LocRootInv' /\ ActsOnItsInode'
  BY NextLocInv, ActsStep DEF LocRootInv
<1>3. QED
  BY <1>1, <1>2, PTL DEF Spec
=============================================================================
