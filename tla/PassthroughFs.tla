---------------------------- MODULE PassthroughFs ---------------------------
(***************************************************************************)
(* The passthrough engine of riftlessfs-core (passthrough.rs), over the    *)
(* inode table, the handle table and the host file system.                 *)
(*                                                                         *)
(* The daemon serves one request at a time, but a request is several       *)
(* system calls and the host's other processes may run between any two of  *)
(* them.  A request whose effect is one system call is one action.  The    *)
(* others (lookup, and mkdir, create and symlink, which end in a lookup;   *)
(* setattr, one call per attribute) are a first action that puts the       *)
(* request in the variable call and one action per remaining system call.  *)
(* A request that fails in its first system call, or names an inode that   *)
(* is not in the table, changes nothing and is no step of the model.       *)
(*                                                                         *)
(* getattr, statfs, read, write, fsync and readdir change neither table    *)
(* nor a name and are not actions here.                                    *)
(***************************************************************************)
EXTENDS InodeStore, HandleStore, HostFs, FiniteSets

CONSTANTS
  Ops,         \* the kinds of request the guest sends
  Platform,    \* "linux" or "other": link() is compiled in two ways
  AttrSets,    \* the sets of attributes a SETATTR may carry
  MaxFds,      \* RLIMIT_NOFILE of the daemon
  MaxRefs,     \* bound of the model: references the guest holds on an inode
  MaxHostOps   \* bound of the model: steps of other host processes

AttrNames == {"size", "mode", "owner", "times"}

ASSUME PassthroughAssumption ==
  /\ AttrSets \subseteq SUBSET AttrNames
  /\ MaxFds \in Nat /\ MaxRefs \in Nat /\ MaxHostOps \in Nat

VARIABLES
  call,     \* the request being served, or NoCall
  refs,     \* refs[id]: lookups the guest has counted and not yet forgotten
  leaked,   \* files with an fd open that no table and no request owns
  acted,    \* the last request served through an inode's cached location:
            \* the inode it named and the file its system call worked on
  hostOps,  \* steps taken by other host processes
  raced     \* history: ids given by a lookup that another process interrupted
            \* between its fstatat and its openat; next_id while that lasts

otherVars == <<hostOps, raced>>
fsVars == <<call, refs, leaked, acted, otherVars>>
vars == <<storeVars, handleVars, hostVars, fsVars>>

NoCall == [op |-> "none", ino |-> Nil, name |-> Nil, fd |-> Nil,
           key |-> Nil, kind |-> Nil, todo |-> {}]
NotActed == [ino |-> Nil, file |-> Nil]

Init ==
  /\ StoreInit /\ HandleInit /\ HostInit
  /\ call = NoCall
  /\ refs = [id \in Ids |-> 0]
  /\ leaked = {}
  /\ acted = NotActed
  /\ hostOps = 0
  /\ raced = {}
-----------------------------------------------------------------------------
\* The guest names the root and the inodes it holds references on.
Tracked(id) == id \in DOMAIN by_id /\ (id = ROOT_ID \/ refs[id] > 0)
TrackedAs(id, k) == Tracked(id) /\ kind[by_id[id].fd] = k

OpenFiles ==
  {by_id[id].fd : id \in DOMAIN by_id} \cup {handles[h].fd : h \in DOMAIN handles}
  \cup leaked \cup ({call.fd} \ {Nil})

FdsInUse ==
  Cardinality(DOMAIN by_id) + Cardinality(DOMAIN handles) + Cardinality(leaked)
  + (IF call.fd = Nil THEN 0 ELSE 1)

FdFree == FdsInUse < MaxFds

\* Mutant: a request starts before the last one has ended.
StartsConcurrently(op) == op \in Ops

\* A request of kind op may start; RoomFor... keep it within the bounds.
Starts(op) == call = NoCall /\ op \in Ops
RoomForInode == next_id <= MaxId /\ \A id \in Ids : refs[id] < MaxRefs
RoomForHandle == next_handle <= MaxHandle

(***************************************************************************)
(* parent_fd_name and the *at() call on its result: the file that the      *)
(* cached (parent, name) of an inode leads to now, or Nil for an error     *)
(* (the parent is no longer tracked, or has no such name).                 *)
(***************************************************************************)
\* Mutant: every location is taken relative to the root.
ViaRoot(id) == At(by_id[ROOT_ID].fd, by_id[id].name)

ViaParent(id) ==
  LET parent == IF by_id[id].parent = Nil THEN ROOT_ID ELSE by_id[id].parent
  IN IF parent \in DOMAIN by_id THEN At(by_id[parent].fd, by_id[id].name)
                                ELSE Nil

\* reopen_via_parent: the root is duplicated, anything else opened by name,
\* through a symbolic link if that is what has the name.
Reopened(id) == IF id = ROOT_ID THEN {by_id[id].fd} ELSE Resolves(ViaParent(id))
-----------------------------------------------------------------------------
(***************************************************************************)
(* lookup: fstatat, then openat and register (open_child, register).       *)
(***************************************************************************)
BeginLookup(op, p, n, fd) ==
  call' = [NoCall EXCEPT !.op = op, !.ino = p, !.name = n, !.fd = fd]

Lookup(p, n) ==
  /\ Starts("lookup") /\ RoomForInode
  /\ TrackedAs(p, "dir")
  /\ BeginLookup("lookup", p, n, Nil)
  /\ acted' = NotActed
  /\ UNCHANGED <<storeVars, handleVars, hostVars, refs, leaked, otherVars>>

\* The child that the pending lookup's parent and name lead to now.
Child == At(by_id[call.ino].fd, call.name)

\* The request ends in an error; create has not yet taken ownership of its fd.
Fail ==
  /\ call' = NoCall
  /\ leaked' = leaked \cup ({call.fd} \ {Nil})
  /\ acted' = NotActed
  /\ UNCHANGED <<storeVars, handleVars, hostVars, refs, otherVars>>

LookupPending == call.op \in {"lookup", "mkdir", "create", "symlink"}
StatPending == LookupPending /\ call.key = Nil
OpenPending == LookupPending /\ call.key # Nil

StatChild ==
  /\ StatPending
  /\ Child # Nil
  /\ call' = [call EXCEPT !.key = Child, !.kind = kind[Child]]
  /\ raced' = raced \ {next_id}
  /\ UNCHANGED <<storeVars, handleVars, hostVars, refs, leaked, acted, hostOps>>

StatChildFails == StatPending /\ Child = Nil /\ Fail

\* openat with the reference flags for the kind that fstatat reported.
ChildOpens ==
  /\ Child # Nil
  /\ call.kind = "dir" => kind[Child] = "dir"
  /\ FdFree

OpenChild ==
  /\ OpenPending /\ ChildOpens
  /\ Register(call.ino, call.name, Child, call.key)
  /\ refs' = [refs EXCEPT ![RegisteredId(call.key)] = @ + 1]
  /\ IF call.op = "create" THEN InsertHandle("File", call.fd)
                           ELSE UNCHANGED handleVars
  /\ call' = NoCall
  /\ acted' = NotActed
  /\ UNCHANGED <<hostVars, leaked, otherVars>>

OpenChildFails == OpenPending /\ ~ChildOpens /\ Fail
-----------------------------------------------------------------------------
\* mkdir, symlink and create: the system call that makes the file.
Make(op, p, n, k, f) ==
  /\ Starts(op) /\ RoomForInode
  /\ TrackedAs(p, "dir")
  /\ MakeAt(by_id[p].fd, n, k, f, OpenFiles)
  /\ acted' = NotActed
  /\ UNCHANGED <<storeVars, handleVars, refs, leaked, otherVars>>

Mkdir(p, n, f) == Make("mkdir", p, n, "dir", f) /\ BeginLookup("mkdir", p, n, Nil)

Symlink(p, n, f) ==
  Make("symlink", p, n, "lnk", f) /\ BeginLookup("symlink", p, n, Nil)

Create(p, n, f) ==
  /\ RoomForHandle /\ FdFree
  /\ Make("create", p, n, "reg", f)
  /\ BeginLookup("create", p, n, f)

Unlink(p, n) ==
  /\ Starts("unlink") /\ TrackedAs(p, "dir")
  /\ UnlinkAt(by_id[p].fd, n)
  /\ acted' = NotActed
  /\ UNCHANGED <<storeVars, handleVars, call, refs, leaked, otherVars>>

Rmdir(p, n) ==
  /\ Starts("rmdir") /\ TrackedAs(p, "dir")
  /\ RmdirAt(by_id[p].fd, n)
  /\ acted' = NotActed
  /\ UNCHANGED <<storeVars, handleVars, call, refs, leaked, otherVars>>

\* rename: renameat, then note_rename.
Rename(p, n, p2, n2) ==
  /\ Starts(IF At(by_id[p2].fd, n2) = Nil THEN "rename" ELSE "replace")
  /\ TrackedAs(p, "dir") /\ TrackedAs(p2, "dir")
  /\ RenameAt(by_id[p].fd, n, by_id[p2].fd, n2)
  /\ NoteRename(p, n, p2, n2)
  /\ acted' = NotActed
  /\ UNCHANGED <<handleVars, call, refs, leaked, otherVars>>

\* link: by fd on Linux, through the cached location elsewhere.  The reply is
\* an entry, and the guest counts a lookup for every entry it is sent.
LinkSource(id) == IF Platform = "linux" THEN by_id[id].fd ELSE ViaParent(id)

Link(id, p, n) ==
  /\ Starts("link")
  /\ Tracked(id) /\ TrackedAs(p, "dir")
  /\ LinkSource(id) # Nil
  /\ refs[id] < MaxRefs
  /\ LinkAt(LinkSource(id), by_id[p].fd, n)
  /\ refs' = [refs EXCEPT ![id] = @ + 1]
  /\ acted' = [ino |-> id, file |-> LinkSource(id)]
  /\ UNCHANGED <<storeVars, handleVars, call, leaked, otherVars>>
-----------------------------------------------------------------------------
\* open, opendir and release.  Reading a directory through open succeeds.
Open(id) ==
  /\ Starts("open") /\ RoomForHandle /\ FdFree
  /\ TrackedAs(id, "reg")
  /\ \E f \in Reopened(id) \ {Nil} :
       /\ InsertHandle("File", f)
       /\ acted' = [ino |-> id, file |-> f]
  /\ UNCHANGED <<storeVars, hostVars, call, refs, leaked, otherVars>>

Opendir(id) ==
  /\ Starts("opendir") /\ RoomForHandle /\ FdFree
  /\ TrackedAs(id, "dir")
  /\ \E f \in Reopened(id) \ {Nil} :
       /\ kind[f] = "dir"
       /\ InsertHandle("Dir", f)
       /\ acted' = [ino |-> id, file |-> f]
  /\ UNCHANGED <<storeVars, hostVars, call, refs, leaked, otherVars>>

Readlink(id) ==
  /\ Starts("readlink")
  /\ TrackedAs(id, "lnk")
  /\ ViaParent(id) # Nil /\ kind[ViaParent(id)] = "lnk"
  /\ acted' = [ino |-> id, file |-> ViaParent(id)]
  /\ UNCHANGED <<storeVars, handleVars, hostVars, call, refs, leaked, otherVars>>

Release(h) ==
  /\ Starts("release")
  /\ RemoveHandle(h)
  /\ acted' = NotActed
  /\ UNCHANGED <<storeVars, hostVars, call, refs, leaked, otherVars>>

\* FORGET: the guest drops the inode and gives back all it has counted.
ForgetInode(id) ==
  /\ Starts("forget")
  /\ refs[id] > 0
  /\ Forget(id, refs[id])
  /\ refs' = [refs EXCEPT ![id] = 0]
  /\ acted' = NotActed
  /\ UNCHANGED <<handleVars, hostVars, call, leaked, otherVars>>
-----------------------------------------------------------------------------
(***************************************************************************)
(* setattr: size by reopening and ftruncate, then mode, owner and times by *)
(* name, in this order; the first failure ends the request and leaves what *)
(* was already applied.  The guest's kernel truncates regular files only.  *)
(***************************************************************************)
Setattr(id, todo) ==
  /\ Starts("setattr") /\ Tracked(id)
  /\ "size" \in todo => TrackedAs(id, "reg")
  /\ call' = [NoCall EXCEPT !.op = "setattr", !.ino = id, !.todo = todo]
  /\ acted' = NotActed
  /\ UNCHANGED <<storeVars, handleVars, hostVars, refs, leaked, otherVars>>

AttrRank == [size |-> 1, mode |-> 2, owner |-> 3, times |-> 4]
NextAttr == CHOOSE a \in call.todo : \A b \in call.todo : AttrRank[a] <= AttrRank[b]

\* The files the next attribute may be applied to, Nil for an error; the
\* root's empty name leads nowhere.
AttrTargets ==
  IF NextAttr = "size" THEN Reopened(call.ino) ELSE {ViaParent(call.ino)}

AttrApplies(f) ==
  /\ f # Nil
  /\ NextAttr = "size" => kind[f] = "reg" /\ FdFree
  /\ NextAttr = "mode" /\ Platform = "linux" => kind[f] # "lnk"

SetattrStep ==
  /\ call.op = "setattr" /\ call.todo # {}
  /\ \E f \in AttrTargets :
       /\ AttrApplies(f)
       /\ acted' = [ino |-> call.ino, file |-> f]
  /\ call' = [call EXCEPT !.todo = @ \ {NextAttr}]
  /\ UNCHANGED <<storeVars, handleVars, hostVars, refs, leaked, otherVars>>

\* All attributes are applied, or one could not be.
SetattrEnds ==
  /\ call.op = "setattr"
  /\ call.todo # {} => \E f \in AttrTargets : ~AttrApplies(f)
  /\ Fail
-----------------------------------------------------------------------------
\* The host's other processes work in the shared directory too.
HostStep ==
  /\ hostOps < MaxHostOps
  /\ hostOps' = hostOps + 1
  /\ raced' = IF OpenPending THEN raced \cup {next_id} ELSE raced
  /\ UNCHANGED <<storeVars, handleVars, call, refs, leaked, acted>>

HostMake(d, n, k, f) == HostStep /\ MakeAt(d, n, k, f, OpenFiles)
HostRemove(d, n) == HostStep /\ (UnlinkAt(d, n) \/ RmdirAt(d, n))
HostRename(d, n, d2, n2) == HostStep /\ RenameAt(d, n, d2, n2)
-----------------------------------------------------------------------------
Next ==
  \/ \E p \in Ids, n \in Names : Lookup(p, n) \/ Unlink(p, n) \/ Rmdir(p, n)
  \/ \E p \in Ids, n \in Names, f \in Files :
       Mkdir(p, n, f) \/ Symlink(p, n, f) \/ Create(p, n, f)
  \/ StatChild \/ StatChildFails \/ OpenChild \/ OpenChildFails
  \/ \E p, p2 \in DOMAIN by_id, n, n2 \in Names : Rename(p, n, p2, n2)
  \/ \E id, p \in Ids, n \in Names : Link(id, p, n)
  \/ \E id \in Ids : Open(id) \/ Opendir(id) \/ Readlink(id) \/ ForgetInode(id)
  \/ \E h \in DOMAIN handles : Release(h)
  \/ \E id \in Ids, todo \in AttrSets : Setattr(id, todo)
  \/ SetattrStep \/ SetattrEnds
  \/ \E d \in Files, n \in Names, k \in Kinds, f \in Files : HostMake(d, n, k, f)
  \/ \E d \in Files, n \in Names : HostRemove(d, n)
  \/ \E d, d2 \in Files, n, n2 \in Names : HostRename(d, n, d2, n2)

Spec == Init /\ [][Next]_vars
-----------------------------------------------------------------------------
CallType ==
  [op: {"none", "lookup", "mkdir", "create", "symlink", "setattr"},
   ino: Ids \cup {Nil}, name: Names \cup {Nil}, fd: Files \cup {Nil},
   key: Files \cup {Nil}, kind: Kinds \cup {Nil}, todo: SUBSET AttrNames]

\* The type invariant of the engine and its tables.
TypeOK ==
  /\ StoreTypeOK /\ HandleTypeOK /\ HostTypeOK
  /\ call \in CallType
  /\ refs \in [Ids -> Nat]
  /\ leaked \subseteq Files
  /\ acted \in [ino: Ids \cup {Nil}, file: Files \cup {Nil}]
  /\ hostOps \in 0 .. MaxHostOps
  /\ raced \subseteq Ids

(***************************************************************************)
(* The reference fd of an inode is open on the file whose (dev, ino) is    *)
(* the inode's key, unless another process came between the fstatat and    *)
(* the openat of the lookup that made the inode: what fstatat described is *)
(* what openat opened, the open fd keeps the inode number from being given *)
(* to another file, and no other step takes the two apart.                 *)
(***************************************************************************)
KeyIsFd == \A id \in DOMAIN by_id \ raced : by_id[id].key = by_id[id].fd

(***************************************************************************)
(* What the comment on FileKey promises: lookups of one file collapse onto *)
(* one inode id, so no file has two reference fds, whatever other host     *)
(* processes do outside of that window.                                    *)
(***************************************************************************)
OneInodePerFile ==
  \A i, j \in DOMAIN by_id \ raced : by_id[i].fd = by_id[j].fd => i = j

(***************************************************************************)
(* The table's lookup counts are the guest's: register adds one for every  *)
(* entry the guest is sent, and an inode leaves the table exactly when the *)
(* guest gives its last reference back.                                    *)
(***************************************************************************)
RefsMatch ==
  \A id \in Ids \ {ROOT_ID} :
    refs[id] = IF id \in DOMAIN by_id THEN by_id[id].lookups ELSE 0

(***************************************************************************)
(* The rename bookkeeping (note_rename): the cached (parent, name) of a    *)
(* tracked inode whose file still has a name leads to that file, as long   *)
(* as the parent is tracked itself.                                        *)
(***************************************************************************)
LocationCurrent ==
  \A id \in DOMAIN by_id \ {ROOT_ID} :
    by_id[id].parent \in DOMAIN by_id /\ Linked(by_id[id].fd)
      => ViaParent(id) = by_id[id].fd

(***************************************************************************)
(* A request served through the cached location of an inode (open, opendir,*)
(* readlink, setattr, and link on other hosts than Linux) works on the     *)
(* file of that inode and on no other.                                     *)
(***************************************************************************)
ActsOnItsInode ==
  acted.ino \in DOMAIN by_id => acted.file = by_id[acted.ino].fd

\* Every fd that create opens is handed back as a file handle, or closed when
\* there is no handle to give: no fd is left that nothing refers to.
FdsOwned == leaked = {}

(***************************************************************************)
(* An inode id denotes one file for ever: an entry never changes the file  *)
(* it refers to, and a new entry has an id that was never used before.     *)
(***************************************************************************)
IdNamesOneFile == [][IdKept]_vars
=============================================================================
