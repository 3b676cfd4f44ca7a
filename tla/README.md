# A TLA+ model of riftlessfs

riftlessfs is a virtio-fs daemon in Rust: a guest's FUSE requests arrive on
virtqueues in shared memory, a front-end (a virtual machine monitor) configures
those queues over a vhost-user socket, and the daemon serves the requests from a
directory of the host. This directory models the parts of it whose correctness
depends on order, on what other actors do meanwhile, or on boundaries; checks
them with TLC on small instances; and proves the central facts about the inode
table, the cached locations, the listings, the control connection, the file
descriptors it brings, the rings and their doorbells with TLAPS for all instances.

## The system

| Part (crate file) | State | Operations | What makes it correct |
|---|---|---|---|
| Inode table (`core/inode.rs`) | `by_id`, `by_key`, `next_id`; per inode an fd, a key, a lookup count, a cached (parent, name) | `register`, `forget`, `note_rename`, `open_child` | the maps are inverse, ids are never used twice, counts are the guest's, locations lead to their files |
| Handle table (`core/handle.rs`) | `handles`, `next_handle` | `insert`, `remove` | an open fd is in it exactly while its handle is |
| Passthrough engine (`core/passthrough.rs`) | the two tables and the host's files | one per FUSE request | a request for an inode reaches that inode's file; no fd is lost |
| FUSE session (`proto/fuse/dispatch.rs`) | `readdir_cache` | `handle`, one arm per opcode | entries and FORGETs balance; a listing is a consistent pass |
| Virtqueue (`proto/vhost_user/virtqueue.rs`) | ring memory, `last_avail_idx` | `pop_avail`, `read_chain`, `push_used`, `gather`, `scatter`, `iovecs_from` | each request once, in order, across index wrap; bytes land where they belong |
| Event loop (`proto/vhost_user/server.rs`) | vring slots, memory table, what poll returned | `run`, `handle_one_message`, `process_vring`, the zero-copy paths | no lost wake-up in either direction; a stop and a start lose and repeat nothing |
| Guest memory (`proto/vhost_user/memory.rs`) | mapped regions | address lookup, slices | addresses of either space find their bytes |
| Control connection (`connection.rs`, `header.rs`, `payload.rs`), entry point (`main.rs`) | the socket, the process's descriptor table | `recv`, `send`, the fd requests of `handle_one_message`; bind, accept | a message is handled as it was sent; every fd has one owner |
| Doorbell (`proto/doorbell.rs`) | what is pending | `notify`, `drain` | readable from a write to the read that takes it |
| Wire format (`fuse/wire.rs`, `fuse/bytes.rs`, `core/attr.rs`), errno (`linux_errno.rs`, `error.rs`) | none | readers, writers, translation | the engine is asked what the guest asked, the guest reads what the engine returned |

The daemon is one thread and serves one request at a time. What runs
concurrently with it is the guest (both sides of the rings and its own reference
counts), the front-end, and every other process of the host that uses the shared
directory. That is where the hard behaviours are:

* a request is several system calls, and the directory may change between two;
* the table caches names that unlinking, renaming and re-creating make stale;
* guest and daemon count references separately, over two queues that are not
  ordered with respect to each other;
* a listing is served in slices while the directory changes;
* kicks and calls are edges: one lost is a request that never ends;
* control messages change a vring between the poll that found it readable and
  the moment it is served;
* ring indices wrap, and segments end anywhere in a header;
* a control message arrives in pieces and its fds with any of them, and a number
  that is closed is handed out again at once;
* a request may be cut off anywhere, and one wrong offset shifts every field
  after it.

`PROJECT.json` lists each of these hazards at its line.

## Modules

```
FsTypes ── InodeStore ──┬── FuseRefs ────── MCFuseRefs        InodeStoreProofs
        ├─ HandleStore ─┼── PassthroughFs ─ MCPassthroughFs   FuseRefsProofs
        └─ HostFs ──────┘                                     PassthroughFsProofs
           HandleStore ──── DirSession ──── MCDirSession      DirSessionProofs

FuseBytes ─┬─ FuseAbi ──┬── FuseDispatch ── MCFuseDispatch
           └─ FuseWire ─┤
              Errno ────┘
Doorbell ── ControlChannel ── MCControlChannel                ControlChannelProofs
                                                              └─ ControlVringProofs
Virtqueue ── VhostServer ──── MCVhostServer                   VhostServerProofs
             VhostServer implements RequestQueue              └─ VhostRingsProofs
GuestMemory ── ChainIO
```

**InodeStore, HandleStore** are the two tables; their actions are the methods
that change them. A file is an element of `Files` and stands both for what an fd
is open on and for the (dev, ino) pair `stat` reports. An inode keeps the two in
separate fields, `fd` and `key`, because the code obtains them from two system
calls. `InodeStore` stops at `MaxId` ids where the code has 2^64.

**HostFs** (external) is a directory tree under the `*at()` calls as the engine
uses them: names, kinds, and which files still have a name. Where a call follows
symbolic links, a link may lead to any named file or to none (`Resolves`): its text
is not modelled. An inode number may be used again once a file has neither a name
nor an open fd.

**PassthroughFs** composes the three. A request with one system call that
matters is one action. `lookup`, and `mkdir`, `create` and `symlink`, which end
in one, are a first action, then `StatChild` (fstatat), then `OpenChild` (openat
and `register`); `setattr` is one action per attribute. Between any two of them a
host process may create, remove or rename (`HostMake`, `HostRemove`,
`HostRename`, at most `MaxHostOps` times). Fds are counted against `MaxFds`, and
openat fails when there is none. `refs` is what the guest has counted, `acted`
records the last request served through a cached location, `leaked` the fds
nobody owns, and `raced` the ids of inodes made by a lookup that another process
interrupted between its fstatat and its openat. `link` is compiled in two ways,
chosen by `Platform`. A request that fails before it has changed anything is no step.

**FuseRefs** takes the inode table alone and models the traffic the counts
depend on: requests in the queue, replies not yet read, FORGETs given back and not
yet served, LINK, and a guest that unmounts without giving anything back. The queues
are abstracted to how much of each kind they hold; served in any portions, this
covers both orders of the two queues and BATCH_FORGET.

**DirSession** models the READDIR cache of the session. The offset of a request
is the number of entries the guest has; a reply is cut where its buffer ends. The
host lists a directory in any order, each name once.

**FuseDispatch** is `Session::handle`: the kernel writes a request (`Send`); the
daemon parses it, calls the engine, once for every request but BATCH_FORGET, and
writes a reply (`Serve`); the kernel reads it (`Receive`). The two sides have
separate definitions of the wire. **FuseAbi** (external) is the kernel's, from the
layouts of `fuse.h`; **FuseWire** is the daemon's, field by field from `wire.rs` and
`attr.rs`. **FuseBytes** has the buffers and the cursor: a cell stands for two bytes and says
which part of which value it is, so a field read at the wrong place or with the
wrong width is `Junk`. **Errno** is `FsError::errno` and `to_linux_errno` over the
error numbers of a Linux and of a macOS host. The engine is any result it may
return.

**ControlChannel** is the socket and the descriptor table. The front-end (external)
sends the requests of a script, each in one `sendmsg` or header and payload apart,
with its fds on either; `Recv` takes some of the cells of one of them, and the fds with its first
cell, as far as the table has room. `Handle` is the arm for the request. The model
keeps the fd requests and `SET_VRING_ENABLE`, which decides what is polled; what
the other requests do to a vring is in `VhostServer`. A number that is closed is
the next one handed out, for a doorbell, a region or a file the guest opens
(`OpenFile`), so a stale number shows. `Bind` and `Accept` are `main`. The fds of
SET_MEM_TABLE are mapped and their numbers dropped, still open (`server.rs:302`):
`FdsOwned` exempts them by name. Front-ends send no fds with requests that have no
use for them, and at most one with a doorbell, for a vring that the daemon has
(`RequestAssumption`): `handle_one_message` takes no number out of the vector for a
vring it does not find, and takes only the first, so any other would stay open.
`DisablesFirst(s)` says of a script that it gives a vring a kick fd only while the
vring is disabled; `MCControlChannel` states which of its scripts do.

**Doorbell** has the two kinds `doorbell.rs` is compiled with, their limits, and
the reads of `drain_fd`.

**Virtqueue** has the ring memory, the driver's side (external) and the daemon's
`pop_avail` and `push_used`, the latter in two steps as the code writes the
element and the index separately. Indices are modulo `IdxMod` (2^16 in the code),
a multiple of the queue size.

**VhostServer** models `Server::run`: `Poll` computes `kick_slots` and remembers a
hang-up; `HandleOneMessage` or `Disconnected`; then for every slot `Drain`,
`PopAvail`, `PushUsed`, `FinishVring`. A kick fd is known by the number of the
start that brought it, so a slot in `kick_slots` may name an fd that the message
just handled has replaced. A reply to a front-end that has gone away fails, which
ends the daemon as a hang-up does (`ReplyFails`). `kick_slots` is a set of vrings and fds, served by
ascending vring (`Turn`). Serving the request itself touches none of this state.
The driver and the front-end are external: the driver kicks after it submits,
reads the used ring on an interrupt until it is empty, and is paused while the
rings are stopped; the front-end configures each vring in the order `Setup`, the
messages about different vrings (`script[q]`) interleaved in any way on a socket
that holds `MaxInbox` of them, stops them by disabling each and asking for its
base, and restarts from there with new kick fds that are readable from the start.
`SetupAssumption` is what such an order must have: a base, both doorbells, and the
enabling last, as in the daemon's tests.

**RequestQueue** is the promise: per queue, requests wait, are served oldest first
and their replies are read oldest first. **VhostServer** implements it with the
mapping `waiting` = the entries between used and available index, `done` = those
between what the driver has read and the used index.

**GuestMemory** is the lookup of an address range among regions that have one
address for the guest and another for the front-end.

**ChainIO** models READs and WRITEs on descriptor chains: `read_chain`, `gather`,
`scatter`, `iovecs_from`, the ordinary path and the zero-copy paths. The driver makes
a request (`Submit`), the daemon serves it (`Serve`), the driver takes its buffers
back (`Collect`). A request may be cut off inside its headers, its payload may be
shorter or longer than its `size`, the room for the reply may be too small or none,
and the host may fail or transfer less than it was asked to. Memory is a function from addresses to cells. Payload cells are numbered, so a misplaced one
shows; segments and descriptors lie backwards, so that none is contiguous with the
next; the front-end has the two regions the other way round than the guest, so
that an address taken in the wrong space finds something else. A chain over the
limit is refused, which ends the daemon (`Refuse`).

## Runs

Deadlock is checked in `dispatch`, where a request must always be followed by its
end. The other systems may stop (bounds reached, the connection closed) and their
runs do not check for it; that the rings go on is what `Answered` says.

| Run | What it shows | Instance |
|---|---|---|
| `fs_naming` | without unlink, replacing rename and link, cached locations are right and requests by name reach their inode, each attribute of a setattr included; counts equal the guest's | 4 files, 2 names, 4 ids, setattrs of 2 and of 4 attributes; 22,770 states |
| `fs_host` | every request, host processes between any two calls and fds running out: types (no count below zero), nothing tracked without a count, maps inverse, an id means one file for ever; key and fd are one file and a file has one id, but for inodes in `raced` | 3 files, 2 names, 3 ids, 4 fds, 2 host steps; 278,176 states |
| `refs` | requests, replies and FORGETs in flight, LINK and a remount: the table is consistent; for inodes never linked, the daemon's counts cover the guest's | 2 files, 3 ids, 2 references each, 2 mounts |
| `dir_paging` | no name twice, none missed, no orphaned snapshot | 3 names, 2 handles, 2 changes |
| `chain_paths` | the zero-copy path leaves what the ordinary one would, of a READ that fits its room; both leave the right thing; only a chain over the limit is refused | one request at a time on a file of at most 2 cells; up to 3 readable and 3 writable segments of 0 to 2 cells, headers of 2 cells, at most 5 descriptors, transfers of 0 to 2 cells |
| `vring_restart` | no lost wake-up in either direction; refinement of RequestQueue; the base reported is exact | 1 vring of 2 slots, indices mod 4, 4 requests, 2 starts, closing allowed |
| `vring_live` | every request is answered, across a stop and a start with new doorbells, in the order of configuration the daemon's tests use | 2 vrings of 1 slot, indices mod 2, 2 starts |
| `control` | what is handled is what was sent, whole, in order and with its fds; vrings hold the last doorbell sent for them, no number has two owners or none, a drain reads its own vring's fd, memory is the last table | 2 vrings, 5 numbers, 1 file of the guest, 2 scripts, one of which replaces the memory table, both kinds of doorbell, headers and payloads of 2 cells |
| `dispatch` | the engine is called with what the guest wrote; a request cut off does nothing; one reply of the right length, or none for a whole FORGET; the kernel reads the engine's result back; an error keeps its name, or becomes EIO if it is none the engine's calls are documented to return | every opcode, whole and cut off at every cell, both hosts, READs and WRITEs of 0 to 2 cells |

Why these bounds are enough: two files beside the root are needed for one to take
the other's name, a third in `fs_naming` for a directory to move them between;
in `fs_host` as many ids as files let a forgotten file come back under a new one; two names
are the least that a rename needs. Two references on an inode let a FORGET for one
meet an entry for the other. In the rings, twice as many indices as slots let an
index wrap while its slot does not look reused, and four requests on two slots
wrap it fully; two starts bring one stale kick fd. A header of two cells and
segments of up to two let it end inside, at, and one segment past a boundary,
with empty segments in between. On the control socket, two cells let a header
arrive in halves and a message in any number of pieces; five numbers are one short
of what the longest script needs with a file open, so the table runs full; two
vrings let a number go from one to the other. In `dispatch` nothing is bounded
but the number of data cells and of FORGETs in a batch, as no request leaves more
than the set of cached handles behind. Files and names, other than the root, are
interchangeable, so the file-system runs use symmetry; the runs with liveness do
not.

**Fairness** (`FairSpec`). The loop is one thread blocked only in `poll` or in
`read`, so its steps together are weakly fair. The driver makes the kicks it owes
and takes its interrupts, and the front-end finishes what it has begun to send
and restarts what it has stopped: without these the daemon cannot answer. Nothing
obliges anyone to submit, stop or close.

### Where the code and its comments disagree

Three runs are expected to be violated. Each states what a comment says, and TLC's
trace shows what the code does instead.

| Run | Comment | Trace |
|---|---|---|
| `fs_stale_truncate` | a new fd for `ino` (`passthrough.rs:189`) | the name was unlinked and created again; the new file is truncated |
| `fs_create_leak` | the fd that `create` opened is handed back as the file handle (`passthrough.rs:248`) | the lookup in between fails, as fds have run out; the raw fd is neither handed back nor closed |
| `refs_link` | evicted when the count hits zero (`inode.rs:166`) | the guest counts LINK's entry and the daemon does not; FORGET evicts early |

More appear on other instances of the same modules (four files, two names,
four ids; for the ring, one vring of two slots):

* `OneInodePerFile` and `KeyIsFd` without their exception for `raced`: a host rename
  between fstatat and openat puts a file under another's key, where `inode.rs:40`
  promises one id per file.
* `LocationCurrent` with create, unlink and rename and two handles: an unlinked
  inode that is still referenced keeps its location; a new file of that name is
  renamed, and the wrong entry may be updated, where `inode.rs:193` promises that
  locations stay in sync.
* `Answered` with `KickFds = "none"`: a vring without a kick fd is never looked at,
  where `payload.rs:109` says it should be polled.
* `Answered` with `KickFds = "pipe"`: a blocking pipe that holds exactly a buffer
  full blocks the second `read` of `drain_fd`, where `server.rs:518` takes any
  pollable fd. `Doorbell`'s own pipes do not block.
* `DrainsOwnKick` with `Scripts <- ReplaceEnabled`: a front-end that replaces the
  doorbell of an enabled vring has the number polled before closed by the message;
  the drain then reads that number, whatever it refers to by then.

Two more are visible in `FuseDispatch` itself, and its properties leave room for them:

* A FORGET or BATCH_FORGET whose arguments are cut off is answered with EINVAL, where
  `dispatch.rs:28-30` says that they receive no reply whatsoever. `AnsweredOnce` says
  so of whole ones only.
* On a Linux host, errors without an arm, such as EUCLEAN and ENODATA, become EIO,
  where `linux_errno.rs:16-17` and `28-29` call the translation the identity.
  `ErrorKeepsName` demands the name only of the errors that the engine's system calls
  document (`FileErrors`), and the name or EIO of the others.

## Proofs

| Theorem | Statement | Assuming |
|---|---|---|
| `PassthroughFsProofs!TypeCorrect` | `[]TypeOK` | |
| `PassthroughFsProofs!TablesConsistent` | `[]TablesAgree` | |
| `PassthroughFsProofs!TrackedIsCounted` | `[]LookupsPositive` | |
| `PassthroughFsProofs!IdsAreStable` | `IdNamesOneFile`, an action property | |
| `PassthroughFsProofs!KeysAreRight` | `[]KeyIsFd` | |
| `PassthroughFsProofs!FilesAreUnique` | `[]OneInodePerFile` | |
| `PassthroughFsProofs!RefsAgree` | `[]RefsMatch` | no LINK |
| `PassthroughFsProofs!LocationsAreRight` | `[]LocationCurrent` | `NamesKept` |
| `PassthroughFsProofs!RequestsReachTheirFile` | `[]ActsOnItsInode` | `NamesKept` |
| `FuseRefsProofs!TypeCorrect` | `[]TypeOK` | |
| `FuseRefsProofs!Soundness` | `[]TablesAgree` | |
| `FuseRefsProofs!Counting` | `[]CountsCover` | |
| `DirSessionProofs!PassListsOnce` | `[]ListedOnce` | |
| `DirSessionProofs!PassListsAll` | `[]ListedAll` | |
| `DirSessionProofs!CacheOwned` | `[]SnapshotsOwned` | |
| `ControlChannelProofs!NumbersHaveOneOwner` | `[]OneOwner` | |
| `ControlChannelProofs!MessagesFramed` | `[]Framed` | |
| `ControlVringProofs!DoorbellsStayCurrent` | `[]DoorbellsCurrent` | |
| `ControlVringProofs!NoNumberIsLost` | `[]FdsOwned` | |
| `ControlVringProofs!TableStaysCurrent` | `[]TableCurrent` | |
| `ControlVringProofs!TypeCorrect` | `[]TypeOK` | |
| `ControlVringProofs!KicksDrainTheirOwn` | `[]DrainsOwnKick` | every script `DisablesFirst` |
| `VhostServerProofs!TypeCorrect` | `[]TypeOK` | |
| `VhostServerProofs!StopsExactly` | `[]BaseExact` | |
| `VhostRingsProofs!NoReplyUnnoticed` | `[]CallPending` | |
| `VhostRingsProofs!NoRequestUnnoticed` | `[]KickPending` | `KickFds # "pipe"` |
| `VhostRingsProofs!RingsImplementQueues` | `ServedOnceInOrder`, the refinement of `RequestQueue` | |

They hold for every set of files and names and every bound, under the named
assumptions of the modules (`FsAssumption`, `StoreAssumption` and so on: the root
is a file, Nil is neither a file nor a name nor a number, bounds are numbers, a
directory has finitely many names). `NamesKept` is `MaxHostOps = 0` and no request
that takes a name away (unlink, rmdir, rename onto an existing name).
The extra assumptions are necessary: a LINK breaks the counts, a host step or an
unlink followed by a creation the locations (`fs_stale_truncate`); a
doorbell replaced on an enabled vring is drained under a number that is no longer
its own (`ReplaceEnabled`); and a blocking pipe stops the loop between the drain and
the ring.
`FuseRefs` needs none, because its properties speak of the inodes no LINK was asked
for (`relinked` records the others) while LINKs go on beside them.

The base is `InodeStoreProofs`: `StoreInv`, which is type correctness,
`TablesAgree`, `IdsAllocated` (every id in the table is below the counter, the root
is there) and `LookupsPositive`, is preserved by each table operation.
`TablesAgree` alone is not inductive: `RegisterNew` keeps the maps inverse only if
its id is fresh, and that is `IdsAllocated`. The engine adds `CallInv`: between two
system calls of a request the inode it works in is still tracked and the counters
have room. `KeyInv` adds that what fstatat described is what openat will open
(`StatIsCurrent`) until a host step comes in between; that step puts the id the
lookup is about to give into `raced`. The theorems need no bound on host steps: once
an inode is there, its open fd keeps its number from being used again. `Counting` strengthens
`CountsCover` by the table invariant and by `NoLinks`: an inode outside `relinked`
has no LINK in either queue.

`LocInv` adds to `KeyInv` that nothing has raced and that every inode but the root is `Placed`: the name it
caches, in the directory its parent's fd is open on, is its file. `LocationCurrent`
is not inductive without the rest of `Placed` and `RootPlaced`: a parent that was
forgotten must have an id below the counter, or a new inode could become the
parent of old children; two inodes at one location would leave `note_rename` a
choice, and there are never two because no file has two ids; and the root must
never be found under a name, or a rename could move the root's entry. For a setattr
that waits between two attributes, `TruncatesFile` says that a size still to be set is
a regular file's, so that reopening it follows no link.

`DirInv` says that a pass under way has a prefix of its snapshot (`IsPartOf`), that
snapshots have no name twice, and that the snapshot of a pass has all names there
since the pass began and none that never was (`Lists`), bounds that a change to the
directory can only widen.

`OwnerInv` strengthens `OneOwner` by the types of everything in flight and by
`FdsFresh`: the numbers of a message being received are open, distinct, and neither
a file's nor a vring's. That is what lets a vring take such a number, and it is
kept because a new number is always one that is closed.

`FrameInv` adds the stream. `Framed` says nothing of what is under way, so the
invariant does: `Chain` says that the chunks on the socket, and the one still to be
written, follow each other without a gap from the cell `recv` expects next
(`Expected`) to the end of what was sent, and that the fds of a message are on one
of its chunks at most. `BufInv` says that what `recv` has is a beginning of the
message after the last one handled, all of it exactly when it is handled. `FdsInv`
says that the numbers received refer to that message's fds, from the first on, and
that until an fd is lost every message not yet handled has its fds either all on the
stream or all received. The lemmas about chains say what it does to one to append
a chunk, to take the first away, and to take a part of it.

`SlotInv` is `FrameInv` with `DoorbellsCurrent`, `FdsOwned` and `TableCurrent`: given
the framing and one owner per number, these are inductive. What the numbers of
the message refer to is known from `FdsInv`, and that no other step closes or reuses
a vring's number from `OwnerInv`. `TypeInv` likewise.

`DrainInv`, for `KicksDrainTheirOwn`, adds that a vring's kick fd is one sent for it,
that an enabled vring was enabled by a message handled and not disabled since
(`EnabledBy`), and `Watched`: from the poll to the drain, the numbers in
`kick_slots` are still the kick fds of their vrings, which until the message is
handled are enabled. So a SET_VRING_KICK that comes in between is not for one of
them.

For the event loop, what the front-end has sent and not yet had handled is part of
the invariant, as what a message will do depends on when it is handled.
`VhostServerProofs` has three layers:

* `TypeInv`: types, also of the messages in `inbox` and `script`, and that a vring
  being served has its rings.
* `OrderInv`: any two pending messages about one vring are in an order the front-end
  may send (`MayFollow`); no message stops a vring unless the guest is paused; while
  a base has been answered and not yet used, nothing is pending.
* `ServeInv`: a vring with a message pending that sets it up is `Idle`, that is
  disabled and not in `kick_slots`; a base on its way to a vring is the vring's used
  index; and without one, `last_avail_idx` is the used index, or one more between
  `pop_avail` and the end of `push_used`. This is the heart of the argument: a
  `kick_slots` computed before a message can only name a vring that was enabled, and
  the one message handled before it is served cannot both stop the vring and move
  its base. `BaseExact` follows.

`VhostRingsProofs` shows the refinement. `Entries(ring, from, to)` reads the queue of
`RequestQueue` off the ring modulo the queue size, and the lemmas about `Ahead`,
`Slot` and `Entries` say what moving an index across its wrap, or writing a slot, does
to it; they are where `IdxMod` being a multiple of `QueueSize` is used. `RingInv` says
that every head is in exactly one of the free set, the waiting and the done entries,
which keeps a slot from being overwritten while it is unread. `HeadInv` says that
between `pop_avail` and the end of `push_used` the head is the first waiting one, and
that its element is written before the index that publishes it.

Its second part, on the doorbells, adds `MemInv` (no message about a vring overtakes
the memory table) and `BellInv`: a vring has its call fd before it can be served, the
kick fd it is polled on is that of the current start, and that fd is readable when
the vring is enabled. Without the last, a request submitted before the vring was
enabled would wait for a kick that went to the fd of the previous start.

Model-checked only: liveness (`Answered`), which needs fairness and `ENABLED`; what
the folds of `ChainIO` compute (`ReplyExact`, `WriteLands`, `EndsOnLongChains`,
`ZeroCopyIsGeneric`), which would need induction over sequences; and `dispatch`, as
reading a format is a recursion over it, its table of errors being one that TLC goes
through entirely. `fs_host` has `Platform = "other"`, where LINK goes by the cached
location; the theorems are about both platforms.

What the checks take for granted: `BaseExact` and the refinement are about a front-end
that disables a vring before it asks for its base; `Answered` about one that supplies
eventfds as kick fds; `FdsOwned` of the control
connection about fds that some request has a use for, and not about those of memory
regions; `LocationCurrent` and `ActsOnItsInode` about directories from which no name is
taken away.

## Not modelled

* Permissions, and the values of attributes on disk: the engine passes them on, and
  the host decides.
* The guest's page cache. The daemon only negotiates the write-back cache; what it
  does to append and write-only handles is up to the guest kernel.
* The alignment of mmap offsets to pages, and the byte layouts of the vhost-user
  payloads, which are plain structs at fixed offsets.
* Malformed chains, and chains whose addresses are outside guest memory, which end
  the daemon.
* Memory ordering weaker than sequential consistency, which `memory.rs` names as a
  known gap.
* Unbounded traffic on one vring, which would keep the loop from the others.
* Two daemons started on one socket path.
* The flags of RENAME2, which the engine has no operation for.
* Argument parsing, the benchmarks and the scripts.

The library could be shared between threads, which its locks provide for; the daemon
does not, and the model is the daemon's.
