------------------------------ MODULE FuseRefs ------------------------------
(***************************************************************************)
(* Lookup references between a guest kernel and the daemon's inode table.  *)
(*                                                                         *)
(* FUSE counts, on both sides, how often the guest has been sent an entry  *)
(* for an inode.  The guest asks for entries on the request queue and      *)
(* gives references back on the high-priority queue (FORGET, BATCH_FORGET, *)
(* which are never answered).  The two queues are served in either order,  *)
(* and replies wait in the used ring until the guest reads them, so the    *)
(* two counts differ all the time.  The daemon serves one request at a     *)
(* time: serving is one action.                                            *)
(*                                                                         *)
(* The queues are abstracted to how much of each kind is in them: their    *)
(* order is irrelevant to a count.  The FORGETs waiting for one inode are  *)
(* added up and served in any portions, which covers several of them being *)
(* served one by one; BATCH_FORGET is its entries one by one.              *)
(***************************************************************************)
EXTENDS InodeStore

CONSTANTS
  MaxRefs,    \* bound of the model: requests and references per inode
  MaxMounts   \* bound of the model: how often the guest mounts

ASSUME RefsAssumption == MaxRefs \in Nat /\ MaxMounts \in Nat

VARIABLES
  asked,    \* asked[f]: requests in the queue whose reply is an entry for f
  linking,  \* linking[id]: LINK requests in the queue for inode id
  linked,   \* linked[id]: replies to LINK for id the guest has not read yet
  entries,  \* entries[id]: other entries for id it has not read yet
  nlookup,  \* nlookup[id]: entries for id the guest has counted
  forgets,  \* forgets[id]: references to id given back and still in the queue
  mounts,   \* how often the guest has mounted the file system
  relinked  \* history: the inodes that a LINK has been asked for

guestVars == <<asked, linking, linked, entries, nlookup, forgets, mounts,
               relinked>>
vars == <<storeVars, guestVars>>

Init ==
  /\ StoreInit
  /\ asked = [f \in Files |-> 0]
  /\ linking = [id \in Ids |-> 0]
  /\ linked = [id \in Ids |-> 0]
  /\ entries = [id \in Ids |-> 0]
  /\ nlookup = [id \in Ids |-> 0]
  /\ forgets = [id \in Ids |-> 0]
  /\ mounts = 1
  /\ relinked = {}
-----------------------------------------------------------------------------
(***************************************************************************)
(* The guest kernel.                                                       *)
(***************************************************************************)
\* LOOKUP, CREATE, MKDIR or SYMLINK of file f.
Ask(f) ==
  /\ f # RootFile /\ asked[f] < MaxRefs
  /\ asked' = [asked EXCEPT ![f] = @ + 1]
  /\ UNCHANGED <<storeVars, linking, linked, entries, nlookup, forgets,
                 mounts, relinked>>

\* LINK names an inode the guest holds, and keeps holding until the reply.
AskLink(id) ==
  /\ nlookup[id] > 0 /\ linking[id] + linked[id] < MaxRefs
  /\ linking' = [linking EXCEPT ![id] = @ + 1]
  /\ relinked' = relinked \cup {id}
  /\ UNCHANGED <<storeVars, asked, linked, entries, nlookup, forgets, mounts>>

\* The guest reads an entry: it counts one more reference.
ReadEntry(id) ==
  /\ entries[id] > 0 /\ nlookup[id] < MaxRefs
  /\ entries' = [entries EXCEPT ![id] = @ - 1]
  /\ nlookup' = [nlookup EXCEPT ![id] = @ + 1]
  /\ UNCHANGED <<storeVars, asked, linking, linked, forgets, mounts, relinked>>

ReadLinked(id) ==
  /\ linked[id] > 0 /\ nlookup[id] < MaxRefs
  /\ linked' = [linked EXCEPT ![id] = @ - 1]
  /\ nlookup' = [nlookup EXCEPT ![id] = @ + 1]
  /\ UNCHANGED <<storeVars, asked, linking, entries, forgets,
                 mounts, relinked>>

\* FORGET: the guest drops the inode and gives all its references back.
GiveBack(id) ==
  /\ nlookup[id] > 0 /\ linking[id] = 0 /\ linked[id] = 0
  /\ forgets[id] + nlookup[id] <= MaxRefs
  /\ nlookup' = [nlookup EXCEPT ![id] = 0]
  /\ forgets' = [forgets EXCEPT ![id] = @ + nlookup[id]]
  /\ UNCHANGED <<storeVars, asked, linking, linked, entries, mounts, relinked>>

\* The guest unmounts, which gives nothing back, and mounts again.  DESTROY
\* and INIT are answered; neither touches the inode table.
Remount ==
  /\ mounts < MaxMounts
  /\ \A f \in Files : asked[f] = 0
  /\ \A id \in Ids : linking[id] = 0 /\ linked[id] = 0 /\ entries[id] = 0
  /\ nlookup' = [id \in Ids |-> 0]
  /\ mounts' = mounts + 1
  /\ UNCHANGED <<storeVars, asked, linking, linked, entries,
                 forgets, relinked>>
-----------------------------------------------------------------------------
(***************************************************************************)
(* The daemon (Session::handle).                                           *)
(***************************************************************************)
\* A reply that is an entry: the file is registered (lookup).
ServeEntry(f, n) ==
  /\ asked[f] > 0
  /\ RegisteredId(f) \in Ids /\ entries[RegisteredId(f)] < MaxRefs
  /\ Register(ROOT_ID, n, f, f)
  /\ asked' = [asked EXCEPT ![f] = @ - 1]
  /\ entries' = [entries EXCEPT ![RegisteredId(f)] = @ + 1]
  /\ UNCHANGED <<linking, linked, nlookup, forgets, mounts, relinked>>

\* LINK: an unknown inode is an error; otherwise the reply is an entry for the
\* inode the request named, and the inode table is left alone.
ServeLink(id) ==
  /\ linking[id] > 0
  /\ linking' = [linking EXCEPT ![id] = @ - 1]
  /\ linked' = IF id \in DOMAIN by_id THEN [linked EXCEPT ![id] = @ + 1]
                                      ELSE linked
  /\ UNCHANGED <<storeVars, asked, entries, nlookup, forgets,
                 mounts, relinked>>

ServeForget(id, count) ==
  /\ count > 0 /\ count <= forgets[id]
  /\ Forget(id, count)
  /\ forgets' = [forgets EXCEPT ![id] = @ - count]
  /\ UNCHANGED <<asked, linking, linked, entries, nlookup, mounts, relinked>>
-----------------------------------------------------------------------------
Next ==
  \/ \E f \in Files : Ask(f)
  \/ \E id \in Ids : AskLink(id)
  \/ \E id \in Ids : ReadEntry(id) \/ ReadLinked(id)
  \/ \E id \in Ids : GiveBack(id)
  \/ Remount
  \/ \E f \in Files, n \in Names : ServeEntry(f, n)
  \/ \E id \in Ids : ServeLink(id)
  \/ \E id \in Ids, count \in 1 .. MaxRefs : ServeForget(id, count)

Spec == Init /\ [][Next]_vars
-----------------------------------------------------------------------------
\* The type invariant.
TypeOK ==
  /\ StoreTypeOK
  /\ asked \in [Files -> Nat]
  /\ linking \in [Ids -> Nat]
  /\ linked \in [Ids -> Nat]
  /\ entries \in [Ids -> Nat]
  /\ nlookup \in [Ids -> Nat]
  /\ forgets \in [Ids -> Nat]
  /\ mounts \in Nat \ {0}
  /\ relinked \subseteq Ids

\* References to id that the guest holds, will hold, or has given back and
\* the daemon has not heard of yet.
Outstanding(id) == nlookup[id] + entries[id] + forgets[id]

(***************************************************************************)
(* The daemon's count of an inode covers every reference the guest holds,  *)
(* is about to read, or has given back in a FORGET still in the queue, and *)
(* before the first unmount it counts nothing else: an inode the guest has *)
(* forgotten is gone from the table.  This is so for every inode that was  *)
(* never the target of a LINK, whatever is linked beside it.               *)
(***************************************************************************)
CountsCover ==
  \A id \in Ids \ ({ROOT_ID} \cup relinked) :
    IF id \in DOMAIN by_id
    THEN /\ by_id[id].lookups >= Outstanding(id)
         /\ mounts = 1 => by_id[id].lookups = Outstanding(id)
    ELSE Outstanding(id) = 0

(***************************************************************************)
(* What forget promises ("once the refcount hits zero, the inode is        *)
(* evicted"): an inode to which the guest holds a reference is tracked, so *)
(* no request for it fails because the daemon forgot it too early.         *)
(***************************************************************************)
HeldIsTracked == \A id \in Ids : nlookup[id] > 0 => id \in DOMAIN by_id
=============================================================================
