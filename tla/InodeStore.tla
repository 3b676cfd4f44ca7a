----------------------------- MODULE InodeStore -----------------------------
(***************************************************************************)
(* The inode table of riftlessfs-core (inode.rs): by_id maps the opaque    *)
(* 64-bit inode ids the guest sees to the reference fd kept open per file, *)
(* by_key maps the (dev, ino) pair of a file to its id, and next_id is the *)
(* allocation counter.                                                     *)
(*                                                                         *)
(* A file is an element of Files.  It stands for the host inode, and so    *)
(* both for what an fd is open on (field fd) and for the (dev, ino) pair   *)
(* that stat reports (field key).  The two fields are kept apart because   *)
(* the code fills them from two different system calls.                    *)
(***************************************************************************)
EXTENDS FsTypes, Integers

CONSTANT
  MaxId   \* bound of the model: inode ids stop here (2^64 - 1 in the code)

ASSUME StoreAssumption == MaxId \in Nat \ {0}

VARIABLES by_id, by_key, next_id

storeVars == <<by_id, by_key, next_id>>

ROOT_ID == 1
Ids == 1 .. MaxId

InodeData == [fd: Files, key: Files, parent: Ids \cup {Nil},
              name: Names \cup {Nil}, lookups: Nat]

StoreInit ==
  /\ by_id = [i \in {ROOT_ID} |-> [fd |-> RootFile, key |-> RootFile,
                                   parent |-> Nil, name |-> Nil, lookups |-> 1]]
  /\ by_key = [k \in {RootFile} |-> ROOT_ID]
  /\ next_id = ROOT_ID + 1

SetLocation(data, parent, name) ==
  [data EXCEPT !.parent = parent, !.name = name]

Counted(data) == [data EXCEPT !.lookups = @ + 1]
-----------------------------------------------------------------------------
(***************************************************************************)
(* register: a known key gains a lookup and the location it was just found *)
(* under, and the duplicate fd is dropped; a new key gets the next id.     *)
(***************************************************************************)
\* Mutant: a repeated lookup is not counted.
RegisterKnownUncounted(parent, name, key) ==
  /\ key \in DOMAIN by_key
  /\ by_id' = [by_id EXCEPT ![by_key[key]] = SetLocation(@, parent, name)]
  /\ UNCHANGED <<by_key, next_id>>

\* Mutant: a key that is known is given another id.
RegisterKnownAnew(parent, name, key) ==
  /\ key \in DOMAIN by_key
  /\ by_id' = Put(by_id, next_id,
                     [fd |-> key, key |-> key, parent |-> parent,
                      name |-> name, lookups |-> 1])
  /\ by_key' = Put(by_key, key, next_id)
  /\ next_id' = next_id + 1

RegisterKnown(parent, name, key) ==
  /\ key \in DOMAIN by_key
  /\ by_id' = [by_id EXCEPT ![by_key[key]] =
                 Counted(SetLocation(@, parent, name))]
  /\ UNCHANGED <<by_key, next_id>>

\* Mutant: the smallest id that is free is used again.
RegisterNewReuses(parent, name, fd, key) ==
  /\ key \notin DOMAIN by_key
  /\ LET id == CHOOSE i \in Ids : i \notin DOMAIN by_id
                    /\ \A j \in Ids \ DOMAIN by_id : i <= j
     IN /\ by_id' = Put(by_id, id,
                           [fd |-> fd, key |-> key, parent |-> parent,
                            name |-> name, lookups |-> 1])
        /\ by_key' = Put(by_key, key, id)
  /\ next_id' = next_id + 1

RegisterNew(parent, name, fd, key) ==
  /\ key \notin DOMAIN by_key
  /\ by_id' = Put(by_id, next_id,
                     [fd |-> fd, key |-> key, parent |-> parent,
                      name |-> name, lookups |-> 1])
  /\ by_key' = Put(by_key, key, next_id)
  /\ next_id' = next_id + 1

Register(parent, name, fd, key) ==
  \/ RegisterKnown(parent, name, key)
  \/ RegisterNew(parent, name, fd, key)

\* The id register returns for key.
RegisteredId(key) == IF key \in DOMAIN by_key THEN by_key[key] ELSE next_id

(***************************************************************************)
(* forget: the root is never forgotten, an unknown id is ignored, and an   *)
(* entry whose count is used up leaves both maps.                          *)
(***************************************************************************)
ForgetIgnored(id) ==
  /\ id = ROOT_ID \/ id \notin DOMAIN by_id
  /\ UNCHANGED storeVars

\* Mutant: the subtraction is not clamped to what is there.
ForgetUnclamped(id, count) ==
  /\ id # ROOT_ID /\ id \in DOMAIN by_id
  /\ by_id[id].lookups # count
  /\ by_id' = [by_id EXCEPT ![id].lookups = @ - count]
  /\ UNCHANGED <<by_key, next_id>>

\* Mutant: an entry whose count is used up may stay.
ForgetKeepZero(id, count) ==
  /\ id # ROOT_ID /\ id \in DOMAIN by_id
  /\ by_id[id].lookups >= count
  /\ by_id' = [by_id EXCEPT ![id].lookups = @ - count]
  /\ UNCHANGED <<by_key, next_id>>

ForgetKeep(id, count) ==
  /\ id # ROOT_ID /\ id \in DOMAIN by_id
  /\ by_id[id].lookups > count
  /\ by_id' = [by_id EXCEPT ![id].lookups = @ - count]
  /\ UNCHANGED <<by_key, next_id>>

\* Mutant: the entry leaves by_id and stays in by_key.
ForgetEvictKeepsKey(id, count) ==
  /\ id # ROOT_ID /\ id \in DOMAIN by_id
  /\ by_id[id].lookups <= count
  /\ by_id' = Drop(by_id, id)
  /\ UNCHANGED <<by_key, next_id>>

ForgetEvict(id, count) ==
  /\ id # ROOT_ID /\ id \in DOMAIN by_id
  /\ by_id[id].lookups <= count
  /\ by_id' = Drop(by_id, id)
  /\ by_key' = Drop(by_key, by_id[id].key)
  /\ UNCHANGED next_id

Forget(id, count) ==
  \/ ForgetIgnored(id)
  \/ ForgetKeep(id, count)
  \/ ForgetEvict(id, count)

(***************************************************************************)
(* note_rename: the first entry, in the arbitrary order of the hash map,   *)
(* whose cached location is the old one gets the new one.                  *)
(***************************************************************************)
LocatedAt(parent, name) ==
  {id \in DOMAIN by_id : by_id[id].parent = parent /\ by_id[id].name = name}

\* Mutant: the new parent is not recorded.
NoteRenameKeepsParent(old_parent, old_name, new_parent, new_name) ==
  /\ \/ /\ LocatedAt(old_parent, old_name) = {}
        /\ UNCHANGED by_id
     \/ \E id \in LocatedAt(old_parent, old_name) :
          by_id' = [by_id EXCEPT ![id].name = new_name]
  /\ UNCHANGED <<by_key, next_id>>

NoteRename(old_parent, old_name, new_parent, new_name) ==
  /\ \/ /\ LocatedAt(old_parent, old_name) = {}
        /\ UNCHANGED by_id
     \/ \E id \in LocatedAt(old_parent, old_name) :
          by_id' = [by_id EXCEPT ![id] = SetLocation(@, new_parent, new_name)]
  /\ UNCHANGED <<by_key, next_id>>
-----------------------------------------------------------------------------
StoreTypeOK ==
  /\ DOMAIN by_id \subseteq Ids
  /\ \A id \in DOMAIN by_id : by_id[id] \in InodeData
  /\ by_id = [id \in DOMAIN by_id |-> by_id[id]]
  /\ DOMAIN by_key \subseteq Files
  /\ \A k \in DOMAIN by_key : by_key[k] \in Ids
  /\ by_key = [k \in DOMAIN by_key |-> by_key[k]]
  /\ next_id \in 2 .. (MaxId + 1)

(***************************************************************************)
(* The two maps are inverse to each other on the keys of the tracked       *)
(* inodes.  register looks an id up in by_key and unwraps its entry in     *)
(* by_id: a dangling key is a panic, a missing one a second id for a file. *)
(***************************************************************************)
TablesAgree ==
  /\ \A k \in DOMAIN by_key :
       by_key[k] \in DOMAIN by_id /\ by_id[by_key[k]].key = k
  /\ \A id \in DOMAIN by_id :
       by_id[id].key \in DOMAIN by_key /\ by_key[by_id[id].key] = id

\* Every id in the table was handed out by the counter, and the root stays.
IdsAllocated ==
  /\ ROOT_ID \in DOMAIN by_id
  /\ \A id \in DOMAIN by_id : id < next_id

\* A tracked inode is one the guest still counts a reference to.
LookupsPositive == \A id \in DOMAIN by_id : by_id[id].lookups >= 1

\* A step on the table keeps the file of every entry that stays, and gives a
\* new entry an id that the counter had not yet passed.
IdKept ==
  /\ \A id \in DOMAIN by_id \cap DOMAIN by_id' :
       by_id'[id].fd = by_id[id].fd /\ by_id'[id].key = by_id[id].key
  /\ \A id \in DOMAIN by_id' \ DOMAIN by_id : next_id <= id /\ id < next_id'
=============================================================================
