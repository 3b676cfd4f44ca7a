-------------------------- MODULE InodeStoreProofs --------------------------
(***************************************************************************)
(* What every operation of the inode table preserves, for any number of    *)
(* files, names and ids.  The modules that call the table (PassthroughFs,  *)
(* FuseRefs) rest their own theorems on these lemmas.                      *)
(***************************************************************************)
EXTENDS InodeStore, TLAPS

\* The inductive invariant: TablesAgree alone is not inductive, because a new
\* entry must not overwrite an old one, which is what IdsAllocated excludes.
StoreInv == StoreTypeOK /\ TablesAgree /\ IdsAllocated /\ LookupsPositive

\* set_location and the increment of lookups change nothing else of an entry.
LEMMA SetLocationType ==
  ASSUME NEW data \in InodeData, NEW parent \in Ids, NEW name \in Names
  PROVE  LET d == SetLocation(data, parent, name)
         IN d \in InodeData /\ d.fd = data.fd /\ d.key = data.key
            /\ d.lookups = data.lookups
  BY Zenon DEF InodeData, SetLocation

\* Counting a lookup keeps the type of an entry.
LEMMA CountedType ==
  ASSUME NEW data \in InodeData
  PROVE  LET d == Counted(data)
         IN d \in InodeData /\ d.fd = data.fd /\ d.key = data.key
            /\ d.lookups = data.lookups + 1
  BY DEF InodeData, Counted

\* new(): the table with the root in it is sound.
LEMMA StoreInitInv == StoreInit => StoreInv
  BY FsAssumption, StoreAssumption
  DEF StoreInit, StoreInv, StoreTypeOK, TablesAgree, IdsAllocated,
      LookupsPositive, InodeData, Ids, ROOT_ID

\* A step that leaves the table alone leaves it sound.
LEMMA StoreUnchanged == StoreInv /\ UNCHANGED storeVars => StoreInv'
  BY DEF StoreInv, StoreTypeOK, TablesAgree, IdsAllocated, LookupsPositive,
         storeVars

\* Changing only the location and the count of one entry keeps the table
\* sound (register of a known key, forget of a part, note_rename).
LEMMA EntryUpdateInv ==
  ASSUME StoreInv, NEW id \in DOMAIN by_id, NEW d \in InodeData,
         d.key = by_id[id].key, d.lookups >= 1,
         by_id' = [by_id EXCEPT ![id] = d], UNCHANGED <<by_key, next_id>>
  PROVE  StoreInv'
<1>1. DOMAIN by_id' = DOMAIN by_id
  OBVIOUS
<1>2. \A i \in DOMAIN by_id : by_id'[i] = IF i = id THEN d ELSE by_id[i]
  OBVIOUS
<1>3. StoreTypeOK'
  BY Zenon, <1>1, <1>2 DEF StoreInv, StoreTypeOK
<1>4. TablesAgree'
  BY <1>1, <1>2 DEF StoreInv, TablesAgree
<1>5. IdsAllocated' /\ LookupsPositive'
  BY <1>1, <1>2 DEF StoreInv, IdsAllocated, LookupsPositive
<1> QED
  BY <1>3, <1>4, <1>5 DEF StoreInv

\* register of a known key.
LEMMA RegisterKnownInv ==
  ASSUME StoreInv, NEW parent \in Ids, NEW name \in Names, NEW key,
         RegisterKnown(parent, name, key)
  PROVE  StoreInv'
<1> DEFINE id == by_key[key]
           e == SetLocation(by_id[id], parent, name)
           d == Counted(e)
<1>1. id \in DOMAIN by_id /\ by_id[id] \in InodeData
  BY DEF StoreInv, StoreTypeOK, TablesAgree, RegisterKnown
<1>2. d \in InodeData /\ d.key = by_id[id].key /\ d.lookups >= 1
  <2>1. e \in InodeData /\ e.key = by_id[id].key /\ e.lookups \in Nat
    BY <1>1, SetLocationType DEF InodeData
  <2> HIDE DEF e
  <2> QED
    BY <2>1, CountedType DEF InodeData
<1>3. by_id' = [by_id EXCEPT ![id] = d] /\ UNCHANGED <<by_key, next_id>>
  BY DEF RegisterKnown
<1> HIDE DEF id, d
<1> QED
  BY Zenon, <1>1, <1>2, <1>3, EntryUpdateInv

\* register of a new key: the counter's id is free, so nothing is lost.
LEMMA RegisterNewInv ==
  ASSUME StoreInv, next_id \in Ids, NEW parent \in Ids, NEW name \in Names,
         NEW fd \in Files, NEW key \in Files,
         RegisterNew(parent, name, fd, key)
  PROVE  StoreInv' /\ DOMAIN by_id' = DOMAIN by_id \cup {next_id}
<1> DEFINE d == [fd |-> fd, key |-> key, parent |-> parent, name |-> name,
                 lookups |-> 1]
<1>0. d \in InodeData /\ d.key = key /\ d.lookups = 1
  BY DEF InodeData
<1>1. /\ by_id' = Put(by_id, next_id, d)
      /\ by_key' = Put(by_key, key, next_id)
      /\ next_id' = next_id + 1
      /\ key \notin DOMAIN by_key
  BY DEF RegisterNew
<1> HIDE DEF d
<1>2. /\ DOMAIN by_id' = DOMAIN by_id \cup {next_id}
      /\ by_id'[next_id] = d
      /\ \A i \in DOMAIN by_id : by_id'[i] = by_id[i]
  <2>1. next_id \notin DOMAIN by_id
    BY DEF StoreInv, StoreTypeOK, IdsAllocated, Ids
  <2> QED
    BY <1>1, <2>1 DEF Put
<1>3. /\ DOMAIN by_key' = DOMAIN by_key \cup {key}
      /\ by_key'[key] = next_id
      /\ \A k \in DOMAIN by_key : by_key'[k] = by_key[k]
  BY <1>1 DEF Put
<1>4. next_id \notin DOMAIN by_id
  BY DEF StoreInv, StoreTypeOK, IdsAllocated, Ids
<1>5. StoreTypeOK'
  <2>1. by_id' = [i \in DOMAIN by_id' |-> by_id'[i]]
    BY <1>1 DEF Put
  <2>2. by_key' = [k \in DOMAIN by_key' |-> by_key'[k]]
    BY <1>1 DEF Put
  <2>3. next_id' \in 2 .. (MaxId + 1)
    BY <1>1, StoreAssumption DEF StoreInv, StoreTypeOK, Ids
  <2>4. DOMAIN by_id' \subseteq Ids /\ \A i \in DOMAIN by_id' : by_id'[i] \in InodeData
    BY <1>0, <1>2 DEF StoreInv, StoreTypeOK
  <2>5. DOMAIN by_key' \subseteq Files /\ \A k \in DOMAIN by_key' : by_key'[k] \in Ids
    BY <1>3 DEF StoreInv, StoreTypeOK
  <2> QED
    BY <2>1, <2>2, <2>3, <2>4, <2>5 DEF StoreTypeOK
<1>6. TablesAgree'
  BY <1>0, <1>1, <1>2, <1>3, <1>4 DEF StoreInv, TablesAgree
<1>7. IdsAllocated' /\ LookupsPositive'
  BY <1>0, <1>1, <1>2, StoreAssumption
  DEF StoreInv, StoreTypeOK, IdsAllocated, LookupsPositive, Ids
<1> QED
  BY <1>2, <1>5, <1>6, <1>7 DEF StoreInv

\* forget.
LEMMA ForgetInv ==
  ASSUME StoreInv, NEW id, NEW count \in Nat, Forget(id, count)
  PROVE  StoreInv'
<1>1. CASE ForgetIgnored(id)
  BY <1>1, StoreUnchanged DEF ForgetIgnored
<1>2. CASE ForgetKeep(id, count)
  <2> DEFINE d == [by_id[id] EXCEPT !.lookups = @ - count]
  <2>1. id \in DOMAIN by_id /\ by_id[id] \in InodeData /\ by_id[id].lookups > count
    BY <1>2 DEF ForgetKeep, StoreInv, StoreTypeOK
  <2>2. d \in InodeData /\ d.key = by_id[id].key /\ d.lookups >= 1
    BY <2>1 DEF InodeData
  <2>3. by_id' = [by_id EXCEPT ![id] = d] /\ UNCHANGED <<by_key, next_id>>
    BY <1>2 DEF ForgetKeep
  <2> HIDE DEF d
  <2> QED
    BY Zenon, <2>1, <2>2, <2>3, EntryUpdateInv
<1>3. CASE ForgetEvict(id, count)
  <2>1. /\ id \in DOMAIN by_id /\ id # ROOT_ID
        /\ by_id' = Drop(by_id, id)
        /\ by_key' = Drop(by_key, by_id[id].key)
        /\ next_id' = next_id
    BY <1>3 DEF ForgetEvict
  <2>2. /\ DOMAIN by_id' = DOMAIN by_id \ {id}
        /\ \A i \in DOMAIN by_id' : by_id'[i] = by_id[i]
        /\ by_id' = [i \in DOMAIN by_id' |-> by_id'[i]]
    BY <2>1 DEF Drop
  <2>3. /\ DOMAIN by_key' = DOMAIN by_key \ {by_id[id].key}
        /\ \A k \in DOMAIN by_key' : by_key'[k] = by_key[k]
        /\ by_key' = [k \in DOMAIN by_key' |-> by_key'[k]]
    BY <2>1 DEF Drop
  <2>4. StoreTypeOK'
    BY <2>1, <2>2, <2>3 DEF StoreInv, StoreTypeOK
  <2>5. TablesAgree'
    BY <2>1, <2>2, <2>3 DEF StoreInv, TablesAgree
  <2>6. IdsAllocated' /\ LookupsPositive'
    BY <2>1, <2>2 DEF StoreInv, IdsAllocated, LookupsPositive
  <2> QED
    BY <2>4, <2>5, <2>6 DEF StoreInv
<1> QED
  BY <1>1, <1>2, <1>3 DEF Forget

\* note_rename.
LEMMA NoteRenameInv ==
  ASSUME StoreInv, NEW p, NEW n, NEW p2 \in Ids, NEW n2 \in Names,
         NoteRename(p, n, p2, n2)
  PROVE  StoreInv' /\ DOMAIN by_id' = DOMAIN by_id
<1>1. CASE UNCHANGED storeVars
  BY <1>1, StoreUnchanged DEF storeVars
<1>2. ASSUME NEW id \in LocatedAt(p, n),
             by_id' = [by_id EXCEPT ![id] = SetLocation(@, p2, n2)],
             UNCHANGED <<by_key, next_id>>
      PROVE  StoreInv' /\ DOMAIN by_id' = DOMAIN by_id
  <2> DEFINE d == SetLocation(by_id[id], p2, n2)
  <2>1. id \in DOMAIN by_id /\ by_id[id] \in InodeData /\ by_id[id].lookups >= 1
    BY DEF LocatedAt, StoreInv, StoreTypeOK, LookupsPositive
  <2>2. d \in InodeData /\ d.key = by_id[id].key /\ d.lookups >= 1
    BY Zenon, <2>1 DEF InodeData, SetLocation
  <2>3. by_id' = [by_id EXCEPT ![id] = d]
    BY <1>2
  <2> HIDE DEF d
  <2>4. StoreInv'
    BY Zenon, <1>2, <2>1, <2>2, <2>3, EntryUpdateInv
  <2> QED
    BY <2>3, <2>4
<1> QED
  BY <1>1, <1>2 DEF NoteRename, storeVars
-----------------------------------------------------------------------------
\* A step that replaces one entry by one of the same file keeps the ids.
LEMMA EntryUpdateKept ==
  ASSUME NEW id \in DOMAIN by_id, NEW d, d.fd = by_id[id].fd, d.key = by_id[id].key,
         by_id' = [by_id EXCEPT ![id] = d]
  PROVE  IdKept
<1>1. \A i \in DOMAIN by_id : by_id'[i] = IF i = id THEN d ELSE by_id[i]
  OBVIOUS
<1> QED
  BY <1>1 DEF IdKept

\* register keeps the ids: a known key changes no file, a new one is last.
LEMMA RegisterKept ==
  ASSUME StoreInv, next_id \in Ids, NEW parent \in Ids, NEW name \in Names,
         NEW fd, NEW key, Register(parent, name, fd, key)
  PROVE  IdKept
<1>1. CASE RegisterKnown(parent, name, key)
  <2> DEFINE id == by_key[key]
             e == SetLocation(by_id[id], parent, name)
             d == Counted(e)
  <2>1. id \in DOMAIN by_id /\ by_id[id] \in InodeData
    BY <1>1 DEF StoreInv, StoreTypeOK, TablesAgree, RegisterKnown
  <2>2. e \in InodeData /\ e.fd = by_id[id].fd /\ e.key = by_id[id].key
    BY <2>1, SetLocationType
  <2>3. by_id' = [by_id EXCEPT ![id] = d]
    BY <1>1 DEF RegisterKnown
  <2> HIDE DEF e, id
  <2>4. d.fd = by_id[id].fd /\ d.key = by_id[id].key
    BY <2>2, CountedType
  <2> HIDE DEF d
  <2> QED
    BY Zenon, <2>1, <2>3, <2>4, EntryUpdateKept
<1>2. CASE RegisterNew(parent, name, fd, key)
  <2>1. next_id \notin DOMAIN by_id
    BY DEF StoreInv, StoreTypeOK, IdsAllocated, Ids
  <2>2. /\ DOMAIN by_id' = DOMAIN by_id \cup {next_id}
        /\ \A i \in DOMAIN by_id : by_id'[i] = by_id[i]
        /\ next_id' = next_id + 1
    BY <1>2, <2>1 DEF RegisterNew, Put
  <2> QED
    BY <2>2 DEF IdKept, Ids
<1> QED
  BY <1>1, <1>2 DEF Register

\* forget keeps the ids.
LEMMA ForgetKept ==
  ASSUME StoreInv, NEW id, NEW count, Forget(id, count)
  PROVE  IdKept
<1>1. CASE ForgetIgnored(id)
  BY <1>1 DEF ForgetIgnored, storeVars, IdKept
<1>2. CASE ForgetKeep(id, count)
  <2> DEFINE d == [by_id[id] EXCEPT !.lookups = @ - count]
  <2>1. id \in DOMAIN by_id /\ by_id[id] \in InodeData
    BY <1>2 DEF ForgetKeep, StoreInv, StoreTypeOK
  <2>2. d.fd = by_id[id].fd /\ d.key = by_id[id].key
    BY <2>1 DEF InodeData
  <2>3. by_id' = [by_id EXCEPT ![id] = d]
    BY <1>2 DEF ForgetKeep
  <2> HIDE DEF d
  <2> QED
    BY Zenon, <2>1, <2>2, <2>3, EntryUpdateKept
<1>3. CASE ForgetEvict(id, count)
  BY <1>3 DEF ForgetEvict, Drop, IdKept
<1> QED
  BY <1>1, <1>2, <1>3 DEF Forget

\* note_rename keeps the ids.
LEMMA NoteRenameKept ==
  ASSUME StoreInv, NEW p, NEW n, NEW p2 \in Ids, NEW n2 \in Names,
         NoteRename(p, n, p2, n2)
  PROVE  IdKept
<1>1. CASE UNCHANGED by_id
  BY <1>1 DEF IdKept
<1>2. ASSUME NEW id \in LocatedAt(p, n),
             by_id' = [by_id EXCEPT ![id] = SetLocation(@, p2, n2)]
      PROVE  IdKept
  <2> DEFINE d == SetLocation(by_id[id], p2, n2)
  <2>1. id \in DOMAIN by_id /\ by_id[id] \in InodeData
    BY DEF LocatedAt, StoreInv, StoreTypeOK
  <2>2. d.fd = by_id[id].fd /\ d.key = by_id[id].key
    BY <2>1, SetLocationType
  <2>3. by_id' = [by_id EXCEPT ![id] = d]
    BY <1>2
  <2> HIDE DEF d
  <2> QED
    BY Zenon, <2>1, <2>2, <2>3, EntryUpdateKept
<1> QED
  BY <1>1, <1>2 DEF NoteRename
=============================================================================
