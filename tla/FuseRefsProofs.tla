--------------------------- MODULE FuseRefsProofs ---------------------------
(***************************************************************************)
(* The counting of references between guest and daemon is right for any    *)
(* number of files, ids, references and mounts, for every inode that is    *)
(* never the target of a LINK.  (For the others see HeldIsTracked.)        *)
(***************************************************************************)
EXTENDS FuseRefs, InodeStoreProofs

\* The part of the inductive invariant that holds for all requests.
TableInv == TypeOK /\ StoreInv

\* The table a daemon starts with is consistent and the guest counts nothing.
LEMMA InitTableInv == Init => TableInv
  BY StoreInitInv DEF Init, TableInv, TypeOK, StoreInv

\* The id register returns is an id of the model when the counter has room.
LEMMA RegisteredIdType ==
  ASSUME StoreInv, NEW f \in Files, RegisteredId(f) \in Ids
  PROVE  f \notin DOMAIN by_key => next_id \in Ids /\ RegisteredId(f) = next_id
  BY DEF RegisteredId

\* Every step of the guest or the daemon keeps the table consistent.
LEMMA NextTableInv == TableInv /\ [Next]_vars => TableInv'
<1> SUFFICES ASSUME TableInv, [Next]_vars PROVE TableInv'
  OBVIOUS
<1> USE DEF TableInv
<1>1. ASSUME NEW f \in Files, Ask(f) PROVE TableInv'
  BY <1>1, StoreUnchanged DEF Ask, TypeOK, StoreInv
<1>2. ASSUME NEW id \in Ids, AskLink(id) PROVE TableInv'
  BY <1>2, StoreUnchanged DEF AskLink, TypeOK, StoreInv
<1>3. ASSUME NEW id \in Ids, ReadEntry(id) PROVE TableInv'
  BY <1>3, StoreUnchanged DEF ReadEntry, TypeOK, StoreInv
<1>4. ASSUME NEW id \in Ids, ReadLinked(id) PROVE TableInv'
  BY <1>4, StoreUnchanged DEF ReadLinked, TypeOK, StoreInv
<1>5. ASSUME NEW id \in Ids, GiveBack(id) PROVE TableInv'
  BY <1>5, StoreUnchanged DEF GiveBack, TypeOK, StoreInv
<1>6. CASE Remount
  BY <1>6, StoreUnchanged DEF Remount, TypeOK, StoreInv
<1>7. ASSUME NEW f \in Files, NEW n \in Names, ServeEntry(f, n) PROVE TableInv'
  <2>1. StoreInv'
    <3>1. ROOT_ID \in Ids
      BY StoreAssumption DEF ROOT_ID, Ids
    <3>2. CASE RegisterKnown(ROOT_ID, n, f)
      BY <3>1, <3>2, RegisterKnownInv
    <3>3. CASE RegisterNew(ROOT_ID, n, f, f)
      <4>1. next_id \in Ids
        BY <1>7, <3>3, RegisteredIdType DEF ServeEntry, RegisterNew
      <4> QED
        BY <3>1, <3>3, <4>1, RegisterNewInv
    <3> QED
      BY <1>7, <3>2, <3>3 DEF ServeEntry, Register
  <2> QED
    BY <1>7, <2>1 DEF ServeEntry, TypeOK, StoreInv
<1>8. ASSUME NEW id \in Ids, ServeLink(id) PROVE TableInv'
  BY <1>8, StoreUnchanged DEF ServeLink, TypeOK, StoreInv
<1>9. ASSUME NEW id \in Ids, NEW count \in 1 .. MaxRefs, ServeForget(id, count)
      PROVE  TableInv'
  <2>1. StoreInv'
    BY <1>9, ForgetInv, RefsAssumption DEF ServeForget
  <2> QED
    BY <1>9, <2>1, RefsAssumption DEF ServeForget, TypeOK, StoreInv
<1>10. CASE UNCHANGED vars
  BY <1>10, StoreUnchanged DEF vars, guestVars, TypeOK, StoreInv
<1> QED
  BY <1>1, <1>2, <1>3, <1>4, <1>5, <1>6, <1>7, <1>8, <1>9, <1>10 DEF Next

(***************************************************************************)
(* The table, the queues and the guest's counts keep their types, however  *)
(* requests are interleaved and however often the guest remounts.          *)
(***************************************************************************)
THEOREM TypeCorrect == Spec => []TypeOK
<1>1. TableInv => TypeOK
  BY DEF TableInv
<1> QED
  BY <1>1, InitTableInv, NextTableInv, PTL DEF Spec

(***************************************************************************)
(* The inode table stays sound under any requests, served in any order:    *)
(* its two maps are inverse to each other.                                 *)
(***************************************************************************)
THEOREM Soundness == Spec => []TablesAgree
<1>1. TableInv => TablesAgree
  BY DEF TableInv, StoreInv
<1> QED
  BY <1>1, InitTableInv, NextTableInv, PTL DEF Spec
-----------------------------------------------------------------------------
\* Only a LINK that was asked for sends an entry register has not counted.
NoLinks == \A id \in Ids \ relinked : linking[id] = 0 /\ linked[id] = 0

CountInv == TableInv /\ NoLinks /\ CountsCover

\* The counts agree before the first request.
LEMMA InitCountInv == Init => CountInv
<1> SUFFICES ASSUME Init PROVE CountInv
  OBVIOUS
<1>1. TableInv
  BY InitTableInv
<1>2. NoLinks
  BY DEF Init, NoLinks
<1>3. CountsCover
  BY DEF Init, StoreInit, CountsCover, Outstanding, Ids, ROOT_ID
<1> QED
  BY <1>1, <1>2, <1>3 DEF CountInv

\* A step of the guest that moves references between the places where they
\* are counted, and leaves the table alone.
LEMMA GuestStepCounts ==
  ASSUME CountsCover, UNCHANGED <<storeVars, mounts>>, relinked \subseteq relinked',
         \A i \in Ids \ relinked' : Outstanding(i)' = Outstanding(i)
  PROVE  CountsCover'
  BY DEF CountsCover, storeVars

\* register counts the entry that is sent, for a known and for a new key.
LEMMA ServeEntryCounts ==
  ASSUME CountInv, NEW f \in Files, NEW n \in Names, ServeEntry(f, n)
  PROVE  CountsCover'
<1>0. PICK r \in Ids : r = RegisteredId(f)
  BY DEF ServeEntry
<1>1. /\ entries' = [entries EXCEPT ![r] = @ + 1]
      /\ UNCHANGED <<nlookup, forgets, mounts, relinked>>
  BY <1>0 DEF ServeEntry
<1>2. /\ Outstanding(r)' = Outstanding(r) + 1
      /\ \A i \in Ids : i # r => Outstanding(i)' = Outstanding(i)
      /\ \A i \in Ids : Outstanding(i) \in Nat
  BY <1>1 DEF Outstanding, CountInv, TableInv, TypeOK
<1>3. CASE RegisterKnown(ROOT_ID, n, f)
  <2>1. r \in DOMAIN by_id /\ by_id[r] \in InodeData /\ r = by_key[f]
    BY <1>0, <1>3 DEF RegisterKnown, RegisteredId, CountInv, TableInv, StoreInv,
                StoreTypeOK, TablesAgree
  <2> DEFINE e == SetLocation(by_id[r], ROOT_ID, n)
             d == Counted(e)
  <2>2. by_id' = [by_id EXCEPT ![r] = d]
    BY <1>3, <2>1 DEF RegisterKnown
  <2>3. d.lookups = by_id[r].lookups + 1
    <3>1. ROOT_ID \in Ids
      BY StoreAssumption DEF ROOT_ID, Ids
    <3>2. e \in InodeData /\ e.lookups = by_id[r].lookups
      BY <2>1, <3>1, SetLocationType
    <3> HIDE DEF e
    <3> QED
      BY <3>2, CountedType
  <2> HIDE DEF d
  <2>4. \A i \in DOMAIN by_id :
          by_id'[i].lookups = IF i = r THEN by_id[i].lookups + 1
                                       ELSE by_id[i].lookups
    BY <2>1, <2>2, <2>3
  <2>5. DOMAIN by_id' = DOMAIN by_id
    BY <2>2
  <2>6. \A i \in DOMAIN by_id : by_id[i].lookups \in Nat
    BY DEF CountInv, TableInv, StoreInv, StoreTypeOK, InodeData
  <2> QED
    BY <1>1, <1>2, <2>1, <2>4, <2>5, <2>6 DEF CountInv, CountsCover
<1>4. CASE RegisterNew(ROOT_ID, n, f, f)
  <2>1. r = next_id
    BY <1>0, <1>4 DEF RegisterNew, RegisteredId
  <2>2. next_id \notin DOMAIN by_id
    BY DEF CountInv, TableInv, StoreInv, StoreTypeOK, IdsAllocated, Ids
  <2>3. /\ DOMAIN by_id' = DOMAIN by_id \cup {r}
        /\ by_id'[r].lookups = 1
        /\ \A i \in DOMAIN by_id : by_id'[i] = by_id[i]
    BY <1>4, <2>1, <2>2 DEF RegisterNew, Put
  <2> QED
    BY <1>1, <1>2, <2>1, <2>2, <2>3 DEF CountInv, CountsCover
<1> QED
  BY <1>3, <1>4 DEF ServeEntry, Register

\* forget takes as much off the daemon's count as off what is outstanding.
LEMMA ServeForgetCounts ==
  ASSUME CountInv, NEW id \in Ids, NEW count \in 1 .. MaxRefs,
         ServeForget(id, count)
  PROVE  CountsCover'
<1>1. /\ count \in Nat /\ count > 0 /\ count <= forgets[id]
      /\ forgets' = [forgets EXCEPT ![id] = @ - count]
      /\ UNCHANGED <<nlookup, entries, mounts, relinked>>
  BY RefsAssumption DEF ServeForget
<1>2. /\ Outstanding(id)' = Outstanding(id) - count
      /\ \A i \in Ids : i # id => Outstanding(i)' = Outstanding(i)
      /\ \A i \in Ids : Outstanding(i) \in Nat
      /\ Outstanding(id) >= count
  BY <1>1 DEF Outstanding, CountInv, TableInv, TypeOK
<1>3. \A i \in DOMAIN by_id : i \in Ids /\ by_id[i].lookups \in Nat
  BY DEF CountInv, TableInv, StoreInv, StoreTypeOK, InodeData
<1>4. CASE ForgetIgnored(id)
  BY <1>1, <1>2, <1>4 DEF ForgetIgnored, storeVars, CountInv, CountsCover
<1>5. CASE ForgetKeep(id, count)
  <2>1. /\ DOMAIN by_id' = DOMAIN by_id
        /\ \A i \in DOMAIN by_id : i # id => by_id'[i] = by_id[i]
        /\ by_id'[id].lookups = by_id[id].lookups - count
        /\ id \in DOMAIN by_id
    <3>1. id \in DOMAIN by_id /\ by_id[id] \in InodeData
      BY <1>5 DEF ForgetKeep, CountInv, TableInv, StoreInv, StoreTypeOK
    <3> QED
      BY <1>5, <3>1 DEF ForgetKeep, InodeData
  <2> QED
    BY <1>1, <1>2, <1>3, <2>1 DEF CountInv, CountsCover
<1>6. CASE ForgetEvict(id, count)
  <2>1. /\ DOMAIN by_id' = DOMAIN by_id \ {id}
        /\ \A i \in DOMAIN by_id' : by_id'[i] = by_id[i]
        /\ id \in DOMAIN by_id /\ by_id[id].lookups <= count /\ id # ROOT_ID
    BY <1>6 DEF ForgetEvict, Drop
  <2> QED
    BY <1>1, <1>2, <1>3, <2>1 DEF CountInv, CountsCover
<1> QED
  BY <1>4, <1>5, <1>6 DEF ServeForget, Forget

\* Every step keeps the counts in agreement.
LEMMA NextCountInv == CountInv /\ [Next]_vars => CountInv'
<1> SUFFICES ASSUME CountInv, [Next]_vars PROVE CountInv'
  OBVIOUS
<1>0. TableInv'
  BY NextTableInv DEF CountInv
<1>t. /\ linking \in [Ids -> Nat] /\ linked \in [Ids -> Nat]
      /\ entries \in [Ids -> Nat] /\ nlookup \in [Ids -> Nat]
      /\ forgets \in [Ids -> Nat] /\ mounts \in Nat \ {0}
  BY DEF CountInv, TableInv, TypeOK
<1>1. ASSUME NEW f \in Files, Ask(f) PROVE NoLinks' /\ CountsCover'
  BY <1>1, GuestStepCounts DEF Ask, CountInv, NoLinks, Outstanding
<1>2. ASSUME NEW id \in Ids, AskLink(id) PROVE NoLinks' /\ CountsCover'
  BY <1>t, <1>2, GuestStepCounts DEF AskLink, CountInv, NoLinks, Outstanding
<1>3. ASSUME NEW id \in Ids, ReadEntry(id) PROVE NoLinks' /\ CountsCover'
  <2>1. \A i \in Ids : Outstanding(i)' = Outstanding(i)
    BY <1>t, <1>3 DEF ReadEntry, Outstanding
  <2> QED
    BY <1>3, <2>1, GuestStepCounts DEF ReadEntry, CountInv, NoLinks
<1>4. ASSUME NEW id \in Ids, ReadLinked(id) PROVE NoLinks' /\ CountsCover'
  <2>1. id \in relinked
    BY <1>t, <1>4 DEF ReadLinked, CountInv, NoLinks
  <2>2. \A i \in Ids \ relinked : Outstanding(i)' = Outstanding(i)
    BY <1>t, <1>4, <2>1 DEF ReadLinked, Outstanding
  <2> QED
    BY <1>t, <1>4, <2>1, <2>2, GuestStepCounts DEF ReadLinked, CountInv, NoLinks
<1>5. ASSUME NEW id \in Ids, GiveBack(id) PROVE NoLinks' /\ CountsCover'
  <2>1. \A i \in Ids : Outstanding(i)' = Outstanding(i)
    BY <1>t, <1>5 DEF GiveBack, Outstanding
  <2> QED
    BY <1>5, <2>1, GuestStepCounts DEF GiveBack, CountInv, NoLinks
<1>6. CASE Remount
  <2>1. \A i \in Ids : /\ Outstanding(i) \in Nat /\ Outstanding(i)' \in Nat
                       /\ Outstanding(i)' <= Outstanding(i)
    BY <1>t, <1>6 DEF Remount, Outstanding
  <2>2. mounts' # 1 /\ UNCHANGED <<storeVars, linking, linked, relinked>>
    BY <1>t, <1>6 DEF Remount
  <2>3. \A i \in DOMAIN by_id : by_id[i].lookups \in Nat
    BY DEF CountInv, TableInv, StoreInv, StoreTypeOK, InodeData
  <2> QED
    BY <1>0, <2>1, <2>2, <2>3 DEF CountInv, CountsCover, NoLinks, storeVars
<1>7. ASSUME NEW f \in Files, NEW n \in Names, ServeEntry(f, n)
      PROVE  NoLinks' /\ CountsCover'
  BY Zenon, <1>7, ServeEntryCounts DEF ServeEntry, CountInv, NoLinks
<1>8. ASSUME NEW id \in Ids, ServeLink(id) PROVE NoLinks' /\ CountsCover'
  <2>1. id \in relinked
    BY <1>t, <1>8 DEF ServeLink, CountInv, NoLinks
  <2>2. \A i \in Ids \ relinked : Outstanding(i)' = Outstanding(i)
    BY <1>8 DEF ServeLink, Outstanding
  <2> QED
    BY <1>t, <1>8, <2>1, <2>2, GuestStepCounts DEF ServeLink, CountInv, NoLinks
<1>9. ASSUME NEW id \in Ids, NEW count \in 1 .. MaxRefs, ServeForget(id, count)
      PROVE  NoLinks' /\ CountsCover'
  BY Zenon, <1>9, ServeForgetCounts DEF ServeForget, CountInv, NoLinks
<1>10. CASE UNCHANGED vars
  BY <1>0, <1>10 DEF vars, guestVars, storeVars, CountInv, NoLinks, CountsCover,
               Outstanding
<1> QED
  BY <1>0, <1>1, <1>2, <1>3, <1>4, <1>5, <1>6, <1>7, <1>8, <1>9, <1>10
  DEF Next, CountInv

(***************************************************************************)
(* The daemon's counts cover the guest's references at all times, however  *)
(* the two queues are interleaved and however often the guest remounts.    *)
(***************************************************************************)
THEOREM Counting == Spec => []CountsCover
<1>1. CountInv => CountsCover
  BY DEF CountInv
<1> QED
  BY <1>1, InitCountInv, NextCountInv, PTL DEF Spec
=============================================================================
