-------------------------- MODULE DirSessionProofs --------------------------
(***************************************************************************)
(* A pass over a directory is right for any number of names, handles and   *)
(* changes, and for replies of any size.                                   *)
(***************************************************************************)
EXTENDS DirSession, FiniteSetTheorems, SequenceTheorems, TLAPS

Distinct(s) == \A i, j \in 1 .. Len(s) : s[i] = s[j] => i = j
IsPartOf(s, t) == Len(s) <= Len(t) /\ \A i \in 1 .. Len(s) : s[i] = t[i]
Lists(s, low, high) ==
  /\ \A n \in low : \E i \in 1 .. Len(s) : s[i] = n
  /\ \A i \in 1 .. Len(s) : s[i] \in high

DirTypes ==
  /\ HandleTypeOK
  /\ present \in SUBSET Names
  /\ got \in [1 .. MaxHandle -> Seq(Names)]
  /\ ended \in [1 .. MaxHandle -> BOOLEAN]
  /\ always \in [1 .. MaxHandle -> SUBSET Names]
  /\ ever \in [1 .. MaxHandle -> SUBSET Names]

CacheInv ==
  /\ SnapshotsOwned
  /\ \A h \in DOMAIN readdir_cache :
       readdir_cache[h] \in Seq(Names) /\ Distinct(readdir_cache[h])

\* A pass that has begun has got a prefix of its snapshot, which has the names
\* that were there throughout and none that never was; at its end, all of it.
PassInv(h) ==
  /\ always[h] \subseteq present /\ present \subseteq ever[h]
  /\ got[h] # <<>> => /\ h \in DOMAIN readdir_cache
                      /\ IsPartOf(got[h], readdir_cache[h])
                      /\ Lists(readdir_cache[h], always[h], ever[h])
  /\ ended[h] => IF got[h] = <<>> THEN always[h] = {}
                 ELSE Len(got[h]) = Len(readdir_cache[h])

DirInv == DirTypes /\ CacheInv /\ \A h \in DOMAIN handles : PassInv(h)
-----------------------------------------------------------------------------
\* Whatever order the host lists a directory in, each name is there once.
LEMMA ListingOf ==
  ASSUME present \in SUBSET Names, NEW s \in Listings
  PROVE  /\ s \in Seq(Names) /\ Distinct(s)
         /\ \A n : n \in present <=> \E i \in 1 .. Len(s) : s[i] = n
<1>1. Cardinality(present) \in Nat
  BY DirAssumption, FS_Subset, FS_CardinalityType
<1>2. s \in [1 .. Cardinality(present) -> present]
  BY DEF Listings, Bijection, Injection
<1>3. Len(s) = Cardinality(present) /\ s \in Seq(Names)
  <2>1. s \in [1 .. Cardinality(present) -> Names]
    BY <1>2
  <2>2. QED
    BY <1>1, <2>1
<1>4. Distinct(s)
  <2>1. IsInjective(s)
    BY DEF Listings, Bijection, Injection
  <2>2. QED
    BY <1>2, <1>3, <2>1 DEF Distinct, IsInjective
<1>5. \A n \in present : \E i \in 1 .. Len(s) : s[i] = n
  BY <1>3 DEF Listings, Bijection, Surjection
<1>6. QED
  BY <1>2, <1>3, <1>4, <1>5

\* A reply continues what the guest has, and is empty only at the end.
LEMMA SliceContinues ==
  ASSUME NEW s \in Seq(Names), NEW entries \in Seq(Names), IsPartOf(s, entries),
         NEW fit \in Nat \ {0}
  PROVE  LET reply == Slice(entries, Len(s), fit)
         IN /\ reply \in Seq(Names)
            /\ s \o reply \in Seq(Names)
            /\ IsPartOf(s \o reply, entries)
            /\ reply = <<>> => Len(s) = Len(entries)
            /\ reply = <<>> => s \o reply = s
            /\ reply # <<>> => s \o reply # <<>>
<1> DEFINE off == Len(s)
           end == Min({off + fit, Len(entries)})
           reply == Slice(entries, off, fit)
<1>1. off \in Nat /\ Len(entries) \in Nat /\ off <= Len(entries)
  BY DEF IsPartOf
<1>2. /\ end \in Nat /\ end <= Len(entries) /\ off <= end
      /\ end = off => off = Len(entries)
  <2>1. \E x \in {off + fit, Len(entries)} : \A y \in {off + fit, Len(entries)} : x <= y
    BY <1>1
  <2>2. end \in {off + fit, Len(entries)} /\ \A y \in {off + fit, Len(entries)} : end <= y
    BY <2>1 DEF Min
  <2>3. QED
    BY <1>1, <2>2
<1> HIDE DEF end
<1>3. reply = SubSeq(entries, off + 1, end)
  BY DEF Slice, end
<1>4. \A i \in off + 1 .. end : entries[i] \in Names
  BY <1>1, <1>2, ElementOfSeq
<1>5. /\ reply \in Seq(Names)
      /\ Len(reply) = end - off
      /\ \A i \in 1 .. end - off : reply[i] = entries[off + i]
  <2>1. off + 1 \in Int /\ end \in Int
    BY <1>1, <1>2
  <2>2. /\ SubSeq(entries, off + 1, end) \in Seq(Names)
        /\ Len(SubSeq(entries, off + 1, end))
             = IF off + 1 <= end THEN end - (off + 1) + 1 ELSE 0
        /\ \A i \in 1 .. end - (off + 1) + 1 :
             SubSeq(entries, off + 1, end)[i] = entries[(off + 1) + i - 1]
    <3> HIDE DEF off
    <3>1. QED
      BY <1>4, <2>1, SubSeqProperties
  <2>3. QED
    BY <1>1, <1>2, <1>3, <2>2
<1> HIDE DEF reply
<1>6. /\ s \o reply \in Seq(Names)
      /\ Len(s \o reply) = off + Len(reply)
      /\ \A i \in 1 .. off + Len(reply) :
           (s \o reply)[i] = IF i <= off THEN s[i] ELSE reply[i - off]
  BY <1>5, ConcatProperties
<1>7. IsPartOf(s \o reply, entries)
  <2>1. Len(s \o reply) <= Len(entries)
    BY <1>1, <1>2, <1>5, <1>6
  <2>2. ASSUME NEW i \in 1 .. Len(s \o reply)
        PROVE  (s \o reply)[i] = entries[i]
    <3>1. CASE i <= off
      BY <1>1, <1>5, <1>6, <3>1 DEF IsPartOf
    <3>2. CASE i > off
      <4>1. i - off \in 1 .. end - off /\ off + (i - off) = i
        BY <1>1, <1>2, <1>5, <1>6, <3>2
      <4>2. QED
        BY <1>1, <1>5, <1>6, <3>2, <4>1
    <3>3. QED
      BY <1>1, <1>6, <3>1, <3>2
  <2>3. QED
    BY <2>1, <2>2 DEF IsPartOf
<1>8. reply = <<>> => off = Len(entries)
  BY <1>1, <1>2, <1>5
<1>9. reply = <<>> => s \o reply = s
  BY ConcatEmptySeq
<1>10. reply # <<>> => s \o reply # <<>>
  BY <1>1, <1>5, <1>6, EmptySeq
<1>11. QED
  BY <1>5, <1>6, <1>7, <1>8, <1>9, <1>10 DEF reply
-----------------------------------------------------------------------------
\* A session that has just started.
LEMMA DirInit == Init => DirInv
<1> SUFFICES ASSUME Init PROVE DirInv
  OBVIOUS
<1>1. handles = [h \in {} |-> [type |-> "File", fd |-> h]] /\ next_handle = 1
  BY DEF Init, HandleInit
<1>2. DOMAIN handles = {} /\ DOMAIN readdir_cache = {}
  BY <1>1 DEF Init
<1>3. HandleTypeOK
  BY <1>1, <1>2, HandleAssumption DEF HandleTypeOK
<1>4. DirTypes
  BY <1>3 DEF Init, DirTypes
<1>5. CacheInv
  BY <1>2 DEF CacheInv, SnapshotsOwned
<1>6. QED
  BY <1>2, <1>4, <1>5 DEF DirInv

\* The directory changes: a pass loses nothing it has, and the bounds on what
\* it must and may contain widen.
LEMMA ChangeStep ==
  ASSUME DirInv, NEW n \in Names, Change(n)
  PROVE  DirInv'
<1> USE DEF DirInv
<1>1. /\ present' \in SUBSET Names
      /\ always' = [h \in 1 .. MaxHandle |-> always[h] \cap present']
      /\ ever' = [h \in 1 .. MaxHandle |-> ever[h] \cup present']
      /\ UNCHANGED <<handles, next_handle, readdir_cache, got, ended>>
  BY DEF Change, DirTypes, handleVars
<1>2. DirTypes'
  BY <1>1 DEF DirTypes, HandleTypeOK, HandleData
<1>3. CacheInv'
  BY <1>1 DEF CacheInv, SnapshotsOwned
<1>4. ASSUME NEW h \in DOMAIN handles PROVE PassInv(h)'
  <2>1. h \in 1 .. MaxHandle
    BY DEF DirTypes, HandleTypeOK
  <2>2. always'[h] = always[h] \cap present' /\ ever'[h] = ever[h] \cup present'
    BY <1>1, <2>1
  <2>3. PassInv(h)
    OBVIOUS
  <2>4. QED
    BY <1>1, <2>2, <2>3 DEF PassInv, Lists
<1>5. QED
  BY <1>1, <1>2, <1>3, <1>4

\* A pass starts again on handle h; the other handles are not concerned.
LEMMA StartPass ==
  ASSUME DirTypes, NEW h \in 1 .. MaxHandle, FromTheStart(h)
  PROVE  /\ got' \in [1 .. MaxHandle -> Seq(Names)]
         /\ ended' \in [1 .. MaxHandle -> BOOLEAN]
         /\ always' \in [1 .. MaxHandle -> SUBSET Names]
         /\ ever' \in [1 .. MaxHandle -> SUBSET Names]
         /\ got'[h] = <<>> /\ ended'[h] = FALSE
         /\ always'[h] = present /\ ever'[h] = present
         /\ \A k \in 1 .. MaxHandle \ {h} :
              /\ got'[k] = got[k] /\ ended'[k] = ended[k]
              /\ always'[k] = always[k] /\ ever'[k] = ever[k]
<1>1. <<>> \in Seq(Names)
  OBVIOUS
<1>2. QED
  BY <1>1 DEF FromTheStart, DirTypes

\* A handle is opened; no snapshot has its number.
LEMMA OpendirStep ==
  ASSUME DirInv, Opendir
  PROVE  DirInv'
<1> USE DEF DirInv
<1>1. /\ next_handle \in 1 .. MaxHandle /\ FromTheStart(next_handle)
      /\ handles' = Put(handles, next_handle, [type |-> "Dir", fd |-> RootFile])
      /\ next_handle' = next_handle + 1
      /\ UNCHANGED <<readdir_cache, present>>
  BY DEF Opendir, InsertHandle, DirTypes, HandleTypeOK
<1>2. DOMAIN handles' = DOMAIN handles \cup {next_handle}
  BY <1>1 DEF Put
<1>3. HandleTypeOK'
  BY <1>1, <1>2, FsAssumption, HandleAssumption
     DEF DirTypes, HandleTypeOK, HandleData, Put
<1>4. /\ DirTypes
      /\ next_handle \notin DOMAIN handles
  BY DEF DirTypes, HandleTypeOK
<1> DEFINE n == next_handle
<1>5. /\ got' \in [1 .. MaxHandle -> Seq(Names)]
      /\ ended' \in [1 .. MaxHandle -> BOOLEAN]
      /\ always' \in [1 .. MaxHandle -> SUBSET Names]
      /\ ever' \in [1 .. MaxHandle -> SUBSET Names]
      /\ got'[n] = <<>> /\ ended'[n] = FALSE
      /\ always'[n] = present /\ ever'[n] = present
      /\ \A k \in 1 .. MaxHandle \ {n} :
           /\ got'[k] = got[k] /\ ended'[k] = ended[k]
           /\ always'[k] = always[k] /\ ever'[k] = ever[k]
  BY Zenon, <1>1, <1>4, StartPass
<1>6. DirTypes'
  BY <1>1, <1>3, <1>5 DEF DirTypes
<1>7. CacheInv'
  BY <1>1, <1>2 DEF CacheInv, SnapshotsOwned
<1>8. ASSUME NEW h \in DOMAIN handles' PROVE PassInv(h)'
  <2>1. CASE h = n
    BY <1>1, <1>5, <2>1 DEF PassInv
  <2>2. CASE h \in DOMAIN handles
    <3>1. h \in 1 .. MaxHandle \ {n} /\ PassInv(h)
      BY <1>4, <2>2 DEF DirTypes, HandleTypeOK
    <3>2. QED
      BY Zenon, <1>1, <1>5, <3>1 DEF PassInv
  <2>3. QED
    BY <1>2, <2>1, <2>2
<1>9. QED
  BY <1>6, <1>7, <1>8

\* The guest goes back to the beginning.
LEMMA RewindStep ==
  ASSUME DirInv, NEW h \in DOMAIN handles, Rewind(h)
  PROVE  DirInv'
<1> USE DEF DirInv
<1>1. /\ FromTheStart(h)
      /\ UNCHANGED <<handles, next_handle, readdir_cache, present>>
  BY DEF Rewind, handleVars
<1>2. DirTypes /\ h \in 1 .. MaxHandle
  BY DEF DirTypes, HandleTypeOK
<1>3. /\ got' \in [1 .. MaxHandle -> Seq(Names)]
      /\ ended' \in [1 .. MaxHandle -> BOOLEAN]
      /\ always' \in [1 .. MaxHandle -> SUBSET Names]
      /\ ever' \in [1 .. MaxHandle -> SUBSET Names]
      /\ got'[h] = <<>> /\ ended'[h] = FALSE
      /\ always'[h] = present /\ ever'[h] = present
      /\ \A k \in 1 .. MaxHandle \ {h} :
           /\ got'[k] = got[k] /\ ended'[k] = ended[k]
           /\ always'[k] = always[k] /\ ever'[k] = ever[k]
  BY Zenon, <1>1, <1>2, StartPass
<1>4. DirTypes'
  BY Zenon, <1>1, <1>3 DEF DirTypes, HandleTypeOK, HandleData
<1>5. CacheInv'
  BY <1>1 DEF CacheInv, SnapshotsOwned
<1>6. ASSUME NEW k \in DOMAIN handles PROVE PassInv(k)'
  <2>1. CASE k = h
    BY Zenon, <1>1, <1>3, <2>1 DEF PassInv
  <2>2. CASE k # h
    <3>1. k \in 1 .. MaxHandle \ {h} /\ PassInv(k)
      BY <2>2 DEF DirTypes, HandleTypeOK
    <3>2. QED
      BY Zenon, <1>1, <1>3, <3>1 DEF PassInv
  <2>3. QED
    BY <2>1, <2>2
<1>7. QED
  BY <1>1, <1>4, <1>5, <1>6

\* The guest goes back to an entry it has had.
LEMMA SeekBackStep ==
  ASSUME DirInv, NEW h \in DOMAIN handles, NEW offset \in Nat, SeekBack(h, offset)
  PROVE  DirInv'
<1> USE DEF DirInv
<1> DEFINE s == SubSeq(got[h], 1, offset)
<1>1. /\ 0 < offset /\ offset < Len(got[h])
      /\ got' = [got EXCEPT ![h] = s]
      /\ ended' = [ended EXCEPT ![h] = FALSE]
      /\ UNCHANGED <<handles, next_handle, readdir_cache, present, always, ever>>
  BY DEF SeekBack, handleVars
<1>2. h \in 1 .. MaxHandle /\ got[h] \in Seq(Names)
  BY DEF DirTypes, HandleTypeOK
<1>3. /\ s \in Seq(Names) /\ Len(s) = offset
      /\ \A i \in 1 .. offset : s[i] = got[h][i]
  <2>1. \A i \in 1 .. offset : got[h][i] \in Names
    BY <1>1, <1>2, ElementOfSeq
  <2>2. QED
    BY <1>1, <1>2, <2>1, SubSeqProperties
<1> HIDE DEF s
<1>4. DirTypes'
  BY Zenon, <1>1, <1>3 DEF DirTypes, HandleTypeOK, HandleData
<1>5. CacheInv'
  BY <1>1 DEF CacheInv, SnapshotsOwned
<1>6. ASSUME NEW k \in DOMAIN handles PROVE PassInv(k)'
  <2>1. CASE k = h
    <3>1. got'[h] = s /\ ended'[h] = FALSE
      BY <1>1, <1>2 DEF DirTypes
    <3>2. PassInv(h) /\ got[h] # <<>>
      BY <1>1, <1>2, EmptySeq
    <3>3. IsPartOf(s, readdir_cache[h])
      <4>1. IsPartOf(got[h], readdir_cache[h]) /\ readdir_cache[h] \in Seq(Names)
        BY Zenon, <3>2 DEF PassInv, CacheInv, DirTypes
      <4>2. Len(got[h]) \in Nat /\ Len(readdir_cache[h]) \in Nat
        BY <1>2, <4>1, LenProperties
      <4>3. Len(s) <= Len(got[h]) /\ Len(s) \in Nat /\ 1 .. Len(s) \subseteq 1 .. Len(got[h])
        BY <1>1, <1>3, <4>2
      <4>4. \A i \in 1 .. Len(s) : s[i] = got[h][i]
        BY <1>3
      <4> HIDE DEF s
      <4> QED
        BY <4>1, <4>2, <4>3, <4>4 DEF IsPartOf
    <3>4. QED
      BY Zenon, <1>1, <2>1, <3>1, <3>2, <3>3 DEF PassInv
  <2>2. CASE k # h
    <3>1. k \in 1 .. MaxHandle /\ PassInv(k)
      BY DEF DirTypes, HandleTypeOK
    <3>2. got'[k] = got[k] /\ ended'[k] = ended[k]
      BY <1>1, <2>2, <3>1 DEF DirTypes
    <3>3. QED
      BY Zenon, <1>1, <3>1, <3>2 DEF PassInv
  <2>3. QED
    BY <2>1, <2>2
<1>7. QED
  BY <1>1, <1>4, <1>5, <1>6

\* A READDIR at the start takes a snapshot; a later one goes on with the one its
\* pass began with.
LEMMA ReaddirStep ==
  ASSUME DirInv, NEW h \in DOMAIN handles, NEW fit \in 1 .. MaxFit, Readdir(h, fit)
  PROVE  DirInv'
<1> USE DEF DirInv
<1>1. h \in 1 .. MaxHandle /\ got[h] \in Seq(Names) /\ PassInv(h)
  BY DEF DirTypes, HandleTypeOK
<1>2. PICK entries \in Snapshots(h, Len(got[h])) :
        /\ readdir_cache' = Put(readdir_cache, h, entries)
        /\ got' = [got EXCEPT ![h] = got[h] \o Slice(entries, Len(got[h]), fit)]
        /\ ended' = [ended EXCEPT ![h] = (Slice(entries, Len(got[h]), fit) = <<>>)]
  BY Zenon DEF Readdir
<1>3. UNCHANGED <<handles, next_handle, present, always, ever>>
  BY Zenon DEF Readdir, handleVars
<1>4. /\ entries \in Seq(Names) /\ Distinct(entries)
      /\ IsPartOf(got[h], entries) /\ Lists(entries, always[h], ever[h])
      /\ got[h] = <<>> /\ Len(entries) = 0 => always[h] = {}
  <2>1. CASE got[h] = <<>>
    <3>1. Len(got[h]) = 0 /\ entries \in Listings
      BY <1>2, <2>1 DEF Snapshots
    <3>2. /\ entries \in Seq(Names) /\ Distinct(entries)
          /\ \A n : n \in present <=> \E i \in 1 .. Len(entries) : entries[i] = n
      BY <3>1, ListingOf DEF DirTypes
    <3>3. Len(entries) \in Nat /\ always[h] \subseteq present /\ present \subseteq ever[h]
      BY <1>1, <3>2 DEF PassInv
    <3>4. IsPartOf(got[h], entries)
      BY <3>1, <3>3 DEF IsPartOf
    <3>5. Lists(entries, always[h], ever[h])
      BY Zenon, <3>2, <3>3 DEF Lists
    <3>6. Len(entries) = 0 => always[h] = {}
      BY <3>5 DEF Lists
    <3>7. QED
      BY Zenon, <3>2, <3>4, <3>5, <3>6
  <2>2. CASE got[h] # <<>>
    <3>1. Len(got[h]) # 0 /\ h \in DOMAIN readdir_cache
      BY Zenon, <1>1, <2>2, EmptySeq DEF PassInv
    <3>2. entries = readdir_cache[h]
      BY Zenon, <1>2, <3>1 DEF Snapshots
    <3>3. QED
      BY Zenon, <1>1, <2>2, <3>1, <3>2 DEF PassInv, CacheInv
  <2>3. QED
    BY Zenon, <2>1, <2>2
<1> DEFINE reply == Slice(entries, Len(got[h]), fit)
           all == got[h] \o reply
<1>5. /\ all \in Seq(Names) /\ IsPartOf(all, entries)
      /\ reply = <<>> => Len(got[h]) = Len(entries)
      /\ reply = <<>> => all = got[h]
      /\ reply # <<>> => all # <<>>
  <2>1. fit \in Nat \ {0}
    BY DirAssumption
  <2>2. QED
    BY Zenon, <1>1, <1>4, <2>1, SliceContinues
<1>6. got' = [got EXCEPT ![h] = all] /\ ended' = [ended EXCEPT ![h] = (reply = <<>>)]
  BY Zenon, <1>2
<1> HIDE DEF reply, all
<1>7. DirTypes'
  <2>1. (reply = <<>>) \in BOOLEAN
    BY Zenon
  <2>2. ended' \in [1 .. MaxHandle -> BOOLEAN]
    BY Zenon, <1>6, <2>1 DEF DirTypes
  <2>3. got' \in [1 .. MaxHandle -> Seq(Names)]
    BY Zenon, <1>5, <1>6 DEF DirTypes
  <2>4. QED
    BY Zenon, <1>3, <2>2, <2>3 DEF DirTypes, HandleTypeOK, HandleData
<1>8. /\ DOMAIN readdir_cache' = DOMAIN readdir_cache \cup {h}
      /\ readdir_cache'[h] = entries
      /\ \A k \in DOMAIN readdir_cache \ {h} : readdir_cache'[k] = readdir_cache[k]
  BY Zenon, <1>2 DEF Put
<1>9. CacheInv'
  <2>1. SnapshotsOwned'
    BY Zenon, <1>3, <1>8 DEF CacheInv, SnapshotsOwned
  <2>2. ASSUME NEW k \in DOMAIN readdir_cache'
        PROVE  readdir_cache'[k] \in Seq(Names) /\ Distinct(readdir_cache'[k])
    BY Zenon, <1>4, <1>8 DEF CacheInv
  <2>3. QED
    BY Zenon, <2>1, <2>2 DEF CacheInv, Distinct
<1>10. ASSUME NEW k \in DOMAIN handles PROVE PassInv(k)'
  <2>1. CASE k = h
    <3>1. got'[h] = all /\ ended'[h] = (reply = <<>>)
      BY Zenon, <1>1, <1>6 DEF DirTypes
    <3>2. always[h] \subseteq present /\ present \subseteq ever[h]
      BY Zenon, <1>1 DEF PassInv
    <3>3. ended'[h] => IF all = <<>> THEN always[h] = {} ELSE Len(all) = Len(entries)
      <4>1. SUFFICES ASSUME reply = <<>>
                     PROVE  IF all = <<>> THEN always[h] = {} ELSE Len(all) = Len(entries)
        BY Zenon, <3>1
      <4>2. all = got[h] /\ Len(got[h]) = Len(entries)
        BY Zenon, <1>5, <4>1
      <4>3. all = <<>> => Len(entries) = 0
        BY Zenon, <4>2
      <4>4. QED
        BY Zenon, <1>4, <4>2, <4>3
    <3>4. QED
      BY Zenon, <1>3, <1>4, <1>5, <1>8, <2>1, <3>1, <3>2, <3>3 DEF PassInv
  <2>2. CASE k # h
    <3>1. k \in 1 .. MaxHandle /\ PassInv(k)
      BY Zenon DEF DirTypes, HandleTypeOK
    <3>2. got'[k] = got[k] /\ ended'[k] = ended[k]
      BY Zenon, <1>6, <2>2, <3>1 DEF DirTypes
    <3>3. k \in DOMAIN readdir_cache => k \in DOMAIN readdir_cache'
                                        /\ readdir_cache'[k] = readdir_cache[k]
      BY Zenon, <1>8, <2>2
    <3>4. ended[k] /\ got[k] # <<>> => readdir_cache'[k] = readdir_cache[k]
      BY Zenon, <3>1, <3>3 DEF PassInv
    <3>5. QED
      BY Zenon, <1>3, <3>1, <3>2, <3>3, <3>4 DEF PassInv
  <2>3. QED
    BY Zenon, <2>1, <2>2
<1>11. QED
  BY <1>3, <1>7, <1>9, <1>10

\* A handle and its snapshot go together.
LEMMA ReleasedirStep ==
  ASSUME DirInv, NEW h \in DOMAIN handles, Releasedir(h)
  PROVE  DirInv'
<1> USE DEF DirInv
<1>1. /\ handles' = Drop(handles, h) /\ readdir_cache' = Drop(readdir_cache, h)
      /\ UNCHANGED <<next_handle, present, got, ended, always, ever>>
  BY Zenon DEF Releasedir, RemoveHandle, guestVars
<1>2. /\ DOMAIN handles' = DOMAIN handles \ {h}
      /\ \A k \in DOMAIN handles \ {h} : handles'[k] = handles[k]
      /\ DOMAIN readdir_cache' = DOMAIN readdir_cache \ {h}
      /\ \A k \in DOMAIN readdir_cache \ {h} : readdir_cache'[k] = readdir_cache[k]
  BY Zenon, <1>1 DEF Drop
<1>3. DirTypes'
  BY Zenon, <1>1, <1>2 DEF DirTypes, HandleTypeOK, HandleData, Drop
<1>4. CacheInv'
  <2>1. ASSUME NEW k \in DOMAIN readdir_cache'
        PROVE  readdir_cache'[k] \in Seq(Names) /\ Distinct(readdir_cache'[k])
    BY Zenon, <1>2 DEF CacheInv
  <2>2. SnapshotsOwned'
    BY Zenon, <1>2 DEF CacheInv, SnapshotsOwned
  <2>3. QED
    BY Zenon, <2>1, <2>2 DEF CacheInv, Distinct
<1>5. ASSUME NEW k \in DOMAIN handles' PROVE PassInv(k)'
  <2>1. k # h /\ PassInv(k)
    BY Zenon, <1>2
  <2>2. k \in DOMAIN readdir_cache => k \in DOMAIN readdir_cache'
                                      /\ readdir_cache'[k] = readdir_cache[k]
    BY Zenon, <1>2, <2>1
  <2>3. QED
    BY Zenon, <1>1, <2>1, <2>2 DEF PassInv
<1>6. QED
  BY Zenon, <1>3, <1>4, <1>5
-----------------------------------------------------------------------------
\* What the passes are worth, from the invariant.
LEMMA DirInvImplies == DirInv => ListedOnce /\ ListedAll /\ SnapshotsOwned
<1> SUFFICES ASSUME DirInv PROVE ListedOnce /\ ListedAll /\ SnapshotsOwned
  OBVIOUS
<1> USE DEF DirInv
<1>1. ASSUME NEW h \in DOMAIN handles
      PROVE  /\ \A i, j \in 1 .. Len(got[h]) : got[h][i] = got[h][j] => i = j
             /\ ended[h] => \A n \in always[h] : \E i \in 1 .. Len(got[h]) : got[h][i] = n
             /\ \A i \in 1 .. Len(got[h]) : got[h][i] \in ever[h]
  <2>1. PassInv(h) /\ got[h] \in Seq(Names)
    BY Zenon DEF DirTypes, HandleTypeOK
  <2>2. CASE got[h] = <<>>
    <3>1. Len(got[h]) = 0
      BY <2>2
    <3>2. QED
      BY <2>1, <2>2, <3>1 DEF PassInv
  <2>3. CASE got[h] # <<>>
    <3> DEFINE t == readdir_cache[h]
    <3>1. /\ t \in Seq(Names) /\ Distinct(t)
          /\ IsPartOf(got[h], t) /\ Lists(t, always[h], ever[h])
          /\ ended[h] => Len(got[h]) = Len(t)
      BY Zenon, <2>1, <2>3 DEF PassInv, CacheInv
    <3>2. Len(t) \in Nat /\ Len(got[h]) \in Nat
      BY <2>1, <3>1
    <3> HIDE DEF t
    <3>3. \A i \in 1 .. Len(got[h]) : i \in 1 .. Len(t) /\ got[h][i] = t[i]
      BY <3>1, <3>2 DEF IsPartOf
    <3>4. QED
      BY Zenon, <3>1, <3>3 DEF Distinct, Lists
  <2>4. QED
    BY Zenon, <2>2, <2>3
<1>2. QED
  BY Zenon, <1>1 DEF ListedOnce, ListedAll, CacheInv

\* The invariant holds throughout a session.
LEMMA DirInvariant == Spec => []DirInv
<1>1. DirInv /\ [Next]_vars => DirInv'
  <2> SUFFICES ASSUME DirInv, [Next]_vars PROVE DirInv'
    OBVIOUS
  <2>1. CASE \E n \in Names : Change(n)
    BY Zenon, <2>1, ChangeStep
  <2>2. CASE Opendir
    BY Zenon, <2>2, OpendirStep
  <2>3. ASSUME NEW h \in DOMAIN handles, Rewind(h) PROVE DirInv'
    BY Zenon, <2>3, RewindStep
  <2>4. ASSUME NEW h \in DOMAIN handles,
               NEW offset \in 1 .. Len(got[h]), SeekBack(h, offset)
        PROVE  DirInv'
    <3>1. Len(got[h]) \in Nat
      BY DEF DirInv, DirTypes, HandleTypeOK
    <3>2. offset \in Nat
      BY <3>1
    <3>3. QED
      BY Zenon, <2>4, <3>2, SeekBackStep
  <2>5. ASSUME NEW h \in DOMAIN handles, NEW fit \in 1 .. MaxFit, Readdir(h, fit)
        PROVE  DirInv'
    BY Zenon, <2>5, ReaddirStep
  <2>6. ASSUME NEW h \in DOMAIN handles, Releasedir(h) PROVE DirInv'
    BY <2>6, ReleasedirStep
  <2>7. CASE UNCHANGED vars
    BY Zenon, <2>7 DEF vars, handleVars, guestVars, DirInv, DirTypes, HandleTypeOK,
                HandleData, CacheInv, SnapshotsOwned, PassInv
  <2>8. QED
    BY Zenon, <2>1, <2>2, <2>3, <2>4, <2>5, <2>6, <2>7 DEF Next
<1>2. QED
  BY <1>1, DirInit, PTL DEF Spec

\* No pass over a directory lists a name twice, though names come and go between
\* its READDIR calls: a pass is served from the snapshot taken at its start.
THEOREM PassListsOnce == Spec => []ListedOnce
BY DirInvariant, DirInvImplies, PTL

\* A pass that has seen the end has listed every name there throughout, and no
\* pass lists a name that was not there since it began.
THEOREM PassListsAll == Spec => []ListedAll
BY DirInvariant, DirInvImplies, PTL

\* RELEASEDIR takes the handle's snapshot with it, so the cache holds no more
\* snapshots than there are handles open.
THEOREM CacheOwned == Spec => []SnapshotsOwned
BY DirInvariant, DirInvImplies, PTL
=============================================================================
