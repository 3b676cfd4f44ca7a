----------------------------- MODULE DirSession -----------------------------
(***************************************************************************)
(* READDIR (dispatch.rs): a directory is listed once per handle, and later *)
(* calls are served slices of that snapshot, while the directory changes.  *)
(*                                                                         *)
(* One directory, RootFile, is open on any number of handles.  An entry is *)
(* its name, and a reply is cut after as many entries as fit its buffer    *)
(* (push_dirent): at least one, as the guest offers a page or more.        *)
(***************************************************************************)
EXTENDS HandleStore, SequencesExt

CONSTANTS
  MaxFit,      \* bound of the model: entries that fit in a reply
  MaxChanges   \* bound of the model: changes to the directory

ASSUME DirAssumption ==
  /\ MaxFit \in Nat \ {0} /\ MaxChanges \in Nat
  /\ IsFiniteSet(Names)

VARIABLES
  readdir_cache,  \* Session: handle -> the snapshot it is served from
  present,        \* the names in the directory
  changes,        \* how often it has changed
  got,            \* got[h]: the guest's listing so far; its length is the offset
  ended,          \* ended[h]: the guest has seen the end
  always,         \* always[h]: names there since h's listing began
  ever            \* ever[h]: names there at some time since then

guestVars == <<got, ended, always, ever>>
vars == <<handleVars, readdir_cache, present, changes, guestVars>>

Init ==
  /\ HandleInit
  /\ readdir_cache = [h \in {} |-> <<>>]
  /\ present \in SUBSET Names
  /\ changes = 0
  /\ got = [h \in 1 .. MaxHandle |-> <<>>]
  /\ ended = [h \in 1 .. MaxHandle |-> FALSE]
  /\ always = [h \in 1 .. MaxHandle |-> {}]
  /\ ever = [h \in 1 .. MaxHandle |-> {}]

\* Somebody adds a name to the directory or removes one.
Change(n) ==
  /\ changes < MaxChanges
  /\ present' = IF n \in present THEN present \ {n} ELSE present \cup {n}
  /\ changes' = changes + 1
  /\ always' = [h \in DOMAIN always |-> always[h] \cap present']
  /\ ever' = [h \in DOMAIN ever |-> ever[h] \cup present']
  /\ UNCHANGED <<handleVars, readdir_cache, got, ended>>

\* The guest starts a listing of handle h: it has nothing and is at offset 0.
FromTheStart(h) ==
  /\ got' = [got EXCEPT ![h] = <<>>]
  /\ ended' = [ended EXCEPT ![h] = FALSE]
  /\ always' = [always EXCEPT ![h] = present]
  /\ ever' = [ever EXCEPT ![h] = present]

Opendir ==
  /\ next_handle <= MaxHandle
  /\ InsertHandle("Dir", RootFile)
  /\ FromTheStart(next_handle)
  /\ UNCHANGED <<readdir_cache, present, changes>>

\* rewinddir, and seekdir to where the guest has been (external).
Rewind(h) ==
  /\ h \in DOMAIN handles
  /\ FromTheStart(h)
  /\ UNCHANGED <<handleVars, readdir_cache, present, changes>>

SeekBack(h, offset) ==
  /\ h \in DOMAIN handles /\ 0 < offset /\ offset < Len(got[h])
  /\ got' = [got EXCEPT ![h] = SubSeq(@, 1, offset)]
  /\ ended' = [ended EXCEPT ![h] = FALSE]
  /\ UNCHANGED <<handleVars, readdir_cache, present, changes, always, ever>>

\* PassthroughFs::readdir: the names that are there, in the host's order.
Listings == Bijection(1 .. Cardinality(present), present)

\* Mutant: every READDIR lists the directory afresh.
SnapshotsAfresh(h, offset) == Listings

\* The snapshot a READDIR at offset is served from.
Snapshots(h, offset) ==
  IF offset = 0 \/ h \notin DOMAIN readdir_cache THEN Listings
  ELSE {readdir_cache[h]}

\* Mutant: the entry at the offset is skipped.
SliceSkips(entries, offset, fit) ==
  SubSeq(entries, offset + 2, Min({offset + 1 + fit, Len(entries)}))

Slice(entries, offset, fit) ==
  SubSeq(entries, offset + 1, Min({offset + fit, Len(entries)}))

Readdir(h, fit) ==
  /\ h \in DOMAIN handles
  /\ \E entries \in Snapshots(h, Len(got[h])) :
       LET reply == Slice(entries, Len(got[h]), fit)
       IN /\ readdir_cache' = Put(readdir_cache, h, entries)
          /\ got' = [got EXCEPT ![h] = @ \o reply]
          /\ ended' = [ended EXCEPT ![h] = (reply = <<>>)]
  /\ UNCHANGED <<handleVars, present, changes, always, ever>>

\* Mutant: the snapshot outlives its handle.
ReleasedirKeepsCache(h) ==
  /\ RemoveHandle(h)
  /\ UNCHANGED <<readdir_cache, present, changes, guestVars>>

Releasedir(h) ==
  /\ RemoveHandle(h)
  /\ readdir_cache' = Drop(readdir_cache, h)
  /\ UNCHANGED <<present, changes, guestVars>>

Next ==
  \/ \E n \in Names : Change(n)
  \/ Opendir
  \/ \E h \in DOMAIN handles :
       \/ Rewind(h)
       \/ \E offset \in 1 .. Len(got[h]) : SeekBack(h, offset)
       \/ \E fit \in 1 .. MaxFit : Readdir(h, fit)
       \/ Releasedir(h)

Spec == Init /\ [][Next]_vars
-----------------------------------------------------------------------------
\* No name is listed twice in one pass over a directory, however often the
\* directory changes between the READDIR calls of the pass.
ListedOnce ==
  \A h \in DOMAIN handles :
    \A i, j \in 1 .. Len(got[h]) : got[h][i] = got[h][j] => i = j

\* When the guest sees the end, it has been given every name that was there
\* throughout the pass, and no name that never was.
ListedAll ==
  \A h \in DOMAIN handles :
    /\ ended[h] => \A n \in always[h] : \E i \in 1 .. Len(got[h]) : got[h][i] = n
    /\ \A i \in 1 .. Len(got[h]) : got[h][i] \in ever[h]

\* A snapshot lives no longer than the handle it was taken for.
SnapshotsOwned == DOMAIN readdir_cache \subseteq DOMAIN handles
=============================================================================
