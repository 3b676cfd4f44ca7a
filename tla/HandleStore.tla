----------------------------- MODULE HandleStore ----------------------------
(***************************************************************************)
(* The table of open file and directory handles of riftlessfs-core         *)
(* (handle.rs): handles maps a handle id to the fd it owns.  A handle      *)
(* keeps the file it was opened on, whatever happens to the file's names.  *)
(***************************************************************************)
EXTENDS FsTypes

CONSTANT
  MaxHandle   \* bound of the model: handle ids stop here

ASSUME HandleAssumption == MaxHandle \in Nat

VARIABLES handles, next_handle

handleVars == <<handles, next_handle>>

HandleData == [type: {"File", "Dir"}, fd: Files]

HandleInit ==
  /\ handles = [h \in {} |-> [type |-> "File", fd |-> h]]
  /\ next_handle = 1

InsertHandle(type, fd) ==
  /\ handles' = Put(handles, next_handle, [type |-> type, fd |-> fd])
  /\ next_handle' = next_handle + 1

RemoveHandle(h) ==
  /\ h \in DOMAIN handles
  /\ handles' = Drop(handles, h)
  /\ UNCHANGED next_handle
-----------------------------------------------------------------------------
HandleTypeOK ==
  /\ DOMAIN handles \subseteq 1 .. MaxHandle
  /\ \A h \in DOMAIN handles : handles[h] \in HandleData /\ h < next_handle
  /\ next_handle \in 1 .. (MaxHandle + 1)
=============================================================================
