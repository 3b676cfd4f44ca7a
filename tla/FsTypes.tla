------------------------------- MODULE FsTypes ------------------------------
(***************************************************************************)
(* The vocabulary shared by the modules of riftlessfs-core.                *)
(***************************************************************************)
EXTENDS Naturals

CONSTANTS
  Files,     \* host inodes
  RootFile,  \* the shared directory itself
  Names,     \* names of directory entries
  Nil        \* "no file", "no parent", and the empty name of the root

ASSUME FsAssumption ==
  /\ RootFile \in Files
  /\ Nil \notin Files
  /\ Nil \notin Names
  /\ Nil \notin Nat

\* HashMap::insert and HashMap::remove.
Put(f, k, v) == [x \in DOMAIN f \cup {k} |-> IF x = k THEN v ELSE f[x]]
Drop(f, k) == [x \in DOMAIN f \ {k} |-> f[x]]
=============================================================================
