---------------------------- MODULE MCDirSession ----------------------------
(***************************************************************************)
(* Small instances of DirSession for TLC.                                  *)
(***************************************************************************)
EXTENDS DirSession

Symmetry == Permutations(Names)
=============================================================================
