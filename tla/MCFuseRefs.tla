----------------------------- MODULE MCFuseRefs -----------------------------
(***************************************************************************)
(* Small instances of FuseRefs for TLC.                                    *)
(***************************************************************************)
EXTENDS FuseRefs, TLC

Symmetry == Permutations(Files \ {RootFile})
=============================================================================
