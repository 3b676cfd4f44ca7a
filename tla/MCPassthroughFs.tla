--------------------------- MODULE MCPassthroughFs --------------------------
(***************************************************************************)
(* Small instances of PassthroughFs for TLC.                               *)
(***************************************************************************)
EXTENDS PassthroughFs, TLC

\* Files other than the root, and names, are interchangeable.
Symmetry == Permutations(Files \ {RootFile}) \cup Permutations(Names)

\* Requests that take no name away from a file and give none a second.
NamingOps == {"lookup", "mkdir", "create", "rename", "open", "opendir",
              "setattr", "forget", "release"}
AllOps == NamingOps \cup {"symlink", "readlink", "unlink", "rmdir",
                          "replace", "link"}

\* Enough to reuse a name whose inode is still referenced.
StaleTruncateOps == {"create", "unlink", "setattr"}

SizeOnly == {{"size"}}
AllAttrs == {{"size", "mode", "owner", "times"}, {"mode", "times"}}
=============================================================================
