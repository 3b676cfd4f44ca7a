--------------------------- MODULE MCFuseDispatch ---------------------------
(* Instances of FuseDispatch for TLC. *)
EXTENDS FuseDispatch

Ask(op, names) ==
  [op |-> op, vals |-> [none |-> Junk], names |-> names, data |-> <<>>,
   batch |-> 0]
With(req, f, x) == [req EXCEPT !.vals = (f :> <<f, x>>) @@ @]

A == <<"name_a", 1>>
B == <<"name_b", 3>>

Plain ==
  {Ask(op, <<>>) : op \in {"Forget", "Getattr", "Readlink", "Open", "Opendir",
     "Statfs", "Release", "Fsync", "Flush", "Init", "Releasedir", "Fsyncdir",
     "Access", "Destroy", "Listxattr", "Lseek"}}
Named ==
  {Ask(op, <<B>>) : op \in {"Lookup", "Mkdir", "Unlink", "Rmdir", "Link",
     "Create", "Getxattr", "Setxattr", "Removexattr"}}
Renames == {Ask(op, <<A, B>>) : op \in {"Rename", "Rename2", "Symlink"}}
Reads == {With(With(Ask("Read", <<>>), "size", 2), "offset", 1)}
Writes ==
  {[With(Ask("Write", <<>>), "size", n) EXCEPT !.data = Data(n)] : n \in 0 .. 2}
Batches ==
  {[With(Ask("BatchForget", <<>>), "count", n) EXCEPT !.batch = n] : n \in 0 .. 2}

\* A time is set to now or to a value; the guest sets both flags for now.
Valid ==
  {{}, {"MODE"}, {"UID", "GID"}, {"SIZE", "MTIME", "MTIME_NOW"},
   {"ATIME", "ATIME_NOW", "MTIME"},
   {"SIZE", "MODE", "UID", "GID", "ATIME", "MTIME"}}
Setattrs == {With(Ask("Setattr", <<>>), "valid", v) : v \in Valid}

Readdirs ==
  {With(With(Ask("Readdir", <<>>), "size", n), "offset", k) :
     n \in {15, 16, 56}, k \in {0, 1, 3}}

Requested ==
  Plain \cup Named \cup Renames \cup Reads \cup Writes \cup Batches
    \cup Setattrs \cup Readdirs

Entries ==
  <<[ino |-> <<"d_ino", 1>>, name |-> A, kind |-> "Dir"],
    [ino |-> <<"d_ino", 2>>, name |-> <<"name_c", 5>>, kind |-> "Symlink"],
    [ino |-> <<"d_ino", 3>>, name |-> B, kind |-> "Regular"]>>
=============================================================================
