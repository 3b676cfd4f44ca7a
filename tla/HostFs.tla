------------------------------- MODULE HostFs -------------------------------
(***************************************************************************)
(* The host file system under the shared directory, as the *at() system    *)
(* calls of riftlessfs-core see it.  It is not part of the repository: the *)
(* operators below are the POSIX behaviour of the calls the code makes,    *)
(* and the operators Host... are other processes of the host that work in  *)
(* the same directory.                                                     *)
(*                                                                         *)
(* A file lives as long as it has a name or an open fd; after that its     *)
(* inode number may be given to a new file, which is how an element of     *)
(* Files is used more than once.  The set of files with an open fd is the  *)
(* parameter open.                                                         *)
(***************************************************************************)
EXTENDS FsTypes

VARIABLES
  kind,   \* kind[f]: "dir", "reg" or "lnk" (a symbolic link)
  dents   \* dents[d][n]: the file that directory d holds under name n, or Nil

hostVars == <<kind, dents>>

Kinds == {"dir", "reg", "lnk"}

HostInit ==
  /\ kind = [f \in Files |-> IF f = RootFile THEN "dir" ELSE "reg"]
  /\ dents = [d \in Files |-> [n \in Names |-> Nil]]

Linked(f) == f = RootFile \/ \E d \in Files, n \in Names : dents[d][n] = f
IsEmpty(d) == \A n \in Names : dents[d][n] = Nil

\* What name resolves to relative to an fd open on d; the root's empty name
\* resolves to nothing (ENOENT).
At(d, name) == IF name \in Names THEN dents[d][name] ELSE Nil

\* Where opening f ends when links are followed.  The text of a link is not
\* modelled: it may lead to any file that has a name, or to none (Nil).
Resolves(f) ==
  IF f # Nil /\ kind[f] = "lnk"
  THEN {g \in Files : Linked(g) /\ kind[g] # "lnk"} \cup {Nil}
  ELSE {f}

\* The directory d lies in the tree below top (or is top).
InSubtree(top, d) ==
  \A S \in SUBSET Files :
    (/\ top \in S
     /\ \A x \in S, n \in Names : dents[x][n] # Nil => dents[x][n] \in S)
    => d \in S
-----------------------------------------------------------------------------
\* mkdirat, symlinkat and openat with O_CREAT | O_EXCL: the new file is f.
CanMake(d, n) == kind[d] = "dir" /\ Linked(d) /\ dents[d][n] = Nil

MakeAt(d, n, k, f, open) ==
  /\ CanMake(d, n)
  /\ ~Linked(f) /\ f \notin open
  /\ kind' = [kind EXCEPT ![f] = k]
  /\ dents' = [dents EXCEPT ![d][n] = f]

\* unlinkat, with and without AT_REMOVEDIR.
UnlinkAt(d, n) ==
  /\ dents[d][n] # Nil
  /\ kind[dents[d][n]] # "dir"
  /\ dents' = [dents EXCEPT ![d][n] = Nil]
  /\ UNCHANGED kind

RmdirAt(d, n) ==
  /\ dents[d][n] # Nil
  /\ kind[dents[d][n]] = "dir" /\ IsEmpty(dents[d][n])
  /\ dents' = [dents EXCEPT ![d][n] = Nil]
  /\ UNCHANGED kind

\* renameat.  A directory replaces only an empty directory, another file
\* only a file that is not one; a directory does not move below itself; and
\* two names of one file are left alone.
MayReplace(f, g) ==
  IF kind[f] = "dir" THEN kind[g] = "dir" /\ IsEmpty(g) ELSE kind[g] # "dir"

RenameAt(d, n, d2, n2) ==
  LET f == dents[d][n]
      g == dents[d2][n2]
  IN /\ f # Nil
     /\ kind[d2] = "dir" /\ Linked(d2)
     /\ kind[f] = "dir" => ~InSubtree(f, d2)
     /\ g # Nil => MayReplace(f, g)
     /\ dents' = IF f = g THEN dents
                 ELSE [dents EXCEPT ![d][n] = Nil, ![d2][n2] = f]
     /\ UNCHANGED kind

\* linkat: a second name for a file that has one.
LinkAt(f, d, n) ==
  /\ kind[f] # "dir" /\ Linked(f)
  /\ CanMake(d, n)
  /\ dents' = [dents EXCEPT ![d][n] = f]
  /\ UNCHANGED kind
-----------------------------------------------------------------------------
HostTypeOK ==
  /\ kind \in [Files -> Kinds]
  /\ dents \in [Files -> [Names -> Files \cup {Nil}]]
=============================================================================
