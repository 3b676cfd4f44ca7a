------------------------------ MODULE FuseAbi ------------------------------
(***************************************************************************)
(* The guest kernel's side of the wire (external: linux/fuse.h): the       *)
(* layout of requests and replies, and how requests are written and        *)
(* replies read.                                                           *)
(***************************************************************************)
EXTENDS FuseBytes, SequencesExt

Opcodes ==
  [Lookup |-> 1, Forget |-> 2, Getattr |-> 3, Setattr |-> 4, Readlink |-> 5,
   Symlink |-> 6, Mkdir |-> 9, Unlink |-> 10, Rmdir |-> 11, Rename |-> 12,
   Link |-> 13, Open |-> 14, Read |-> 15, Write |-> 16, Statfs |-> 17,
   Release |-> 18, Fsync |-> 20, Setxattr |-> 21, Getxattr |-> 22,
   Listxattr |-> 23, Removexattr |-> 24, Flush |-> 25, Init |-> 26,
   Opendir |-> 27, Readdir |-> 28, Releasedir |-> 29, Fsyncdir |-> 30,
   Access |-> 34, Create |-> 35, Destroy |-> 38, BatchForget |-> 42,
   Rename2 |-> 45, Lseek |-> 46]

fuse_in_header ==
  <<U32("len"), U32("opcode"), U64("unique"), U64("nodeid"), U32("uid"),
    U32("gid"), U32("pid"), U16("total_extlen"), U16("padding")>>

\* The struct of a request, or none.
InStruct(op) ==
  CASE op = "Forget" -> <<U64("nlookup")>>
    [] op = "Getattr" -> <<U32("getattr_flags"), U32("dummy"), U64("fh")>>
    [] op = "Setattr" ->
         <<U32("valid"), U32("padding"), U64("fh"), U64("size"),
           U64("lock_owner"), U64("atime"), U64("mtime"), U64("ctime"),
           U32("atimensec"), U32("mtimensec"), U32("ctimensec"), U32("mode"),
           U32("unused4"), U32("uid"), U32("gid"), U32("unused5")>>
    [] op = "Mkdir" -> <<U32("mode"), U32("umask")>>
    [] op = "Rename" -> <<U64("newdir")>>
    [] op = "Rename2" -> <<U64("newdir"), U32("flags"), U32("padding")>>
    [] op = "Link" -> <<U64("oldnodeid")>>
    [] op \in {"Open", "Opendir"} -> <<U32("flags"), U32("open_flags")>>
    [] op = "Create" ->
         <<U32("flags"), U32("mode"), U32("umask"), U32("open_flags")>>
    [] op \in {"Read", "Readdir"} ->
         <<U64("fh"), U64("offset"), U32("size"), U32("read_flags"),
           U64("lock_owner"), U32("flags"), U32("padding")>>
    [] op = "Write" ->
         <<U64("fh"), U64("offset"), U32("size"), U32("write_flags"),
           U64("lock_owner"), U32("flags"), U32("padding")>>
    [] op \in {"Release", "Releasedir"} ->
         <<U64("fh"), U32("flags"), U32("release_flags"), U64("lock_owner")>>
    [] op \in {"Fsync", "Fsyncdir"} ->
         <<U64("fh"), U32("fsync_flags"), U32("padding")>>
    [] op = "Flush" ->
         <<U64("fh"), U32("unused"), U32("padding"), U64("lock_owner")>>
    [] op = "Init" ->
         <<U32("major"), U32("minor"), U32("max_readahead"), U32("flags"),
           U32("flags2")>>
    [] op = "Access" -> <<U32("mask"), U32("padding")>>
    [] op = "BatchForget" -> <<U32("count"), U32("dummy")>>
    [] op \in {"Getxattr", "Listxattr"} -> <<U32("size"), U32("padding")>>
    [] op = "Setxattr" -> <<U32("size"), U32("flags")>>
    [] OTHER -> <<>>

fuse_forget_one == <<U64("nodeid"), U64("nlookup")>>
-----------------------------------------------------------------------------
(***************************************************************************)
(* A request: opcode, the values of fields that matter (any other field    *)
(* has a value of its own), names, data, and the inodes of a BATCH_FORGET. *)
(***************************************************************************)
Field(req, f) == IF f \in DOMAIN req.vals THEN req.vals[f] ELSE <<f, 0>>

Written(format, val(_)) ==
  FlattenSeq([k \in DOMAIN format |->
                Cells(val(format[k].field), format[k].cells)])

NameCells(name) == Append(Cells(name, name[2]), Nul)

ForgetCells(k) == Written(fuse_forget_one, LAMBDA f : <<f, k>>)

RequestBody(req) ==
  Written(InStruct(req.op), LAMBDA f : Field(req, f))
    \o FlattenSeq([k \in DOMAIN req.names |-> NameCells(req.names[k])])
    \o req.data
    \o FlattenSeq([k \in 1 .. req.batch |-> ForgetCells(k)])

RequestCells(req) ==
  LET body == RequestBody(req)
      header(f) == CASE f = "len" -> Const(20 + Len(body))
                     [] f = "opcode" -> <<"opcode", Opcodes[req.op]>>
                     [] f = "uid" -> <<"caller_uid", 0>>
                     [] f = "gid" -> <<"caller_gid", 0>>
                     [] OTHER -> <<f, 0>>
  IN Written(fuse_in_header, header) \o body
-----------------------------------------------------------------------------
fuse_out_header == <<U32("len"), U32("error"), U64("unique")>>

fuse_attr ==
  <<U64("ino"), U64("size"), U64("blocks"), U64("atime"), U64("mtime"),
    U64("ctime"), U32("atimensec"), U32("mtimensec"), U32("ctimensec"),
    U32("mode"), U32("nlink"), U32("uid"), U32("gid"), U32("rdev"),
    U32("blksize"), U32("flags")>>

fuse_attr_out ==
  <<U64("attr_valid"), U32("attr_valid_nsec"), U32("dummy")>> \o fuse_attr

fuse_entry_out ==
  <<U64("nodeid"), U64("generation"), U64("entry_valid"), U64("attr_valid"),
    U32("entry_valid_nsec"), U32("attr_valid_nsec")>> \o fuse_attr

fuse_open_out == <<U64("fh"), U32("open_flags"), U32("backing_id")>>

fuse_statfs_out ==
  <<U64("blocks"), U64("bfree"), U64("bavail"), U64("files"), U64("ffree"),
    U32("bsize"), U32("namelen"), U32("frsize"), U32("padding"), Skip(24)>>

fuse_init_out ==
  <<U32("major"), U32("minor"), U32("max_readahead"), U32("flags"),
    U16("max_background"), U16("congestion_threshold"), U32("max_write"),
    U32("time_gran"), U16("max_pages"), U16("map_alignment"), U32("flags2"),
    U32("max_stack_depth"), U16("request_timeout"), Skip(22)>>

\* The struct of a successful reply.
OutStruct(op) ==
  CASE op \in {"Lookup", "Symlink", "Mkdir", "Link"} -> fuse_entry_out
    [] op \in {"Getattr", "Setattr"} -> fuse_attr_out
    [] op \in {"Open", "Opendir"} -> fuse_open_out
    [] op = "Create" -> fuse_entry_out \o fuse_open_out
    [] op = "Write" -> <<U32("size"), U32("padding")>>
    [] op = "Statfs" -> fuse_statfs_out
    [] op = "Init" -> fuse_init_out
    [] OTHER -> <<>>

\* Replies that may have any length, up to what was asked for.
Variable(op) == op \in {"Readlink", "Read", "Readdir"}

\* The entries of a READDIR reply.
fuse_dirent == <<U64("ino"), U64("off"), U32("namelen"), U32("type")>>

RECURSIVE Dirents(_)
Dirents(buf) ==
  LET d == Read(fuse_dirent, buf)
  IN IF ~d.ok THEN <<>>
     ELSE LET n == Num(d.got.namelen)
              padded == ((12 + n + 3) \div 4) * 4
          IN IF n = 0 \/ Len(buf) < padded THEN <<>>
             ELSE <<[ino |-> d.got.ino, off |-> d.got.off, type |-> d.got.type,
                     name |-> Value(SubSeq(buf, 13, 12 + n))]>>
                    \o Dirents(From(buf, padded))
=============================================================================
