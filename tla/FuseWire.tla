------------------------------ MODULE FuseWire ------------------------------
(***************************************************************************)
(* The daemon's side of the wire (wire.rs) and the attributes it sends     *)
(* (attr.rs): the formats that requests are read with, and the cells that  *)
(* replies are written to.                                                 *)
(***************************************************************************)
EXTENDS FuseBytes, SequencesExt

IN_HEADER_LEN == 20       \* in cells
OUT_HEADER_LEN == 8
INIT_OUT_LEN == 32
INIT_OUT_MINOR == 31
MAX_WRITE == 1048576
ASSUMED_GUEST_PAGE_SIZE == 4096
CACHE_TIMEOUT_SECS == 1

\* InHeader::from_bytes and InHeader::body.
InHeader ==
  <<U32("len"), U32("opcode"), U64("unique"), U64("nodeid"), U32("uid"),
    U32("gid"), U32("pid"), Skip(4)>>

Body(buf) == From(buf, IN_HEADER_LEN)

\* Opcode::from.
Opcode(v) ==
  CASE v = 1 -> "Lookup" [] v = 2 -> "Forget" [] v = 3 -> "Getattr"
    [] v = 4 -> "Setattr" [] v = 5 -> "Readlink" [] v = 6 -> "Symlink"
    [] v = 9 -> "Mkdir" [] v = 10 -> "Unlink" [] v = 11 -> "Rmdir"
    [] v = 12 -> "Rename" [] v = 13 -> "Link" [] v = 14 -> "Open"
    [] v = 15 -> "Read" [] v = 16 -> "Write" [] v = 17 -> "Statfs"
    [] v = 18 -> "Release" [] v = 20 -> "Fsync" [] v = 21 -> "Setxattr"
    [] v = 22 -> "Getxattr" [] v = 23 -> "Listxattr"
    [] v = 24 -> "Removexattr" [] v = 25 -> "Flush" [] v = 26 -> "Init"
    [] v = 27 -> "Opendir" [] v = 28 -> "Readdir" [] v = 29 -> "Releasedir"
    [] v = 30 -> "Fsyncdir" [] v = 34 -> "Access" [] v = 35 -> "Create"
    [] v = 38 -> "Destroy" [] v = 42 -> "BatchForget" [] v = 45 -> "Rename2"
    [] OTHER -> "Unknown"
-----------------------------------------------------------------------------
(* The *In::from_bytes. *)
InitIn == <<U32("major"), U32("minor"), U32("max_readahead")>>
GetattrIn == <<U32("flags"), Skip(4), U64("fh")>>

\* Mutant: the lock owner is not skipped.
SetattrInUnskipped ==
  <<U32("valid"), Skip(4), Skip(8), U64("size"), U64("atime"), U64("mtime"),
    Skip(8), U32("atimensec"), U32("mtimensec"), Skip(4), U32("mode"), Skip(4),
    U32("uid"), U32("gid")>>

SetattrIn ==
  <<U32("valid"), Skip(4), Skip(8), U64("size"), Skip(8), U64("atime"),
    U64("mtime"), Skip(8), U32("atimensec"), U32("mtimensec"), Skip(4),
    U32("mode"), Skip(4), U32("uid"), U32("gid")>>

MkdirIn == <<U32("mode"), Skip(4), CStr("name")>>
RenameIn == <<U64("newdir"), CStr("old"), CStr("new")>>
RenameInV2 == <<U64("newdir"), Skip(8), CStr("old"), CStr("new")>>
LinkIn == <<U64("oldnodeid"), CStr("name")>>
OpenIn == <<U32("flags")>>
CreateIn == <<U32("flags"), U32("mode"), Skip(4), Skip(4), CStr("name")>>
ReleaseIn == <<U64("fh")>>
FlushIn == <<U64("fh")>>
ReadIn == <<U64("fh"), U64("offset"), U32("size")>>
WriteIn ==
  <<U64("fh"), U64("offset"), U32("size"), Skip(4), Skip(8), Skip(4), Skip(4)>>
AccessIn == <<U32("mask")>>
ForgetIn == <<U64("nlookup")>>
ForgetOne == <<U64("nodeid"), U64("nlookup")>>

\* parse_batch_forget: all the entries the count promises, or Truncated.
ParseBatchForget(buf) ==
  LET counted == Read(<<U32("count"), Skip(4)>>, buf)
      entry(k) == Read(ForgetOne, From(counted.rest, 8 * (k - 1)))
      count == Num(counted.got.count)
  IN IF ~counted.ok THEN Truncated
     ELSE IF \E k \in 1 .. count : ~entry(k).ok THEN Truncated
     ELSE [ok |-> TRUE, entries |-> [k \in 1 .. count |-> entry(k).got]]
-----------------------------------------------------------------------------
\* Mutant: the length is that of the body.
OutHeaderReplyBodyLen(unique, error, body) ==
  LET sent == IF error = 0 THEN body ELSE <<>>
  IN W32(Const(Len(sent))) \o W32(Const(error)) \o W64(unique) \o sent

\* OutHeader::reply; on error there is no body.
OutHeaderReply(unique, error, body) ==
  LET sent == IF error = 0 THEN body ELSE <<>>
  IN W32(Const(OUT_HEADER_LEN + Len(sent))) \o W32(Const(error)) \o W64(unique)
       \o sent

\* Attr::from_stat.
FromStat(st) ==
  [ino |-> st.st_ino, size |-> st.st_size, blocks |-> st.st_blocks,
   atime |-> <<st.st_atime, st.st_atime_nsec>>,
   mtime |-> <<st.st_mtime, st.st_mtime_nsec>>,
   ctime |-> <<st.st_ctime, st.st_ctime_nsec>>,
   mode |-> st.st_mode, nlink |-> st.st_nlink, uid |-> st.st_uid,
   gid |-> st.st_gid, rdev |-> st.st_rdev, blksize |-> st.st_blksize]

\* Mutant: each time's nanoseconds follow its seconds.
FuseAttrPaired(a) ==
  W64(a.ino) \o W64(a.size) \o W64(a.blocks) \o W64(a.atime[1])
    \o W32(a.atime[2]) \o W64(a.mtime[1]) \o W32(a.mtime[2]) \o W64(a.ctime[1])
    \o W32(a.ctime[2]) \o W32(a.mode) \o W32(a.nlink) \o W32(a.uid)
    \o W32(a.gid) \o W32(a.rdev) \o W32(a.blksize) \o W32(Const(0))

\* FuseAttr::write.
FuseAttr(a) ==
  W64(a.ino) \o W64(a.size) \o W64(a.blocks) \o W64(a.atime[1])
    \o W64(a.mtime[1]) \o W64(a.ctime[1]) \o W32(a.atime[2]) \o W32(a.mtime[2])
    \o W32(a.ctime[2]) \o W32(a.mode) \o W32(a.nlink) \o W32(a.uid)
    \o W32(a.gid) \o W32(a.rdev) \o W32(a.blksize) \o W32(Const(0))

EntryOut(nodeid, attr) ==
  W64(nodeid) \o W64(Const(1)) \o W64(Const(CACHE_TIMEOUT_SECS))
    \o W64(Const(CACHE_TIMEOUT_SECS)) \o W32(Const(0)) \o W32(Const(0))
    \o FuseAttr(attr)

AttrOut(attr) ==
  W64(Const(CACHE_TIMEOUT_SECS)) \o W32(Const(0)) \o W32(Const(0))
    \o FuseAttr(attr)

\* init_out; the flags are a set of their names.
InitOut(max_readahead) ==
  PadTo(W32(Const(7)) \o W32(Const(INIT_OUT_MINOR)) \o W32(max_readahead)
          \o W32(<<"flags", {"WRITEBACK_CACHE", "ASYNC_READ", "MAX_PAGES"}>>)
          \o W16(Const(65535)) \o W16(Const((65535 \div 4) * 3))
          \o W32(Const(MAX_WRITE)) \o W32(Const(1))
          \o W16(Const((MAX_WRITE \div ASSUMED_GUEST_PAGE_SIZE) % 65536))
          \o W16(Const(0)) \o W32(Const(0)) \o W32(Const(0)) \o W16(Const(0)),
        INIT_OUT_LEN)

OpenOut(fh) ==
  W64(fh) \o W32(<<"open_flags", {"KEEP_CACHE"}>>) \o W32(Const(0))
WriteOut(size) == W32(size) \o W32(Const(0))

StatfsOut(st) ==
  W64(st.f_blocks) \o W64(st.f_bfree) \o W64(st.f_bavail) \o W64(st.f_files)
    \o W64(st.f_ffree) \o W32(st.f_bsize) \o W32(st.f_namemax)
    \o W32(st.f_frsize) \o W32(Const(0))
    \o FlattenSeq([k \in 1 .. 6 |-> W32(Const(0))])

\* push_dirent, for an entry that fits.
Dirent(ino, off, kind, name) ==
  LET unpadded == 12 + name[2]
      padded == ((unpadded + 3) \div 4) * 4
  IN PadTo(W64(ino) \o W64(off) \o W32(<<"len", name[2]>>) \o W32(kind)
             \o Cells(name, name[2]), padded)
=============================================================================
