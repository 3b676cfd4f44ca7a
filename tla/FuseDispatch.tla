---------------------------- MODULE FuseDispatch ----------------------------
(***************************************************************************)
(* Session::handle (dispatch.rs): a request is read, one operation of the  *)
(* engine is called, and the reply is written.  The guest kernel writes    *)
(* the requests and reads the replies by its own definition of the wire    *)
(* (FuseAbi); the engine succeeds or fails in any way the host allows.     *)
(***************************************************************************)
EXTENDS FuseAbi, FuseWire, Errno

CONSTANTS
  Requests,    \* what the guest asks: records as RequestCells takes them
  Cuts,        \* whether requests may be shorter than the struct they hold
  Listing,     \* what reading the directory gives
  MaxData      \* bound of the model: cells that one READ returns

VARIABLES
  host,        \* the host's libc: "linux" or "macos"
  phase,       \* "idle", "sent" or "served"
  request,     \* what the guest asks
  buf,         \* the cells of the request
  readdir_cache, \* handles with a snapshot of their directory
  result,      \* what the engine's operation returned, if it was called
  calls,       \* the operations of the engine that were called
  replies      \* the reply, or <<>> for Reply::None

vars == <<host, phase, request, buf, readdir_cache, result, calls, replies>>
-----------------------------------------------------------------------------
\* What operations of the engine return (external to the dispatch).
Stat ==
  [f \in {"st_ino", "st_size", "st_blocks", "st_atime", "st_atime_nsec",
          "st_mtime", "st_mtime_nsec", "st_ctime", "st_ctime_nsec", "st_mode",
          "st_nlink", "st_uid", "st_gid", "st_rdev", "st_blksize"} |-> <<f, 0>>]
Statvfs ==
  [f \in {"f_blocks", "f_bfree", "f_bavail", "f_files", "f_ffree", "f_bsize",
          "f_namemax", "f_frsize"} |-> <<f, 0>>]
Ino == <<"new_ino", 0>>
Handle == <<"handle", 0>>
Target == <<"target", 3>>
Data(n) == [k \in 1 .. n |-> Cell(<<"data", k>>, 1, 1)]

Results ==
  {[ok |-> TRUE, n |-> n, error |-> <<"none", 0>>] : n \in 0 .. MaxData}
    \cup {[ok |-> FALSE, n |-> 0, error |-> e] :
            e \in {<<"Io", Host(host)[name]>> : name \in DOMAIN Host(host)}
                    \cup {<<own, 0>> : own \in OwnErrors}}
-----------------------------------------------------------------------------
(***************************************************************************)
(* The arms of Session::handle.  c is what they share: the header's unique *)
(* and nodeid, the body, and what the engine will return.                  *)
(***************************************************************************)
Outcome(called, replied) ==
  [calls |-> called, replies |-> replied, cache |-> readdir_cache]

ErrorFor(unique, n) == OutHeaderReply(unique, -ToLinuxErrno(host, n), <<>>)
ErrnoReply(unique, e) == <<ErrorFor(unique, FsErrno(host, e))>>
OkReply(unique, body) == <<OutHeaderReply(unique, 0, body)>>

\* try_fs!, and a reply with the body if the operation succeeds.
TryFs(c, call, body) ==
  Outcome(<<call>>, IF c.result.ok THEN OkReply(c.unique, body)
                    ELSE ErrnoReply(c.unique, c.result.error))

\* try_parse!: the arm for the fields that were read, or EINVAL.
Invalid(c) == Outcome(<<>>, <<ErrorFor(c.unique, Host(host).EINVAL)>>)
TryParse(c, read, Arm(_, _)) ==
  IF read.ok THEN Arm(c, read.got) ELSE Invalid(c)

\* trim_nul: the name up to the NUL, or all there is.
TrimNul(body) ==
  Value(IF NulAt(body) = 0 THEN body ELSE SubSeq(body, 1, NulAt(body) - 1))

Attr == FromStat(Stat)
Done(c) == Outcome(<<>>, OkReply(c.unique, <<>>))
Enosys(c) == Outcome(<<>>, <<ErrorFor(c.unique, Host(host).ENOSYS)>>)

InitArm(c, f) == Outcome(<<>>, OkReply(c.unique, InitOut(f.max_readahead)))
ForgetArm(c, f) == Outcome(<<<<"forget", c.nodeid, f.nlookup>>>>, <<>>)

\* Mutant: entries are forgotten while they are read.
BatchForgetEager(c) ==
  LET counted == Read(<<U32("count"), Skip(4)>>, c.body)
      n == IF counted.ok THEN Len(counted.rest) \div 8 ELSE 0
      entry(k) == Read(ForgetOne, From(counted.rest, 8 * (k - 1))).got
      forgotten == [k \in 1 .. n |->
                      <<"forget", entry(k).nodeid, entry(k).nlookup>>]
  IN IF counted.ok /\ n = Num(counted.got.count) THEN Outcome(forgotten, <<>>)
     ELSE Outcome(forgotten, Invalid(c).replies)

BatchForgetArm(c) ==
  LET batch == ParseBatchForget(c.body)
  IN IF batch.ok
     THEN Outcome([k \in DOMAIN batch.entries |->
                     <<"forget", batch.entries[k].nodeid,
                                 batch.entries[k].nlookup>>], <<>>)
     ELSE Invalid(c)

LookupArm(c) ==
  TryFs(c, <<"lookup", c.nodeid, TrimNul(c.body)>>, EntryOut(Ino, Attr))
GetattrArm(c, f) == TryFs(c, <<"getattr", c.nodeid>>, AttrOut(Attr))

\* The SetAttr of a SETATTR: an Option per attribute.
NoChange == <<"none", 0>>
Wants(f, flag) == flag \in Num(f.valid)
When(f, flag, v) == IF Wants(f, flag) THEN <<"some", v>> ELSE NoChange
TimeOf(f, now, given, sec, nsec) ==
  IF Wants(f, now) THEN <<"now", 0>> ELSE When(f, given, <<sec, nsec>>)

SetAttr(f) ==
  [size |-> When(f, "SIZE", f.size), mode |-> When(f, "MODE", f.mode),
   uid |-> When(f, "UID", f.uid), gid |-> When(f, "GID", f.gid),
   atime |-> TimeOf(f, "ATIME_NOW", "ATIME", f.atime, f.atimensec),
   mtime |-> TimeOf(f, "MTIME_NOW", "MTIME", f.mtime, f.mtimensec)]

SetattrArm(c, f) == TryFs(c, <<"setattr", c.nodeid, SetAttr(f)>>, AttrOut(Attr))
ReadlinkArm(c) == TryFs(c, <<"readlink", c.nodeid>>, Cells(Target, Target[2]))
SymlinkArm(c, f) ==
  TryFs(c, <<"symlink", c.nodeid, f.name, f.target>>, EntryOut(Ino, Attr))
MkdirArm(c, f) ==
  TryFs(c, <<"mkdir", c.nodeid, f.name, f.mode>>, EntryOut(Ino, Attr))
UnlinkArm(c) == TryFs(c, <<"unlink", c.nodeid, TrimNul(c.body)>>, <<>>)
RmdirArm(c) == TryFs(c, <<"rmdir", c.nodeid, TrimNul(c.body)>>, <<>>)
RenameArm(c, f) ==
  TryFs(c, <<"rename", c.nodeid, f.old, f.newdir, f.new>>, <<>>)
LinkArm(c, f) ==
  TryFs(c, <<"link", f.oldnodeid, c.nodeid, f.name>>,
        EntryOut(f.oldnodeid, Attr))
OpenArm(c, f) == TryFs(c, <<"open", c.nodeid, f.flags>>, OpenOut(Handle))
CreateArm(c, f) ==
  TryFs(c, <<"create", c.nodeid, f.name, f.flags, f.mode>>,
        EntryOut(Ino, Attr) \o OpenOut(Handle))

ReadArm(c, f) ==
  TryFs(c, <<"read", f.fh, f.offset, f.size>>, Data(c.result.n))

WriteArm(c, f) ==
  LET data == Read(WriteIn, c.body).rest
      n == IF Num(f.size) < Len(data) THEN Num(f.size) ELSE Len(data)
  IN TryFs(c, <<"write", f.fh, f.offset, SubSeq(data, 1, n)>>,
           WriteOut(<<"written", c.result.n>>))

FlushArm(c, f) == Done(c)
FsyncArm(c, f) == TryFs(c, <<"fsync", f.fh>>, <<>>)
ReleaseArm(c, f) == TryFs(c, <<"release", f.fh>>, <<>>)
OpendirArm(c, f) == TryFs(c, <<"opendir", c.nodeid>>, OpenOut(Handle))
AccessArm(c, f) == Done(c)
StatfsArm(c) == TryFs(c, <<"statfs", c.nodeid>>, StatfsOut(Statvfs))

DtType(kind) ==
  CASE kind = "Dir" -> 4 [] kind = "Regular" -> 8 [] kind = "Symlink" -> 10
    [] kind = "Other" -> 0

\* The entries from start on that fit, up to the first that does not.
ListingReply(start, size) ==
  LET entry(k) == LET e == Listing[k]
                  IN Dirent(e.ino, Const(k), Const(DtType(e.kind)), e.name)
      cells(k) == FlattenSeq([j \in 1 .. k |-> entry(start + j)])
      fits == {k \in 0 .. Len(Listing) - start : Len(cells(k)) <= size}
  IN cells(CHOOSE k \in fits : \A j \in fits : j <= k)

ReaddirArm(c, f) ==
  LET reads == Num(f.offset) = 0 \/ f.fh \notin readdir_cache
      skipped == IF Num(f.offset) < Len(Listing) THEN Num(f.offset)
                 ELSE Len(Listing)
      body == ListingReply(skipped, Num(f.size))
  IN IF ~reads THEN Outcome(<<>>, OkReply(c.unique, body))
     ELSE [TryFs(c, <<"readdir", f.fh>>, body) EXCEPT
             !.cache = IF c.result.ok THEN @ \cup {f.fh} ELSE @]

ReleasedirArm(c, f) ==
  [TryFs(c, <<"releasedir", f.fh>>, <<>>) EXCEPT !.cache = @ \ {f.fh}]
-----------------------------------------------------------------------------
Dispatch(op, c) ==
  CASE op = "Init" -> TryParse(c, Read(InitIn, c.body), InitArm)
    [] op \in {"Destroy", "Fsyncdir"} -> Done(c)
    [] op = "Forget" -> TryParse(c, Read(ForgetIn, c.body), ForgetArm)
    [] op = "BatchForget" -> BatchForgetArm(c)
    [] op = "Lookup" -> LookupArm(c)
    [] op = "Getattr" -> TryParse(c, Read(GetattrIn, c.body), GetattrArm)
    [] op = "Setattr" -> TryParse(c, Read(SetattrIn, c.body), SetattrArm)
    [] op = "Readlink" -> ReadlinkArm(c)
    [] op = "Symlink" ->
         TryParse(c, Read(<<CStr("name"), CStr("target")>>, c.body), SymlinkArm)
    [] op = "Mkdir" -> TryParse(c, Read(MkdirIn, c.body), MkdirArm)
    [] op = "Unlink" -> UnlinkArm(c)
    [] op = "Rmdir" -> RmdirArm(c)
    [] op = "Rename" -> TryParse(c, Read(RenameIn, c.body), RenameArm)
    [] op = "Rename2" -> TryParse(c, Read(RenameInV2, c.body), RenameArm)
    [] op = "Link" -> TryParse(c, Read(LinkIn, c.body), LinkArm)
    [] op = "Open" -> TryParse(c, Read(OpenIn, c.body), OpenArm)
    [] op = "Create" -> TryParse(c, Read(CreateIn, c.body), CreateArm)
    [] op = "Read" -> TryParse(c, Read(ReadIn, c.body), ReadArm)
    [] op = "Write" -> TryParse(c, Read(WriteIn, c.body), WriteArm)
    [] op = "Flush" -> TryParse(c, Read(FlushIn, c.body), FlushArm)
    [] op = "Fsync" -> TryParse(c, Read(<<U64("fh")>>, c.body), FsyncArm)
    [] op = "Release" -> TryParse(c, Read(ReleaseIn, c.body), ReleaseArm)
    [] op = "Opendir" -> TryParse(c, Read(OpenIn, c.body), OpendirArm)
    [] op = "Readdir" -> TryParse(c, Read(ReadIn, c.body), ReaddirArm)
    [] op = "Releasedir" -> TryParse(c, Read(ReleaseIn, c.body), ReleasedirArm)
    [] op = "Statfs" -> StatfsArm(c)
    [] op = "Access" -> TryParse(c, Read(AccessIn, c.body), AccessArm)
    [] OTHER -> Enosys(c)

HandleRequest(res) ==
  LET header == Read(InHeader, buf)
  IN IF ~header.ok THEN Outcome(<<>>, <<>>)
     ELSE Dispatch(Opcode(Num(header.got.opcode)),
                   [unique |-> header.got.unique, nodeid |-> header.got.nodeid,
                    body |-> Body(buf), result |-> res])
-----------------------------------------------------------------------------
NoRequest == [op |-> "None", vals |-> [none |-> Junk], names |-> <<>>,
              data |-> <<>>, batch |-> 0]

Init ==
  /\ host \in {"linux", "macos"}
  /\ phase = "idle" /\ request = NoRequest /\ buf = <<>>
  /\ readdir_cache = {} /\ result = Truncated
  /\ calls = <<>> /\ replies = <<>>

\* The guest sends a request, or the part of it that an older minor has.
Send(req) ==
  /\ phase = "idle" /\ phase' = "sent"
  /\ request' = req
  /\ LET whole == RequestCells(req)
     IN \E n \in (IF Cuts THEN 0 .. Len(whole) ELSE {Len(whole)}) :
          buf' = SubSeq(whole, 1, n)
  /\ UNCHANGED <<host, readdir_cache, result, calls, replies>>

Serve(res) ==
  /\ phase = "sent" /\ phase' = "served"
  /\ LET out == HandleRequest(res)
     IN /\ calls' = out.calls /\ replies' = out.replies
        /\ readdir_cache' = out.cache
        /\ result' = IF out.calls = <<>> THEN Truncated ELSE res
  /\ UNCHANGED <<host, request, buf>>

Receive ==
  /\ phase = "served" /\ phase' = "idle"
  /\ request' = NoRequest /\ buf' = <<>> /\ result' = Truncated
  /\ calls' = <<>> /\ replies' = <<>>
  /\ UNCHANGED <<host, readdir_cache>>

Next ==
  \/ \E req \in Requests : Send(req)
  \/ \E res \in Results : Serve(res)
  \/ Receive

Spec == Init /\ [][Next]_vars
-----------------------------------------------------------------------------
(***************************************************************************)
(* What the guest means by a request, in its own terms: the operation of   *)
(* the engine that stands for it.  (The flags of RENAME2 have no           *)
(* counterpart in the engine.)                                             *)
(***************************************************************************)
NodeId == <<"nodeid", 0>>

Changed(req, flag, v) ==
  IF flag \in Num(Field(req, "valid")) THEN <<"some", v>> ELSE NoChange

\* A time is set only with its own flag; the second flag says to what.
ChangedTime(req, flag, now, v) ==
  IF {flag, now} \subseteq Num(Field(req, "valid")) THEN <<"now", 0>>
  ELSE Changed(req, flag, v)

Changes(req) ==
  LET v(f) == Field(req, f)
  IN [size |-> Changed(req, "SIZE", v("size")),
      mode |-> Changed(req, "MODE", v("mode")),
      uid |-> Changed(req, "UID", v("uid")),
      gid |-> Changed(req, "GID", v("gid")),
      atime |-> ChangedTime(req, "ATIME", "ATIME_NOW",
                            <<v("atime"), v("atimensec")>>),
      mtime |-> ChangedTime(req, "MTIME", "MTIME_NOW",
                            <<v("mtime"), v("mtimensec")>>)]

Asked(req) ==
  LET v(f) == Field(req, f)
      name(k) == req.names[k]
      op == req.op
  IN CASE op = "Lookup" -> <<<<"lookup", NodeId, name(1)>>>>
       [] op = "Forget" -> <<<<"forget", NodeId, v("nlookup")>>>>
       [] op = "BatchForget" ->
            [k \in 1 .. req.batch |->
               <<"forget", <<"nodeid", k>>, <<"nlookup", k>>>>]
       [] op = "Getattr" -> <<<<"getattr", NodeId>>>>
       [] op = "Setattr" -> <<<<"setattr", NodeId, Changes(req)>>>>
       [] op = "Readlink" -> <<<<"readlink", NodeId>>>>
       [] op = "Symlink" -> <<<<"symlink", NodeId, name(1), name(2)>>>>
       [] op = "Mkdir" -> <<<<"mkdir", NodeId, name(1), v("mode")>>>>
       [] op = "Unlink" -> <<<<"unlink", NodeId, name(1)>>>>
       [] op = "Rmdir" -> <<<<"rmdir", NodeId, name(1)>>>>
       [] op \in {"Rename", "Rename2"} ->
            <<<<"rename", NodeId, name(1), v("newdir"), name(2)>>>>
       [] op = "Link" -> <<<<"link", v("oldnodeid"), NodeId, name(1)>>>>
       [] op = "Open" -> <<<<"open", NodeId, v("flags")>>>>
       [] op = "Create" ->
            <<<<"create", NodeId, name(1), v("flags"), v("mode")>>>>
       [] op = "Read" -> <<<<"read", v("fh"), v("offset"), v("size")>>>>
       [] op = "Write" -> <<<<"write", v("fh"), v("offset"), req.data>>>>
       [] op = "Fsync" -> <<<<"fsync", v("fh")>>>>
       [] op = "Release" -> <<<<"release", v("fh")>>>>
       [] op = "Opendir" -> <<<<"opendir", NodeId>>>>
       [] op = "Readdir" -> <<<<"readdir", v("fh")>>>>
       [] op = "Releasedir" -> <<<<"releasedir", v("fh")>>>>
       [] op = "Statfs" -> <<<<"statfs", NodeId>>>>
       [] OTHER -> <<>>

Served == phase = "served"
Whole == buf = RequestCells(request)

(***************************************************************************)
(* A request reaches the engine as the guest meant it: the operation, with *)
(* the inode, names, handle and attributes of the request, whatever the    *)
(* layout puts around them (a READDIR may be served from a snapshot, but   *)
(* not one from the start).                                                *)
(***************************************************************************)
CalledAsAsked ==
  Served /\ Whole =>
    \/ calls = Asked(request)
    \/ /\ request.op = "Readdir" /\ calls = <<>>
       /\ Num(Field(request, "offset")) # 0

(***************************************************************************)
(* A request that ends too early is refused as a whole: nothing is done by *)
(* half, least of all a BATCH_FORGET.  A WRITE may be short of data, and   *)
(* then writes what is there.  (A bare name need not end in a NUL.)        *)
(***************************************************************************)
AllOrNothing ==
  Served /\ ~Whole /\ request.op \notin {"Lookup", "Unlink", "Rmdir"} =>
    \/ calls = <<>>
    \/ calls = Asked(request)
    \/ /\ request.op = "Write" /\ Len(calls) = 1
       /\ \E n \in 0 .. Len(request.data) :
            calls[1] = [Asked(request)[1] EXCEPT ![4] = SubSeq(@, 1, n)]

Answer == Read(fuse_out_header, replies[1])
Error == Num(Answer.got.error)

(***************************************************************************)
(* A FORGET or BATCH_FORGET that arrives whole gets no reply; every other  *)
(* request is answered once, under its own number and with the length the  *)
(* reply has, an error being a header and nothing else.  Nothing is said   *)
(* of a FORGET that is cut off: try_parse answers it with EINVAL, where    *)
(* the comment on Reply::None has FORGETs receive "no reply whatsoever".   *)
(***************************************************************************)
AnsweredOnce ==
  Served /\ Len(buf) >= IN_HEADER_LEN =>
    IF request.op \in {"Forget", "BatchForget"} THEN Whole => replies = <<>>
    ELSE /\ Len(replies) = 1 /\ Answer.ok
         /\ Answer.got.unique = <<"unique", 0>>
         /\ Num(Answer.got.len) = Len(replies[1])
         /\ Error # 0 => Len(replies[1]) = OUT_HEADER_LEN

\* struct fuse_attr's fields, and where stat has them.
StatField ==
  [ino |-> "st_ino", size |-> "st_size", blocks |-> "st_blocks",
   atime |-> "st_atime", atimensec |-> "st_atime_nsec", mtime |-> "st_mtime",
   mtimensec |-> "st_mtime_nsec", ctime |-> "st_ctime",
   ctimensec |-> "st_ctime_nsec", mode |-> "st_mode", nlink |-> "st_nlink",
   uid |-> "st_uid", gid |-> "st_gid", rdev |-> "st_rdev",
   blksize |-> "st_blksize"]

HasAttr(f) == \A a \in DOMAIN StatField : f[a] = Stat[StatField[a]]

\* The limits the guest takes from INIT agree on how much a WRITE carries.
HasLimits(f) ==
  /\ Num(f.major) = 7 /\ Num(f.minor) >= 28
  /\ "MAX_PAGES" \in Num(f.flags)
  /\ Num(f.max_pages) * 4096 = Num(f.max_write)
  /\ Num(f.congestion_threshold) <= Num(f.max_background)
  /\ f.max_readahead = <<"max_readahead", 0>>

KernelType == [Dir |-> 4, Regular |-> 8, Symlink |-> 10, Other |-> 0]

\* A READDIR reply: consecutive entries, each with the offset of the next.
HasEntries(body, start) ==
  LET listed == Dirents(body)
  IN /\ Len(body) <= Num(Field(request, "size"))
     /\ \A k \in DOMAIN listed :
          LET e == Listing[start + k]
          IN listed[k] = [ino |-> e.ino, off |-> Const(start + k),
                          name |-> e.name, type |-> Const(KernelType[e.kind])]
     /\ listed = <<>> => \/ start >= Len(Listing)
                         \/ Num(Field(request, "size")) < 20

(***************************************************************************)
(* What the guest reads out of a successful reply, by its own layout, is   *)
(* what the engine returned: inode, attributes, handle, data, entries,     *)
(* and the limits of INIT.                                                 *)
(***************************************************************************)
ReplyCarriesResult ==
  Served /\ replies # <<>> /\ Error = 0 =>
    LET op == request.op
        body == From(replies[1], OUT_HEADER_LEN)
        read == Read(OutStruct(op), body)
        f == read.got
    IN /\ read.ok /\ (~Variable(op) => read.rest = <<>>)
       /\ op \in {"Lookup", "Symlink", "Mkdir", "Create"} => f.nodeid = Ino
       /\ op = "Link" => f.nodeid = Field(request, "oldnodeid")
       /\ op \in {"Lookup", "Symlink", "Mkdir", "Create", "Link", "Getattr",
                  "Setattr"} => HasAttr(f)
       /\ op \in {"Open", "Opendir", "Create"} => f.fh = Handle
       /\ op = "Write" => Num(f.size) = result.n
       /\ op = "Statfs" =>
            /\ f.blocks = Statvfs.f_blocks /\ f.bfree = Statvfs.f_bfree
            /\ f.bavail = Statvfs.f_bavail /\ f.files = Statvfs.f_files
            /\ f.ffree = Statvfs.f_ffree /\ f.bsize = Statvfs.f_bsize
            /\ f.namelen = Statvfs.f_namemax /\ f.frsize = Statvfs.f_frsize
       /\ op = "Init" => HasLimits(f)
       /\ op = "Read" => body = Data(result.n)
       /\ op = "Readlink" => Value(body) = Target
       /\ op = "Readdir" => HasEntries(body, Num(Field(request, "offset")))

\* Errors that POSIX lists for the calls the engine makes.
FileErrors ==
  {"EACCES", "EAGAIN", "EBADF", "EBUSY", "EDQUOT", "EEXIST", "EFAULT", "EFBIG",
   "EINTR", "EINVAL", "EIO", "EISDIR", "ELOOP", "EMFILE", "EMLINK",
   "ENAMETOOLONG", "ENFILE", "ENODEV", "ENOENT", "ENOMEM", "ENOSPC", "ENOSYS",
   "ENOTDIR", "ENOTEMPTY", "ENOTSUP", "ENXIO", "EOPNOTSUPP", "EOVERFLOW",
   "EPERM", "EROFS", "ESPIPE", "ESTALE", "ETXTBSY", "EXDEV"}

NamesOf(table, n) == {name \in DOMAIN table : table[name] = n}

(***************************************************************************)
(* No error reaches the guest as a different one: on either host it keeps  *)
(* its name or becomes EIO, and the errors that POSIX lists for the calls  *)
(* the engine makes, and those the engine makes up, keep their name.  (The *)
(* rest may become EIO even where the guest has the same error: on a Linux *)
(* host EUCLEAN and ENODATA do, although the comments in linux_errno.rs    *)
(* call the translation the identity there.)                               *)
(***************************************************************************)
ErrorKeepsName ==
  Served /\ replies # <<>> /\ Error # 0 =>
    LET meant == NamesOf(Host(host),
                   IF calls # <<>> THEN FsErrno(host, result.error)
                   ELSE IF request.op \in {"Getxattr", "Setxattr", "Listxattr",
                                           "Removexattr", "Lseek"}
                        THEN Host(host).ENOSYS ELSE Host(host).EINVAL)
        read == NamesOf(LinuxHost, -Error)
    IN \/ meant \cap read # {}
       \/ "EIO" \in read /\ meant \cap FileErrors = {}
=============================================================================
