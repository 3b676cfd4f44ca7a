------------------------------ MODULE ChainIO -------------------------------
(***************************************************************************)
(* READ and WRITE on a descriptor chain: walking the descriptor table, the *)
(* copies between a chain's segments and a buffer (virtqueue.rs), the      *)
(* ordinary path that uses them, and the zero-copy path that works on the  *)
(* segments themselves (server.rs).                                        *)
(*                                                                         *)
(* A byte of guest memory is a cell.  A header is as many equal cells as   *)
(* it has bytes, payload cells are numbered, so a cell that lands in the   *)
(* wrong place is seen, and a descriptor is one cell.  The segments of a   *)
(* chain are laid out backwards, and so are its descriptors: no two are    *)
(* contiguous in chain order.  The buffers of a driver lie in guest        *)
(* memory, so no lookup of theirs is out of bounds.                        *)
(*                                                                         *)
(* The host's read or write may fail, or transfer less than it was asked   *)
(* for; a request may be cut off anywhere; and the room for a reply may be *)
(* less than the reply needs.                                              *)
(***************************************************************************)
EXTENDS GuestMemory, SequencesExt

CONSTANTS
  InHeaderLen,   \* IN_HEADER_LEN (40 in the code)
  ArgsLen,       \* fuse_read_in and fuse_write_in (40 in the code)
  OutHeaderLen,  \* OUT_HEADER_LEN (16 in the code)
  MaxChain,      \* MAX_CHAIN_LEN (512 in the code)
  SegLens,       \* lengths of a segment
  MaxSegs,       \* bound of the model: segments of each kind in a chain
  MaxSize,       \* bound of the model: size field of a request
  MaxFile        \* bound of the model: cells in the file

ASSUME ChainAssumption ==
  /\ InHeaderLen \in Nat \ {0} /\ ArgsLen \in Nat \ {0} /\ OutHeaderLen \in Nat \ {0}
  /\ MaxChain \in Nat \ {0} /\ SegLens \subseteq Nat /\ MaxSegs \in Nat \ {0}
  /\ MaxSize \in Nat \ {0} /\ MaxFile \in Nat \ {0}

VARIABLES
  file,   \* the cells of the file the requests read and write
  req,    \* the request in the queue, or NoRequest
  stage,  \* what has become of it: "made", "served", or "refused", which
          \* has ended the daemon
  mem,    \* guest memory
  used    \* the length pushed to the used ring for it

vars == <<file, req, stage, mem, used>>

Total(lens) == FoldLeft(LAMBDA n, len : n + len, 0, lens)

\* Segments of the given lengths below address top, the first one highest.
Segments(lens, top) ==
  [i \in DOMAIN lens |-> [addr |-> top - Total(SubSeq(lens, 1, i)), len |-> lens[i]]]

Layouts == UNION {[1 .. n -> SegLens] : n \in 1 .. MaxSegs}

\* A request and what the host makes of it: its read or write fails, or
\* transfers at most so many cells.
Request == [op: {"READ", "WRITE"}, offset: 0 .. (MaxFile - 1), size: 0 .. MaxSize,
            readable: Layouts, writable: Layouts,
            fails: BOOLEAN, most: 1 .. MaxSize]

RequestHeaderLen == InHeaderLen + ArgsLen

\* What the driver sends: a READ is no more than a header, a WRITE has
\* payload, which may be short of its size, and either may be cut off.  The
\* room for the reply may be too small, and for a READ larger than needed.
WellFormed(r) ==
  /\ r.op = "READ" => Total(r.readable) <= RequestHeaderLen
  /\ r.op = "WRITE" => /\ Total(r.writable) <= OutHeaderLen + 1
                       /\ Len(r.writable) < MaxSegs
                       /\ r.offset + r.size <= MaxFile

\* Of several descriptions of what the host does with r, one is enough.
HostIsAsked(r) ==
  IF Total(r.readable) < RequestHeaderLen
  THEN r.offset = 0 /\ r.size = MaxSize /\ ~r.fails /\ r.most = 1
  ELSE r.most = 1 \/ (~r.fails /\ r.most <= r.size)

(***************************************************************************)
(* Where the driver puts a request, in its own addresses: the readable     *)
(* segments, the descriptor table, the writable segments.                  *)
(***************************************************************************)
ChainLen(r) == Len(r.readable) + Len(r.writable)
TableAt(r) == Total(r.readable)
LowLen(r) == Total(r.readable) + ChainLen(r)

ChainOf(r) ==
  [readable |-> Segments(r.readable, Total(r.readable)),
   writable |-> Segments(r.writable, LowLen(r) + Total(r.writable))]

\* The descriptor at index idx of the table; the head has the highest index.
Descriptor(r, idx) ==
  LET i == ChainLen(r) - idx
      segs == ChainOf(r).readable \o ChainOf(r).writable
  IN [addr |-> segs[i].addr, len |-> segs[i].len,
      flags |-> (IF i > Len(r.readable) THEN {"WRITE"} ELSE {})
                  \cup (IF idx > 0 THEN {"NEXT"} ELSE {}),
      next |-> IF idx > 0 THEN idx - 1 ELSE 0]

\* Two regions; the front-end has them the other way round than the guest.
RegionsOf(r) ==
  <<Region(0, Total(r.writable), LowLen(r), 0),
    Region(LowLen(r), 0, Total(r.writable), LowLen(r))>>

\* The cells of segments in chain order, as addresses.
Addresses(segs) ==
  FlattenSeq([i \in DOMAIN segs |-> [k \in 1 .. segs[i].len |-> segs[i].addr + k - 1]])

RequestHeader ==
  [k \in 1 .. RequestHeaderLen |-> IF k <= InHeaderLen THEN "header" ELSE "args"]

\* Guest memory when the request is made: header and payload, the descriptor
\* table, and empty room.
MemoryOf(r) ==
  LET addrs == Addresses(ChainOf(r).readable)
      cell(k) == IF k <= RequestHeaderLen THEN RequestHeader[k] ELSE k - RequestHeaderLen
  IN [a \in 0 .. (LowLen(r) + Total(r.writable) - 1) |->
        IF a < TableAt(r) THEN cell(CHOOSE k \in DOMAIN addrs : addrs[k] = a)
        ELSE IF a < LowLen(r) THEN Descriptor(r, a - TableAt(r))
        ELSE "empty"]
-----------------------------------------------------------------------------
(***************************************************************************)
(* read_chain: at most MaxChain descriptors are followed from the head,    *)
(* in a table that is addressed in the front-end's space.                  *)
(***************************************************************************)
\* Mutant: the last descriptor the bound allows is not followed.
ReadChainShort(rs, m, desc_addr, head) ==
  LET follow(st, n) ==
        LET d == GetSlice(rs, m, "User", desc_addr + st.idx, 1)[1]
            seg == [addr |-> d.addr, len |-> d.len]
        IN IF st.end # "no" THEN st
           ELSE [idx |-> d.next,
                 readable |-> IF "WRITE" \in d.flags THEN st.readable ELSE Append(st.readable, seg),
                 writable |-> IF "WRITE" \in d.flags THEN Append(st.writable, seg) ELSE st.writable,
                 end |-> IF "NEXT" \in d.flags THEN "no" ELSE "ok"]
  IN FoldLeft(follow, [idx |-> head, readable |-> <<>>, writable |-> <<>>, end |-> "no"],
              [n \in 1 .. (MaxChain - 1) |-> n])

ReadChain(rs, m, desc_addr, head) ==
  LET follow(st, n) ==
        LET d == GetSlice(rs, m, "User", desc_addr + st.idx, 1)[1]
            seg == [addr |-> d.addr, len |-> d.len]
        IN IF st.end # "no" THEN st
           ELSE IF "INDIRECT" \in d.flags THEN [st EXCEPT !.end = "error"]
           ELSE [idx |-> d.next,
                 readable |-> IF "WRITE" \in d.flags THEN st.readable ELSE Append(st.readable, seg),
                 writable |-> IF "WRITE" \in d.flags THEN Append(st.writable, seg) ELSE st.writable,
                 end |-> IF "NEXT" \in d.flags THEN "no" ELSE "ok"]
  IN FoldLeft(follow, [idx |-> head, readable |-> <<>>, writable |-> <<>>, end |-> "no"],
              [n \in 1 .. MaxChain |-> n])

Gather(rs, m, segs) ==
  FoldLeft(LAMBDA buf, s : buf \o GetSlice(rs, m, "Gpa", s.addr, s.len), <<>>, segs)

GatherPrefix(rs, m, segs, max_len) ==
  FoldLeft(LAMBDA buf, s :
             buf \o GetSlice(rs, m, "Gpa", s.addr, Min({max_len - Len(buf), s.len})),
           <<>>, segs)

\* The memory after the n cells at p are set to data, from its cell after skip.
Store(m, p, n, data, skip) ==
  [a \in DOMAIN m |-> IF p <= a /\ a < p + n THEN data[skip + a - p + 1] ELSE m[a]]

\* scatter_writable: the memory after, and how much was written.
Scatter(rs, m, segs, data) ==
  FoldLeft(LAMBDA st, s :
             LET n == Min({Len(data) - st.written, s.len})
             IN [mem |-> Store(st.mem, Pointer(rs, "Gpa", s.addr, n), n, data, st.written),
                 written |-> st.written + n],
           [mem |-> m, written |-> 0], segs)

\* Mutant: the skipped bytes are skipped in every later segment too.
IovecsSkipAll(rs, segs, skip, max_total) ==
  FoldLeft(LAMBDA st, s :
             IF st.remaining = 0 \/ st.skip >= s.len
             THEN [st EXCEPT !.skip = IF st.skip >= s.len THEN st.skip - s.len ELSE @]
             ELSE LET n == Min({s.len - st.skip, st.remaining})
                  IN [skip |-> st.skip, remaining |-> st.remaining - n,
                      iov |-> Append(st.iov,
                                [base |-> Pointer(rs, "Gpa", s.addr + st.skip, n), len |-> n])],
           [skip |-> skip, remaining |-> max_total, iov |-> <<>>], segs).iov

\* iovecs_from: the segments that hold at most max_total cells after skip.
Iovecs(rs, segs, skip, max_total) ==
  FoldLeft(LAMBDA st, s :
             IF st.remaining = 0 THEN st
             ELSE IF st.skip >= s.len THEN [st EXCEPT !.skip = @ - s.len]
             ELSE LET n == Min({s.len - st.skip, st.remaining})
                  IN [skip |-> 0, remaining |-> st.remaining - n,
                      iov |-> Append(st.iov,
                                [base |-> Pointer(rs, "Gpa", s.addr + st.skip, n), len |-> n])],
           [skip |-> skip, remaining |-> max_total, iov |-> <<>>], segs).iov

Lens(segs) == [i \in DOMAIN segs |-> segs[i].len]
-----------------------------------------------------------------------------
\* pread and pwrite, of which the host does at most r.most cells; a hole
\* reads as zeroes.
Pread(f, offset, size) == SubSeq(f, offset + 1, Min({offset + size, Len(f)}))

HostRead(r, f, size) == Pread(f, r.offset, Min({size, r.most}))

Pwrite(f, offset, data) ==
  IF data = <<>> THEN f
  ELSE [k \in 1 .. Max({Len(f), offset + Len(data)}) |->
          IF offset < k /\ k <= offset + Len(data) THEN data[k - offset]
          ELSE IF k <= Len(f) THEN f[k] ELSE "zero"]

\* The cells of data that the host writes.
HostWritten(r, data) == SubSeq(data, 1, Min({Len(data), r.most}))

\* preadv and pwritev work on the cells the iovecs point to: what pwritev
\* takes from memory, and memory after preadv has put data there.
FromIovecs(m, iov) ==
  FlattenSeq([i \in DOMAIN iov |-> [k \in 1 .. iov[i].len |-> m[iov[i].base + k - 1]]])

IntoIovecs(m, iov, data) ==
  FoldLeft(LAMBDA st, v :
             LET n == Min({Len(data) - st.read, v.len})
             IN [mem |-> Store(st.mem, v.base, n, data, st.read), read |-> st.read + n],
           [mem |-> m, read |-> 0], iov).mem

OutHeader(len, error) == [k \in 1 .. OutHeaderLen |-> <<"out", len, error>>]
Reply(body) == OutHeader(OutHeaderLen + Len(body), "ok") \o body
ErrorReply(error) == OutHeader(OutHeaderLen, error)
WriteOut(n) == << <<"written", n>> >>

\* What serving a request leaves: the file, guest memory and the used length.
Outcome(f, scattered, len) == [file |-> f, mem |-> scattered.mem, used |-> len]

\* dispatch_generic, with the READ and WRITE arms of Session::handle: no
\* header, no reply; arguments cut off, EINVAL; else what the host says.
Generic(r, c, rs, m, f) ==
  LET request == Gather(rs, m, c.readable)
      payload == SubSeq(request, RequestHeaderLen + 1, Len(request))
      data == HostWritten(r, SubSeq(payload, 1, Min({r.size, Len(payload)})))
      works == Len(request) >= RequestHeaderLen /\ ~r.fails
      reply == CASE Len(request) < InHeaderLen -> <<>>
                 [] Len(request) \in InHeaderLen .. (RequestHeaderLen - 1) -> ErrorReply("EINVAL")
                 [] Len(request) >= RequestHeaderLen /\ r.fails -> ErrorReply("errno")
                 [] works /\ r.op = "READ" -> Reply(HostRead(r, f, r.size))
                 [] works /\ r.op = "WRITE" -> Reply(WriteOut(Len(data)))
      sent == Scatter(rs, m, c.writable, reply)
  IN Outcome(IF works /\ r.op = "WRITE" THEN Pwrite(f, r.offset, data) ELSE f,
             sent, sent.written)

\* try_write_zero_copy: pwritev from the readable segments past the header.
WriteZeroCopy(r, c, rs, m, f) ==
  LET asked == FromIovecs(m, Iovecs(rs, c.readable, RequestHeaderLen, r.size))
      data == IF r.fails THEN <<>> ELSE HostWritten(r, asked)
      sent == Scatter(rs, m, c.writable,
                IF r.fails THEN ErrorReply("errno") ELSE Reply(WriteOut(Len(data))))
  IN Outcome(Pwrite(f, r.offset, data), sent, sent.written)

\* Mutant: the header announces what the file holds, room for it or not.
ReadZeroCopyAsked(r, c, rs, m, f) ==
  LET iov == Iovecs(rs, c.writable, OutHeaderLen, r.size)
      read == IF r.fails THEN <<>> ELSE HostRead(r, f, Total(Lens(iov)))
      header == IF r.fails THEN ErrorReply("errno")
                ELSE OutHeader(OutHeaderLen + Len(HostRead(r, f, r.size)), "ok")
      sent == Scatter(rs, IntoIovecs(m, iov, read), c.writable, header)
  IN Outcome(f, sent, sent.written + Len(read))

\* try_read_zero_copy: preadv into the writable segments past the header,
\* whose length is known, and filled in, last.
ReadZeroCopy(r, c, rs, m, f) ==
  LET room == Max({Total(Lens(c.writable)) - OutHeaderLen, 0})
      iov == Iovecs(rs, c.writable, OutHeaderLen, Min({r.size, room}))
      read == IF r.fails THEN <<>> ELSE HostRead(r, f, Total(Lens(iov)))
      header == IF r.fails THEN ErrorReply("errno")
                ELSE OutHeader(OutHeaderLen + Len(read), "ok")
      sent == Scatter(rs, IntoIovecs(m, iov, read), c.writable, header)
  IN Outcome(f, sent, sent.written + Len(read))

\* process_vring: the zero-copy path serves what it can parse the header of.
Served(r, c, rs, m, f) ==
  IF GatherPrefix(rs, m, c.readable, RequestHeaderLen) # RequestHeader
  THEN Generic(r, c, rs, m, f)
  ELSE IF r.op = "READ" THEN ReadZeroCopy(r, c, rs, m, f)
                        ELSE WriteZeroCopy(r, c, rs, m, f)

\* The chain process_vring reads for r: its head and the address of the table.
ChainRead(r) ==
  ReadChain(RegionsOf(r), mem, Total(r.writable) + TableAt(r), ChainLen(r) - 1)

NoRequest == [op |-> "none"]

Init == file = <<>> /\ req = NoRequest /\ stage = "none" /\ mem = <<>> /\ used = 0

Requests == {r \in Request : WellFormed(r) /\ HostIsAsked(r)}

\* The driver makes a request, and later takes its buffers back (external).
Submit(r) ==
  /\ stage = "none"
  /\ req' = r /\ mem' = MemoryOf(r) /\ stage' = "made"
  /\ UNCHANGED <<file, used>>

Collect ==
  /\ stage = "served"
  /\ req' = NoRequest /\ mem' = <<>> /\ used' = 0 /\ stage' = "none"
  /\ UNCHANGED file

\* process_vring: a chain that cannot be read is an error, and ends the daemon.
Serve ==
  /\ stage = "made"
  /\ LET c == ChainRead(req)
         o == Served(req, c, RegionsOf(req), mem, file)
     IN /\ c.end = "ok"
        /\ file' = o.file /\ mem' = o.mem /\ used' = o.used
  /\ stage' = "served"
  /\ UNCHANGED req

Refuse ==
  /\ stage = "made"
  /\ ChainRead(req).end # "ok"
  /\ stage' = "refused"
  /\ UNCHANGED <<file, req, mem, used>>

Next == (\E r \in Requests : Submit(r)) \/ Serve \/ Refuse \/ Collect

Spec == Init /\ [][Next]_vars
-----------------------------------------------------------------------------
(***************************************************************************)
(* The zero-copy path does what the ordinary path would, for a WRITE and   *)
(* for a READ of no more than the room the guest offered: the file, guest  *)
(* memory and the used length are the same, wherever the header ends       *)
(* relative to the segments, when the host does the work in part or not at *)
(* all, and when a request is cut off.  A READ of more than there is room  *)
(* for is served as one of what there is room for; the ordinary path would *)
(* announce more than it delivers.                                         *)
(***************************************************************************)
RoomFor(r) == Max({Total(r.writable) - OutHeaderLen, 0})

ZeroCopyIsGeneric ==
  [][stage' = "served" =>
       LET r == IF req.op = "WRITE" THEN req
                ELSE [req EXCEPT !.size = Min({@, RoomFor(req)})]
       IN [file |-> file', mem |-> mem', used |-> used'] =
            Generic(r, ChainOf(r), RegionsOf(r), mem, file)]_vars

\* The writable cells of the chain, read off memory without the code's loops.
Offered == LET addrs == Addresses(ChainOf(req).writable)
           IN [k \in DOMAIN addrs |-> mem[addrs[k]]]

\* How a request should end, and how many cells it should transfer.
ErrorOf(r) ==
  IF Total(r.readable) < RequestHeaderLen THEN "EINVAL"
  ELSE IF r.fails THEN "errno" ELSE "ok"

Transfers(r, asked) == IF ErrorOf(r) = "ok" THEN Min({r.size, r.most, asked}) ELSE 0

(***************************************************************************)
(* The guest finds a whole reply at the front of the room it offered, if   *)
(* there is room for one: the length in the header, the used length and    *)
(* the cells written are the same number; an error is an error and carries *)
(* nothing; a READ carries what the file holds there, cut to the room.  No *)
(* cell after the reply is touched, and none at all if the request has no  *)
(* header to answer.                                                       *)
(***************************************************************************)
ReplyExact ==
  stage = "served" =>
    LET answered == Total(req.readable) >= InHeaderLen
        wanted == IF req.op = "WRITE" /\ ErrorOf(req) = "ok" THEN 1 ELSE 0
        body == Pread(file, req.offset, Transfers(req, RoomFor(req)))
    IN /\ ~answered => used = 0
       /\ answered /\ Len(Offered) >= OutHeaderLen + wanted =>
            SubSeq(Offered, 1, OutHeaderLen) = OutHeader(used, ErrorOf(req))
       /\ ErrorOf(req) # "ok" => used <= OutHeaderLen
       /\ req.op = "READ" => SubSeq(Offered, OutHeaderLen + 1, used) = body
       /\ \A k \in (used + 1) .. Len(Offered) : Offered[k] = "empty"

(***************************************************************************)
(* A WRITE puts the payload, in order and from its first byte, where it    *)
(* was asked to, as far as the host takes it, reports how much that was,   *)
(* and changes no other cell; a request that fails changes none.           *)
(***************************************************************************)
WriteLands ==
  [][stage' = "served" =>
       LET n == IF req.op = "READ" THEN 0
                ELSE Transfers(req, Total(req.readable) - RequestHeaderLen)
       IN /\ file' = Pwrite(file, req.offset, [k \in 1 .. n |-> k])
          /\ req.op = "WRITE" /\ used' > OutHeaderLen =>
               Offered'[OutHeaderLen + 1] = <<"written", n>>]_vars

\* The daemon gives up on no chain that has as many descriptors as
\* MAX_CHAIN_LEN allows, and serves none that has more.
EndsOnLongChains ==
  /\ stage = "served" => ChainLen(req) <= MaxChain
  /\ stage = "refused" => ChainLen(req) > MaxChain
=============================================================================
