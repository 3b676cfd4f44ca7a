--------------------------- MODULE ControlChannel ---------------------------
(***************************************************************************)
(* The vhost-user socket (connection.rs, header.rs, payload.rs) and what   *)
(* becomes of the fds that arrive on it: Server::run and                   *)
(* handle_one_message (server.rs) at the level of the process's descriptor *)
(* table.  A number that is closed is the next one the kernel hands out,   *)
(* for a doorbell, a memory region or a file the guest opens.              *)
(*                                                                         *)
(* A message is cells in a byte stream, header first; recv returns some of *)
(* the cells of one sendmsg, and the fds of that sendmsg with its first.   *)
(***************************************************************************)
EXTENDS Doorbell, Integers, Sequences, FiniteSets

CONSTANTS
  Slots,       \* the vrings the daemon has: 0 .. NUM_QUEUES - 1
  Scripts,     \* what the front-end may send: sequences of requests
  HeaderLen,   \* cells of a header (12 bytes in the code)
  MaxPayload,  \* cells of the largest payload recv accepts (1 MiB)
  MaxFd,       \* numbers in the descriptor table
  MaxFiles,    \* bound of the model: files the guest has open
  MaxStream    \* bound of the model: sendmsg calls in the socket's buffer

ASSUME ChannelAssumption ==
  /\ Slots \subseteq Nat
  /\ HeaderLen \in Nat \ {0} /\ MaxPayload \in Nat
  /\ MaxFd \in Nat /\ MaxFiles \in Nat /\ MaxStream \in Nat
  /\ Scripts \subseteq Seq([request : STRING, index : Nat, num : Nat])

\* A doorbell comes with one fd or none, an fd is sent only to a vring that the
\* daemon has, and a memory table names no vring.
ASSUME RequestAssumption ==
  \A s \in Scripts : \A i \in DOMAIN s :
    /\ s[i].request \in {"SET_VRING_KICK", "SET_VRING_CALL"} /\ s[i].num > 0
         => s[i].index \in Slots
    /\ s[i].request \in {"SET_VRING_KICK", "SET_VRING_CALL", "SET_VRING_ERR"}
         => s[i].num <= 1
    /\ s[i].request = "SET_MEM_TABLE" => s[i].index = 0

VARIABLES
  kind,          \* what the front-end uses as doorbells
  script,        \* what the front-end will send
  sent,          \* what the front-end has sent, in order
  stream,        \* sendmsg calls not yet fully received: cells and fds
  unsent,        \* the second sendmsg of a message sent in two, or <<>>
  closed,        \* the front-end has closed the connection
  bell,          \* bell[i]: units pending on the doorbell of message i
  open,          \* the descriptor table: what each number refers to
  files,         \* numbers that belong to files the guest has opened
  slots, mem,    \* Server: the vrings' fds, the objects that are mapped
  pc, hup,       \* where run is; poll reported a hang-up
  kick_slots,    \* pairs <<vring, number>> that polled readable
  buf, fds,      \* recv: cells and fds received so far
  handled,       \* the messages handled, each with what its fds refer to
  replies,       \* requests that were replied to
  lost           \* fds that did not fit into the descriptor table

frontVars == <<kind, script, sent, unsent, closed>>
serverVars == <<slots, mem, pc, hup, kick_slots, buf, fds, handled, replies>>
vars == <<kind, script, sent, stream, unsent, closed, bell, open, files, slots,
          mem, pc, hup, kick_slots, buf, fds, handled, replies, lost>>

None == 0                 \* Rust's None for an fd
Closed == <<"closed", 0, 0>>
Fds == 1 .. MaxFd
RangeOf(s) == {s[i] : i \in DOMAIN s}

Init ==
  /\ kind \in BellKinds /\ script \in Scripts
  /\ sent = <<>> /\ stream = <<>> /\ unsent = <<>> /\ closed = FALSE
  /\ bell = [i \in DOMAIN script |-> NewBell]
  /\ open = [n \in Fds |-> Closed] /\ files = {}
  /\ slots = [q \in Slots |->
                [kick_fd |-> None, call_fd |-> None, enabled |-> FALSE]]
  /\ mem = <<>>
  /\ pc = "start" /\ hup = FALSE /\ kick_slots = {}
  /\ buf = <<>> /\ fds = <<>>
  /\ handled = <<>> /\ replies = <<>> /\ lost = FALSE
-----------------------------------------------------------------------------
(***************************************************************************)
(* The front-end (external) sends the messages of its script.  Message i   *)
(* has HeaderLen + size cells, <<i, 1>>, <<i, 2>> and so on, and carries   *)
(* the objects <<kind, i, 1>>, <<kind, i, 2>> and so on.  It asks for a    *)
(* number of fds: one per memory region, one or none per doorbell.         *)
(***************************************************************************)
Kind(request) ==
  CASE request = "SET_MEM_TABLE" -> "mem"
    [] request = "SET_VRING_KICK" -> "kick"
    [] request = "SET_VRING_CALL" -> "call"
    [] request = "SET_VRING_ERR" -> "err"
    [] OTHER -> "none"

Size(a) ==
  CASE a.request = "GET_FEATURES" -> 0
    [] a.request = "SET_MEM_TABLE" -> a.num
    [] a.request = "TOO_LARGE" -> MaxPayload + 1
    [] OTHER -> 1

Message(i, a) ==
  LET k == Kind(a.request)
  IN [request |-> a.request, index |-> a.index, num |-> a.num,
      no_fd |-> a.num = 0, size |-> Size(a),
      fds |-> [n \in 1 .. IF k = "none" THEN 0 ELSE a.num |-> <<k, i, n>>]]

Cells(i, size) == [k \in 1 .. HeaderLen + size |-> <<i, k>>]
Chunk(cells, objects) == [cells |-> cells, fds |-> objects]

\* One sendmsg, or header and payload apart, with the fds on either.
SendMessage ==
  /\ pc # "start" /\ Len(sent) < Len(script) /\ unsent = <<>> /\ ~closed
  /\ Len(stream) < MaxStream
  /\ LET i == Len(sent) + 1
         m == Message(i, script[i])
         cells == Cells(i, m.size)
         header == SubSeq(cells, 1, HeaderLen)
         payload == SubSeq(cells, HeaderLen + 1, Len(cells))
     IN /\ sent' = Append(sent, m)
        /\ \/ stream' = Append(stream, Chunk(cells, m.fds)) /\ unsent' = <<>>
           \/ /\ m.size > 0
              /\ stream' = Append(stream, Chunk(header, m.fds))
              /\ unsent' = <<Chunk(payload, <<>>)>>
           \/ /\ m.size > 0 /\ m.fds # <<>>
              /\ stream' = Append(stream, Chunk(header, <<>>))
              /\ unsent' = <<Chunk(payload, m.fds)>>
  /\ UNCHANGED <<kind, script, closed, bell, open, files, serverVars, lost>>

SendRest ==
  /\ unsent # <<>> /\ ~closed
  /\ stream' = stream \o unsent
  /\ unsent' = <<>>
  /\ UNCHANGED <<kind, script, sent, closed, bell, open, files, serverVars,
                 lost>>

\* A kick doorbell is rung, unless another has been sent in its place.
RingKick(i) ==
  /\ ~closed /\ i \in 1 .. Len(sent) /\ sent[i].request = "SET_VRING_KICK"
  /\ \A j \in i + 1 .. Len(sent) :
       ~(sent[j].request = "SET_VRING_KICK" /\ sent[j].index = sent[i].index)
  /\ Notify(bell[i]) # bell[i]
  /\ bell' = [bell EXCEPT ![i] = Notify(@)]
  /\ UNCHANGED <<stream, frontVars, open, files, serverVars, lost>>

\* A call doorbell is read until it is empty.
ConsumeCall(i) ==
  /\ i \in 1 .. Len(sent) /\ sent[i].request = "SET_VRING_CALL"
  /\ ReadableBell(bell[i])
  /\ bell' = [bell EXCEPT ![i] = ReadBell(kind, @)]
  /\ UNCHANGED <<stream, frontVars, open, files, serverVars, lost>>

CloseConnection ==
  /\ pc # "start" /\ ~closed /\ closed' = TRUE
  /\ UNCHANGED <<kind, script, sent, stream, unsent, bell, open, files,
                 serverVars, lost>>
-----------------------------------------------------------------------------
(***************************************************************************)
(* The descriptor table (external): the lowest free numbers are handed     *)
(* out; fds that arrive on a socket when there is none are lost.           *)
(***************************************************************************)
Free == {n \in Fds : open[n] = Closed}

Lowest(nums) ==
  /\ \A j, k \in DOMAIN nums : j < k => nums[j] < nums[k]
  /\ \A n \in Free \ RangeOf(nums) : \A k \in DOMAIN nums : nums[k] < n

Installed(nums, objects) ==
  [n \in Fds |-> IF \E k \in DOMAIN nums : nums[k] = n
                 THEN objects[CHOOSE k \in DOMAIN nums : nums[k] = n]
                 ELSE open[n]]

\* The fds of a sendmsg arrive, as many as fit.
Arrive(nums, objects) ==
  /\ Len(nums) <= Len(objects) /\ Lowest(nums)
  /\ Len(nums) = Len(objects) \/ Free = RangeOf(nums)
  /\ open' = Installed(nums, objects)
  /\ lost' = (lost \/ Len(nums) < Len(objects))

ReadableFd(n) ==
  CASE open[n][1] \in {"kick", "call", "err"} -> ReadableBell(bell[open[n][2]])
    [] open[n] = Closed -> FALSE
    [] OTHER -> TRUE
-----------------------------------------------------------------------------
(***************************************************************************)
(* main: the shared directory is opened and the socket bound, a front-end  *)
(* is accepted and served until it leaves.  Whatever fails ends the        *)
(* process.  A front-end can connect, and send, before it is accepted.     *)
(***************************************************************************)
Bind ==
  /\ pc = "start" /\ pc' \in {"accept", "exited"}
  /\ UNCHANGED <<stream, frontVars, bell, open, files, slots, mem, hup,
                 kick_slots, buf, fds, handled, replies, lost>>

Accept ==
  /\ pc = "accept" /\ pc' \in {"poll", "exited"}
  /\ UNCHANGED <<stream, frontVars, bell, open, files, slots, mem, hup,
                 kick_slots, buf, fds, handled, replies, lost>>

(***************************************************************************)
(* Server::run up to the message.                                          *)
(***************************************************************************)
\* Mutant: a vring that is not enabled is polled too.
PolledAlways(q) == slots[q].kick_fd # None

Polled(q) == slots[q].enabled /\ slots[q].kick_fd # None

Poll ==
  /\ pc = "poll"
  /\ LET ready == {q \in Slots : Polled(q) /\ ReadableFd(slots[q].kick_fd)}
         message == stream # <<>> \/ closed
     IN /\ message \/ ready # {}
        /\ kick_slots' = {<<q, slots[q].kick_fd>> : q \in ready}
        /\ pc' = IF message THEN "recv" ELSE "kicks"
  /\ hup' = closed
  /\ UNCHANGED <<stream, frontVars, bell, open, files, slots, mem, buf, fds,
                 handled, replies, lost>>

(***************************************************************************)
(* Connection::recv, one recv_with_fd at a time: first the header, then as *)
(* much payload as the header says.                                        *)
(***************************************************************************)
\* The message whose header the first cells are (MsgHeader::from_bytes).
Decoded(cells) == sent[cells[1][1]]

Wanted(cells) ==
  IF Len(cells) < HeaderLen THEN HeaderLen - Len(cells)
  ELSE HeaderLen + Decoded(cells).size - Len(cells)

\* Where recv stands once these cells are there.
After(cells) ==
  CASE Len(cells) < HeaderLen -> "recv"
    [] Len(cells) = HeaderLen /\ Decoded(cells).size > MaxPayload -> "exited"
    [] Wanted(cells) = 0 -> "handle"
    [] OTHER -> "recv"

\* Mutant: only the fds that come with the first recv are kept.
KeptFirst(nums) == IF buf = <<>> THEN nums ELSE fds

Kept(nums) == fds \o nums

Recv ==
  /\ pc = "recv" /\ stream # <<>>
  /\ LET chunk == Head(stream)
     IN \E k \in 1 .. Len(chunk.cells) :
          /\ k <= Wanted(buf)
          /\ buf' = buf \o SubSeq(chunk.cells, 1, k)
          /\ pc' = After(buf \o SubSeq(chunk.cells, 1, k))
          /\ stream' =
               IF k = Len(chunk.cells) THEN Tail(stream)
               ELSE <<Chunk(SubSeq(chunk.cells, k + 1, Len(chunk.cells)), <<>>)>>
                      \o Tail(stream)
          /\ \E len \in 0 .. Len(chunk.fds) : \E nums \in [1 .. len -> Free] :
               Arrive(nums, chunk.fds) /\ fds' = Kept(nums)
  /\ UNCHANGED <<frontVars, bell, files, slots, mem, hup, kick_slots, handled,
                 replies>>

\* Nothing more will come: recv_with_fd returns 0, ProtoError::Disconnected.
RecvEnds ==
  /\ pc = "recv" /\ stream = <<>> /\ closed
  /\ pc' = "exited"
  /\ UNCHANGED <<stream, frontVars, bell, open, files, slots, mem, hup,
                 kick_slots, buf, fds, handled, replies, lost>>
-----------------------------------------------------------------------------
(***************************************************************************)
(* Server::handle_one_message.  The vector of fds is a vector of numbers:  *)
(* what is not taken out of it stays open.                                 *)
(***************************************************************************)
TakeFd(m) == IF m.no_fd \/ fds = <<>> THEN None ELSE fds[1]

\* Mutant: the number that is replaced is not closed.
DroppedRaw(fd) == open

\* An OwnedFd goes out of scope.
Dropped(fd) == [n \in Fds |-> IF n = fd THEN Closed ELSE open[n]]

\* Mutant: a doorbell that is there already is kept, and the new one closed.
SetVringFdFirst(m, field) ==
  LET kept == m.index \in Slots /\ slots[m.index][field] # None
  IN /\ slots' = [q \in Slots |-> IF q = m.index /\ ~kept
                                  THEN [slots[q] EXCEPT ![field] = TakeFd(m)]
                                  ELSE slots[q]]
     /\ open' = IF kept THEN Dropped(TakeFd(m)) ELSE open
     /\ UNCHANGED <<mem, replies>>

\* Mutant: the number is stored, and the fd closed at the end of the arm.
SetVringFdScoped(m, field) ==
  /\ IF m.index \in Slots
     THEN /\ slots' = [slots EXCEPT ![m.index][field] = TakeFd(m)]
          /\ open' = Dropped(TakeFd(m))
     ELSE UNCHANGED <<slots, open>>
  /\ UNCHANGED <<mem, replies>>

SetVringFd(m, field) ==
  /\ IF m.index \in Slots
     THEN /\ slots' = [slots EXCEPT ![m.index][field] = TakeFd(m)]
          /\ open' = Dropped(slots[m.index][field])
     ELSE UNCHANGED <<slots, open>>
  /\ UNCHANGED <<mem, replies>>

SetVringErr(m) ==
  /\ open' = Dropped(TakeFd(m))
  /\ UNCHANGED <<slots, mem, replies>>

\* Mutant: enabling a vring that does not exist makes one.
SetVringEnableAny(m) ==
  /\ slots' = [q \in Slots \cup {m.index} |->
                 IF q = m.index
                 THEN [kick_fd |-> None, call_fd |-> None, enabled |-> m.num # 0]
                 ELSE slots[q]]
  /\ UNCHANGED <<open, mem, replies>>

SetVringEnable(m) ==
  /\ slots' = [q \in Slots |-> IF q = m.index
                               THEN [slots[q] EXCEPT !.enabled = (m.num # 0)]
                               ELSE slots[q]]
  /\ UNCHANGED <<open, mem, replies>>

\* Mutant: all regions are mapped from the first fd.
SetMemTableFirst(m) ==
  /\ m.num = Len(fds)
  /\ mem' = [k \in 1 .. m.num |-> open[fds[1]]]
  /\ UNCHANGED <<open, slots, replies>>

\* map_regions: each region with the fd in its place; the numbers stay open.
SetMemTable(m) ==
  /\ m.num = Len(fds)
  /\ mem' = [k \in 1 .. m.num |-> open[fds[k]]]
  /\ UNCHANGED <<open, slots, replies>>

Replied ==
  {"GET_FEATURES", "GET_PROTOCOL_FEATURES", "GET_QUEUE_NUM", "GET_VRING_BASE"}

Reply(m) ==
  /\ ~closed
  /\ replies' = Append(replies, m.request)
  /\ UNCHANGED <<open, slots, mem>>

\* The size, addresses and base of a vring are in VhostServer; a request the
\* daemon does not know is ignored.
Ignore == UNCHANGED <<open, slots, mem, replies>>

Handle(m) ==
  CASE m.request = "SET_MEM_TABLE" -> SetMemTable(m)
    [] m.request = "SET_VRING_KICK" -> SetVringFd(m, "kick_fd")
    [] m.request = "SET_VRING_CALL" -> SetVringFd(m, "call_fd")
    [] m.request = "SET_VRING_ERR" -> SetVringErr(m)
    [] m.request = "SET_VRING_ENABLE" -> SetVringEnable(m)
    [] m.request \in Replied -> Reply(m)
    [] OTHER -> Ignore

HandleOneMessage ==
  /\ pc = "handle"
  /\ LET m == Decoded(buf)
     IN /\ Handle(m)
        /\ handled' = Append(handled,
             [m EXCEPT !.fds = [k \in DOMAIN fds |-> open[fds[k]]]])
  /\ buf' = <<>> /\ fds' = <<>>
  /\ pc' = IF hup THEN "exited" ELSE "kicks"
  /\ UNCHANGED <<stream, frontVars, bell, files, hup, kick_slots, lost>>

\* Fewer fds than regions, mmap or a reply fails: the error ends the daemon.
HandleFails ==
  /\ pc = "handle"
  /\ \/ Decoded(buf).request = "SET_MEM_TABLE"
     \/ Decoded(buf).request \in Replied /\ closed
  /\ pc' = "exited"
  /\ UNCHANGED <<stream, frontVars, bell, open, files, slots, mem, hup,
                 kick_slots, buf, fds, handled, replies, lost>>
-----------------------------------------------------------------------------
(***************************************************************************)
(* Server::run after the message: the vrings that polled readable, lowest  *)
(* first.  drain_fd reads the number poll was given, whatever it refers to *)
(* by now; process_vring serves requests, which open and close files, and  *)
(* notifies if it served any.                                              *)
(***************************************************************************)
Current(p) == p \in kick_slots /\ \A r \in kick_slots : p[1] <= r[1]

KicksDone ==
  /\ pc = "kicks" /\ kick_slots = {}
  /\ pc' = "poll"
  /\ UNCHANGED <<stream, frontVars, bell, open, files, slots, mem, hup,
                 kick_slots, buf, fds, handled, replies, lost>>

Drain(p) ==
  /\ pc = "kicks" /\ Current(p)
  /\ IF open[p[2]][1] \in {"kick", "call", "err"}
     THEN LET i == open[p[2]][2]
          IN /\ bell' = [bell EXCEPT ![i] = ReadBell(kind, @)]
             /\ pc' = IF ReadAgain(kind, bell[i]) THEN "kicks" ELSE "serve"
     ELSE pc' = "serve" /\ UNCHANGED bell
  /\ UNCHANGED <<stream, frontVars, open, files, slots, mem, hup, kick_slots,
                 buf, fds, handled, replies, lost>>

OpenFile(n) ==
  /\ pc = "serve" /\ mem # <<>> /\ Cardinality(files) < MaxFiles
  /\ n \in Free /\ \A k \in Free : n <= k
  /\ open' = [open EXCEPT ![n] = <<"file", 0, 0>>]
  /\ files' = files \cup {n}
  /\ UNCHANGED <<stream, frontVars, bell, slots, mem, pc, hup, kick_slots, buf,
                 fds, handled, replies, lost>>

CloseFile(n) ==
  /\ pc = "serve" /\ mem # <<>> /\ n \in files
  /\ open' = [open EXCEPT ![n] = Closed]
  /\ files' = files \ {n}
  /\ UNCHANGED <<stream, frontVars, bell, slots, mem, pc, hup, kick_slots, buf,
                 fds, handled, replies, lost>>

FinishServe(p) ==
  /\ pc = "serve" /\ Current(p)
  /\ \/ LET fd == slots[p[1]].call_fd
        IN /\ mem # <<>> /\ fd # None
           /\ bell' = [bell EXCEPT ![open[fd][2]] = NotifyWord(kind, @)]
     \/ UNCHANGED bell
  /\ pc' = "kicks" /\ kick_slots' = kick_slots \ {p}
  /\ UNCHANGED <<stream, frontVars, open, files, slots, mem, hup, buf, fds,
                 handled, replies, lost>>
-----------------------------------------------------------------------------
Server ==
  \/ Bind \/ Accept
  \/ Poll \/ Recv \/ RecvEnds \/ HandleOneMessage \/ HandleFails \/ KicksDone
  \/ \E p \in kick_slots : Drain(p) \/ FinishServe(p)
  \/ \E n \in Fds : OpenFile(n) \/ CloseFile(n)

FrontEnd ==
  \/ SendMessage \/ SendRest \/ CloseConnection
  \/ \E i \in DOMAIN script : RingKick(i) \/ ConsumeCall(i)

Next == Server \/ FrontEnd

Spec == Init /\ [][Next]_vars
-----------------------------------------------------------------------------
Kinds == {"kick", "call", "err", "mem"}
Objects == Kinds \X (DOMAIN script) \X Nat
Owner(field) == {slots[q][field] : q \in Slots} \ {None}
Owned == Owner("kick_fd") \cup Owner("call_fd")

\* The type invariant.
TypeOK ==
  /\ Len(sent) <= Len(script)
  /\ bell \in [DOMAIN script -> 0 .. BellCap]
  /\ open \in [Fds -> Objects \cup {Closed, <<"file", 0, 0>>}]
  /\ files \subseteq Fds
  /\ slots \in [Slots -> [kick_fd : Fds \cup {None}, call_fd : Fds \cup {None},
                          enabled : BOOLEAN]]
  /\ mem \in Seq(Objects)
  /\ pc \in {"start", "accept", "poll", "recv", "handle", "kicks", "serve",
             "exited"}
  /\ kick_slots \in SUBSET (Slots \X Fds)
  /\ fds \in Seq(Fds)
  /\ closed \in BOOLEAN /\ hup \in BOOLEAN /\ lost \in BOOLEAN

(***************************************************************************)
(* The stream is cut into messages where the front-end cut it, however     *)
(* sends and receives split it: what is handled is what was sent, in order *)
(* and with its fds, unless the descriptor table had no room for them.     *)
(***************************************************************************)
Framed ==
  /\ Len(handled) <= Len(sent)
  /\ \A i \in DOMAIN handled :
       /\ [handled[i] EXCEPT !.fds = <<>>] = [sent[i] EXCEPT !.fds = <<>>]
       /\ Len(handled[i].fds) <= Len(sent[i].fds)
       /\ ~lost => handled[i].fds = sent[i].fds

LastHandled(i, req, q) ==
  /\ i \in DOMAIN handled /\ handled[i].request = req /\ handled[i].index = q
  /\ \A j \in i + 1 .. Len(handled) :
       ~(handled[j].request = req /\ handled[j].index = q)

\* The vring's fd is open and is the one that was sent for it last.
HasFdOf(q, field, req) ==
  LET fd == slots[q][field]
  IN \A i \in DOMAIN handled : LastHandled(i, req, q) =>
       IF fd = None THEN lost \/ sent[i].fds = <<>>
       ELSE sent[i].fds = <<open[fd]>>

(***************************************************************************)
(* Whatever was closed and handed out again meanwhile, the numbers that a  *)
(* vring holds refer to the doorbells the front-end gave it last.          *)
(***************************************************************************)
DoorbellsCurrent ==
  \A q \in Slots : /\ HasFdOf(q, "kick_fd", "SET_VRING_KICK")
                   /\ HasFdOf(q, "call_fd", "SET_VRING_CALL")

(***************************************************************************)
(* No number is lost: what is open belongs to a vring, to a file of the    *)
(* guest or to the message being received.  Only the fds of memory regions *)
(* stay open without an owner (server.rs:302).                             *)
(***************************************************************************)
FdsOwned ==
  \A n \in Fds : open[n] # Closed /\ open[n][1] # "mem"
                   => n \in files \cup Owned \cup RangeOf(fds)

(***************************************************************************)
(* No number has two owners, and none that has one is closed: closing or   *)
(* replacing a doorbell can never take a file, another doorbell or an fd   *)
(* just received away.                                                     *)
(***************************************************************************)
OneOwner ==
  /\ \A q, r \in Slots : \A f, g \in {"kick_fd", "call_fd"} :
       slots[q][f] # None /\ slots[q][f] = slots[r][g] => q = r /\ f = g
  /\ (files \cup RangeOf(fds)) \cap Owned = {}
  /\ \A n \in Owned \cup files : open[n] # Closed

\* After the first n requests of s the vring q is enabled.
EnabledAt(s, n, q) ==
  \E i \in 1 .. n :
    /\ s[i].request = "SET_VRING_ENABLE" /\ s[i].index = q /\ s[i].num # 0
    /\ \A j \in i + 1 .. n : ~(s[j].request = "SET_VRING_ENABLE" /\ s[j].index = q)

\* A front-end that gives a vring a kick fd only while it is disabled.
DisablesFirst(s) ==
  \A j \in DOMAIN s :
    s[j].request = "SET_VRING_KICK" => ~EnabledAt(s, j - 1, s[j].index)

(***************************************************************************)
(* drain_fd is called with a number that poll was given.  It still is a    *)
(* kick fd of that vring, or closed; never a file that was opened since.   *)
(***************************************************************************)
DrainsOwnKick ==
  pc \in {"kicks", "serve"} => \A p \in kick_slots :
    \/ open[p[2]] = Closed
    \/ open[p[2]][1] = "kick" /\ sent[open[p[2]][2]].index = p[1]

(***************************************************************************)
(* The mapped regions are those of the last table the front-end sent and   *)
(* the daemon took, each in its place, even when fds were lost on the way. *)
(***************************************************************************)
TableCurrent ==
  \A i \in DOMAIN handled :
    LastHandled(i, "SET_MEM_TABLE", 0) => mem = sent[i].fds
=============================================================================
