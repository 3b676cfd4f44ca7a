---------------------------- MODULE VhostServer -----------------------------
(***************************************************************************)
(* The daemon's event loop (server.rs) between a vhost-user front-end, on  *)
(* the control socket, and a guest driver, on the rings and the doorbells. *)
(*                                                                         *)
(* The loop is one thread: poll; at most one control message; then, for    *)
(* each vring whose kick fd polled readable, drain the fd and serve the    *)
(* ring until it is empty.  The front-end and the guest run concurrently   *)
(* with every step of it.  Serving a request (process_vring between        *)
(* pop_avail and push_used) touches none of this state.                    *)
(***************************************************************************)
EXTENDS Virtqueue

CONSTANTS
  Nil,         \* Rust's None
  Setup,       \* the order in which the front-end configures a vring
  KickFds,     \* "eventfd", "pipe", or "none": SET_VRING_KICK without an fd
  DrainBuf,    \* kicks that fill drain_fd's buffer when the fd is a pipe
  MaxInbox,    \* bound of the model: messages the socket holds
  MaxStarts,   \* bound of the model: how often the front-end starts the rings
  MayClose     \* whether the front-end may close the connection

ASSUME ServerAssumption ==
  /\ Nil \notin Nat
  /\ KickFds \in {"eventfd", "pipe", "none"}
  /\ DrainBuf \in Nat \ {0} /\ MaxStarts \in Nat \ {0}
  /\ MaxInbox \in Nat
  /\ MayClose \in BOOLEAN

VringRequests ==
  {"SET_VRING_NUM", "SET_VRING_BASE", "SET_VRING_ADDR", "SET_VRING_KICK",
   "SET_VRING_CALL", "SET_VRING_ENABLE"}

\* The front-end says where a vring stands and which doorbells it has before
\* it enables it, and it enables it last.
ASSUME SetupAssumption ==
  /\ Setup \in Seq(VringRequests)
  /\ \A req \in {"SET_VRING_BASE", "SET_VRING_KICK", "SET_VRING_CALL"} :
       \E i \in DOMAIN Setup : Setup[i] = req
  /\ \A i \in DOMAIN Setup : Setup[i] = "SET_VRING_ENABLE" <=> i = Len(Setup)

VARIABLES
  vrings, mem,    \* Server
  pc,             \* where run is
  kick_slots,     \* pairs <<vring, fd>> that polled readable, still to serve
  hup,            \* whether poll reported that the front-end hung up
  head,           \* the head process_vring popped last
  processed,      \* whether process_vring has served a request
  inbox, closed,  \* the control socket: unread messages, peer gone
  script,         \* script[q]: messages about vring q still to be sent
  starts,         \* how often it has started the rings
  bases,          \* replies to GET_VRING_BASE; Nil before they arrive
  paused,         \* the guest is paused, the rings are being stopped
  owed,           \* owed[q]: kicks the driver has still to make
  kick,           \* kick[q][n]: kicks pending on the n-th kick fd of vring q
  call,           \* call[q]: the call fd is readable
  reaping         \* reaping[q]: the driver is reading the used ring

serverVars == <<vrings, mem, pc, kick_slots, hup, head, processed>>
frontVars == <<inbox, closed, script, starts, bases, paused>>
bellVars == <<owed, kick, call, reaping>>
vars == <<ringVars, driverVars, serverVars, frontVars, bellVars>>

VringSlot == [queue_size: {QueueSize, Nil}, pending_avail_base: Indices,
              vq: Indices \cup {Nil}, kick_fd: (1 .. MaxStarts) \cup {Nil},
              call_fd: BOOLEAN, enabled: BOOLEAN]

Messages == [req: VringRequests \cup {"GET_FEATURES", "SET_MEM_TABLE", "GET_VRING_BASE"},
             index: Queues \cup {Nil}, num: Nat \cup {Nil}]

Message(req, q, num) == [req |-> req, index |-> q, num |-> num]

\* What the front-end sends to configure vring q for the n-th time.
Configure(q, n, base) ==
  LET num(req) == CASE req = "SET_VRING_BASE" -> base
                    [] req = "SET_VRING_KICK" ->
                         IF KickFds = "none" THEN Nil ELSE n
                    [] OTHER -> 1
  IN [i \in DOMAIN Setup |-> Message(Setup[i], q, num(Setup[i]))]

Init ==
  /\ RingInit
  /\ vrings = [q \in Queues |->
                 [queue_size |-> Nil, pending_avail_base |-> 0, vq |-> Nil,
                  kick_fd |-> Nil, call_fd |-> FALSE, enabled |-> FALSE]]
  /\ mem = FALSE
  /\ pc = "poll" /\ kick_slots = {} /\ hup = FALSE
  /\ head = 0 /\ processed = FALSE
  /\ inbox = <<Message("GET_FEATURES", Nil, 0), Message("SET_MEM_TABLE", Nil, 0)>>
  /\ closed = FALSE
  /\ script = [q \in Queues |-> Configure(q, 1, 0)]
  /\ starts = 1
  /\ bases = [q \in Queues |-> Nil]
  /\ paused = FALSE
  /\ owed = [q \in Queues |-> 0]
  /\ kick = [q \in Queues |-> [n \in 1 .. MaxStarts |-> IF n = 1 THEN 1 ELSE 0]]
  /\ call = [q \in Queues |-> FALSE]
  /\ reaping = [q \in Queues |-> FALSE]
-----------------------------------------------------------------------------
(***************************************************************************)
(* The guest's driver (external).  It owes a kick for each request it has  *)
(* made available; an interrupt makes it read the used ring until it is    *)
(* empty.                                                                  *)
(***************************************************************************)
Submit(q, h) ==
  /\ ~paused
  /\ AddAvail(q, h)
  /\ owed' = [owed EXCEPT ![q] = @ + 1]
  /\ UNCHANGED <<serverVars, frontVars, kick, call, reaping>>

Kick(q) ==
  /\ ~paused /\ owed[q] > 0
  /\ owed' = [owed EXCEPT ![q] = @ - 1]
  /\ kick' = [kick EXCEPT ![q][starts] = @ + 1]
  /\ UNCHANGED <<ringVars, driverVars, serverVars, frontVars, call, reaping>>

Interrupt(q) ==
  /\ ~paused /\ call[q]
  /\ call' = [call EXCEPT ![q] = FALSE]
  /\ reaping' = [reaping EXCEPT ![q] = TRUE]
  /\ UNCHANGED <<ringVars, driverVars, serverVars, frontVars, owed, kick>>

Reap(q) ==
  /\ ~paused /\ reaping[q]
  /\ \/ /\ ReadUsed(q)
        /\ UNCHANGED reaping
     \/ /\ ~MoreUsed(q)
        /\ reaping' = [reaping EXCEPT ![q] = FALSE]
        /\ UNCHANGED <<ringVars, driverVars>>
  /\ UNCHANGED <<serverVars, frontVars, owed, kick, call>>
-----------------------------------------------------------------------------
(***************************************************************************)
(* The front-end (external).  To stop, it pauses the guest, disables every *)
(* vring and asks where each one stands; to start again, it configures     *)
(* each one from there, with a new kick fd that is readable from the       *)
(* start, as a virtio host notifier is.                                    *)
(***************************************************************************)
Send(q) ==
  /\ ~closed /\ script[q] # <<>> /\ Len(inbox) < MaxInbox
  /\ inbox' = Append(inbox, Head(script[q]))
  /\ script' = [script EXCEPT ![q] = Tail(@)]
  /\ UNCHANGED <<ringVars, driverVars, serverVars, closed, starts, bases,
                 paused, bellVars>>

Stop ==
  /\ ~closed /\ ~paused /\ starts < MaxStarts
  /\ \A q \in Queues : script[q] = <<>>
  /\ paused' = TRUE
  /\ script' = [q \in Queues |-> <<Message("SET_VRING_ENABLE", q, 0),
                                   Message("GET_VRING_BASE", q, 0)>>]
  /\ UNCHANGED <<ringVars, driverVars, serverVars, inbox, closed, starts,
                 bases, bellVars>>

Restart ==
  /\ ~closed /\ paused /\ \A q \in Queues : bases[q] # Nil
  /\ paused' = FALSE
  /\ starts' = starts + 1
  /\ script' = [q \in Queues |-> Configure(q, starts + 1, bases[q])]
  /\ bases' = [q \in Queues |-> Nil]
  /\ kick' = [q \in Queues |-> [kick[q] EXCEPT ![starts + 1] = 1]]
  /\ UNCHANGED <<ringVars, driverVars, serverVars, inbox, closed, owed, call,
                 reaping>>

Close ==
  /\ MayClose /\ ~closed
  /\ closed' = TRUE
  /\ UNCHANGED <<ringVars, driverVars, serverVars, inbox, script, starts,
                 bases, paused, bellVars>>
-----------------------------------------------------------------------------
(***************************************************************************)
(* Server::run.                                                            *)
(***************************************************************************)
Readable(q) ==
  LET fd == vrings[q].kick_fd
  IN vrings[q].enabled /\ fd # Nil /\ kick[q][fd] > 0

\* poll blocks until the socket or the kick fd of an enabled vring is readable.
Poll ==
  /\ pc = "poll"
  /\ LET ready == {q \in Queues : Readable(q)}
         message == inbox # <<>> \/ closed
     IN /\ message \/ ready # {}
        /\ kick_slots' = {<<q, vrings[q].kick_fd>> : q \in ready}
        /\ pc' = IF message THEN "message" ELSE "kicks"
  /\ hup' = closed
  /\ UNCHANGED <<ringVars, driverVars, vrings, mem, head, processed, frontVars,
                 bellVars>>

(***************************************************************************)
(* handle_one_message, by what each request does to the slot it names.     *)
(***************************************************************************)
MaybeBuild(slot) ==
  IF slot.queue_size = Nil THEN slot
  ELSE [slot EXCEPT !.vq = slot.pending_avail_base]

SetBase(slot, base) ==
  [slot EXCEPT !.pending_avail_base = base,
               !.vq = IF @ = Nil THEN Nil ELSE base]

\* Mutant: the base the front-end set, not how far the ring has been consumed.
AvailBasePending(slot) == IF slot.vq = Nil THEN 0 ELSE slot.pending_avail_base

AvailBase(slot) == IF slot.vq = Nil THEN 0 ELSE slot.vq

Configured(slot, m) ==
  CASE m.req = "SET_VRING_NUM" -> [slot EXCEPT !.queue_size = QueueSize]
    [] m.req = "SET_VRING_ADDR" -> MaybeBuild(slot)
    [] m.req = "SET_VRING_BASE" -> SetBase(slot, m.num)
    [] m.req = "SET_VRING_KICK" -> [slot EXCEPT !.kick_fd = m.num]
    [] m.req = "SET_VRING_CALL" -> [slot EXCEPT !.call_fd = TRUE]
    [] m.req = "SET_VRING_ENABLE" -> [slot EXCEPT !.enabled = (m.num # 0)]
    [] OTHER -> slot

\* The message to be handled is one with a reply, and nobody is left to take it.
ReplyFails ==
  /\ closed /\ inbox # <<>>
  /\ Head(inbox).req \in {"GET_FEATURES", "GET_VRING_BASE"}

HandleOneMessage ==
  /\ pc = "message" /\ inbox # <<>> /\ ~ReplyFails
  /\ LET m == Head(inbox)
     IN /\ vrings' = [q \in Queues |-> IF q = m.index THEN Configured(vrings[q], m)
                                                       ELSE vrings[q]]
        /\ mem' = (mem \/ m.req = "SET_MEM_TABLE")
        /\ bases' = IF m.req = "GET_VRING_BASE"
                    THEN [bases EXCEPT ![m.index] = AvailBase(vrings[m.index])]
                    ELSE bases
  /\ inbox' = Tail(inbox)
  /\ pc' = IF hup THEN "exited" ELSE "kicks"
  /\ UNCHANGED <<ringVars, driverVars, kick_slots, hup, head, processed, closed,
                 script, starts, paused, bellVars>>

\* recv finds the connection at its end, or the reply cannot be sent: either
\* is an error that ends the daemon, whatever the socket still holds.
Disconnected ==
  /\ pc = "message"
  /\ inbox = <<>> \/ ReplyFails
  /\ pc' = "exited"
  /\ UNCHANGED <<ringVars, driverVars, vrings, mem, kick_slots, hup, head,
                 processed, frontVars, bellVars>>

\* Where the loop over kick_slots is, in the order of the vrings.
Turn == CHOOSE s \in kick_slots : \A t \in kick_slots : s[1] <= t[1]
Current == Turn[1]
CurrentFd == Turn[2]

KicksDone ==
  /\ pc = "kicks" /\ kick_slots = {}
  /\ pc' = "poll"
  /\ UNCHANGED <<ringVars, driverVars, vrings, mem, kick_slots, hup, head,
                 processed, frontVars, bellVars>>

(***************************************************************************)
(* drain_fd.  An eventfd gives up its whole count in one short read.  A    *)
(* pipe gives up to a buffer full, and is read again after a full one:     *)
(* the next read blocks while the pipe is empty.  An fd that the message   *)
(* just handled has replaced is closed, and the read fails.                *)
(***************************************************************************)
Drained(q, fd) ==
  IF vrings[q].kick_fd # fd THEN 0
  ELSE IF KickFds = "eventfd" \/ kick[q][fd] < DrainBuf THEN kick[q][fd]
  ELSE DrainBuf

FullRead(q, fd) == KickFds = "pipe" /\ Drained(q, fd) = DrainBuf

\* process_vring, up to its loop: without memory or rings there is no work.
BeginVring(q) ==
  IF mem /\ vrings[q].vq # Nil
  THEN pc' = "pop" /\ UNCHANGED kick_slots
  ELSE pc' = "kicks" /\ kick_slots' = kick_slots \ {Turn}

Drain ==
  /\ pc = "kicks" /\ kick_slots # {}
  /\ vrings[Current].kick_fd = CurrentFd => kick[Current][CurrentFd] > 0
  /\ kick' = [kick EXCEPT ![Current][CurrentFd] =
                @ - Drained(Current, CurrentFd)]
  /\ IF FullRead(Current, CurrentFd)
     THEN UNCHANGED <<pc, kick_slots>>
     ELSE BeginVring(Current)
  /\ processed' = FALSE
  /\ UNCHANGED <<ringVars, driverVars, vrings, mem, hup, head, frontVars, owed,
                 call, reaping>>

PopAvail ==
  /\ pc = "pop" /\ MoreAvail(Current, vrings[Current].vq)
  /\ head' = HeadAt(Current, vrings[Current].vq)
  /\ vrings' = [vrings EXCEPT ![Current].vq = Succ(@)]
  /\ pc' = "push"
  /\ UNCHANGED <<ringVars, driverVars, mem, kick_slots, hup, processed,
                 frontVars, bellVars>>

\* Mutant: the index is published before the element is written.
PushUsedIndexFirst ==
  /\ \/ pc = "push" /\ AdvanceUsedIdx(Current) /\ pc' = "publish"
        /\ UNCHANGED processed
     \/ pc = "publish" /\ pc' = "pop"
        /\ used_ring' = [used_ring EXCEPT ![Current] =
              [s \in Heads |-> IF (s + 1) % QueueSize = Slot(used_idx[Current])
                               THEN head ELSE @[s]]]
        /\ UNCHANGED <<avail_ring, avail_idx, used_idx>>
        /\ processed' = TRUE
  /\ UNCHANGED <<driverVars, vrings, mem, kick_slots, hup, head, frontVars,
                 bellVars>>

\* Mutant: one request is served per wake-up.
PushUsedOnce ==
  /\ \/ pc = "push" /\ WriteUsedElem(Current, head) /\ pc' = "publish"
        /\ UNCHANGED <<kick_slots, call>>
     \/ pc = "publish" /\ AdvanceUsedIdx(Current) /\ pc' = "kicks"
        /\ kick_slots' = kick_slots \ {Turn}
        /\ call' = [call EXCEPT ![Current] = @ \/ vrings[Current].call_fd]
  /\ UNCHANGED <<driverVars, vrings, mem, hup, head, processed, frontVars,
                 owed, kick, reaping>>

PushUsed ==
  /\ \/ pc = "push" /\ WriteUsedElem(Current, head) /\ pc' = "publish"
        /\ UNCHANGED processed
     \/ pc = "publish" /\ AdvanceUsedIdx(Current) /\ pc' = "pop"
        /\ processed' = TRUE
  /\ UNCHANGED <<driverVars, vrings, mem, kick_slots, hup, head, frontVars,
                 bellVars>>

\* Mutant: the first vring is notified, whichever was served.
FinishVringNotifiesFirst ==
  /\ pc = "pop" /\ ~MoreAvail(Current, vrings[Current].vq)
  /\ call' = [call EXCEPT ![0] =
                @ \/ (processed /\ vrings[Current].call_fd)]
  /\ pc' = "kicks"
  /\ kick_slots' = kick_slots \ {Turn}
  /\ UNCHANGED <<ringVars, driverVars, vrings, mem, hup, head, processed,
                 frontVars, owed, kick, reaping>>

\* Mutant: a vring that has just been disabled is not notified.
FinishVringIfEnabled ==
  /\ pc = "pop" /\ ~MoreAvail(Current, vrings[Current].vq)
  /\ call' = [call EXCEPT ![Current] =
                @ \/ (processed /\ vrings[Current].enabled)]
  /\ pc' = "kicks"
  /\ kick_slots' = kick_slots \ {Turn}
  /\ UNCHANGED <<ringVars, driverVars, vrings, mem, hup, head, processed,
                 frontVars, owed, kick, reaping>>

\* The ring is empty: the guest is notified if anything was served.
FinishVring ==
  /\ pc = "pop" /\ ~MoreAvail(Current, vrings[Current].vq)
  /\ call' = [call EXCEPT ![Current] =
                @ \/ (processed /\ vrings[Current].call_fd)]
  /\ pc' = "kicks"
  /\ kick_slots' = kick_slots \ {Turn}
  /\ UNCHANGED <<ringVars, driverVars, vrings, mem, hup, head, processed,
                 frontVars, owed, kick, reaping>>
-----------------------------------------------------------------------------
Server ==
  \/ Poll \/ HandleOneMessage \/ Disconnected
  \/ KicksDone \/ Drain \/ PopAvail \/ PushUsed \/ FinishVring

FrontEnd == (\E q \in Queues : Send(q)) \/ Stop \/ Restart \/ Close

Guest(q) ==
  \/ \E h \in Heads : Submit(q, h)
  \/ Kick(q) \/ Interrupt(q) \/ Reap(q)

Next == Server \/ FrontEnd \/ \E q \in Queues : Guest(q)

Spec == Init /\ [][Next]_vars

(***************************************************************************)
(* The loop's thread runs whenever it can.  The driver makes the kicks it  *)
(* owes, takes its interrupts and reads its replies; the front-end sends   *)
(* what it has started to send and restarts what it has stopped.  Nobody   *)
(* has to submit, stop or close.                                           *)
(***************************************************************************)
Fairness ==
  /\ WF_vars(Server)
  /\ WF_vars(Restart)
  /\ \A q \in Queues :
       WF_vars(Send(q)) /\ WF_vars(Kick(q)) /\ WF_vars(Interrupt(q)) /\ WF_vars(Reap(q))

FairSpec == Spec /\ Fairness
-----------------------------------------------------------------------------
\* The type invariant.
TypeOK ==
  /\ RingTypeOK
  /\ vrings \in [Queues -> VringSlot]
  /\ mem \in BOOLEAN
  /\ pc \in {"poll", "message", "kicks", "pop", "push", "publish", "exited"}
  /\ kick_slots \subseteq Queues \X (1 .. MaxStarts)
  /\ pc \in {"pop", "push", "publish"} => kick_slots # {}
  /\ hup \in BOOLEAN /\ closed \in BOOLEAN /\ processed \in BOOLEAN
  /\ head \in Heads
  /\ inbox \in Seq(Messages) /\ script \in [Queues -> Seq(Messages)]
  /\ starts \in 1 .. MaxStarts
  /\ bases \in [Queues -> Indices \cup {Nil}]
  /\ paused \in BOOLEAN
  /\ owed \in [Queues -> Nat]
  /\ kick \in [Queues -> [1 .. MaxStarts -> Nat]]
  /\ call \in [Queues -> BOOLEAN]
  /\ reaping \in [Queues -> BOOLEAN]

\* The loop is inside process_vring for vring q.
Serving(q) == pc \in {"pop", "push", "publish"} /\ Current = q

(***************************************************************************)
(* No wake-up is lost on the way in: a request that is available on a      *)
(* vring that is being polled has a kick coming, or pending on the fd that *)
(* is polled, or the loop is serving that vring and will look again.       *)
(***************************************************************************)
KickPending ==
  \A q \in Queues :
    LET slot == vrings[q]
    IN /\ slot.enabled /\ slot.kick_fd # Nil /\ slot.vq # Nil
       /\ MoreAvail(q, slot.vq)
       => owed[q] > 0 \/ kick[q][slot.kick_fd] > 0 \/ Serving(q)

(***************************************************************************)
(* No wake-up is lost on the way out: a reply in the used ring that the    *)
(* driver has not read has an interrupt pending, or the driver is reading, *)
(* or the loop is still serving that vring and will notify at its end.     *)
(***************************************************************************)
CallPending ==
  \A q \in Queues :
    MoreUsed(q) => call[q] \/ reaping[q] \/ (Serving(q) /\ processed)

(***************************************************************************)
(* Every request is served once, in order, and its reply is read once, in  *)
(* order, whatever the front-end does meanwhile.  The chains between the   *)
(* used and the available index are the ones that wait.                    *)
(***************************************************************************)
Requests ==
  INSTANCE RequestQueue WITH
    waiting <- [q \in Queues |->
                  Entries(avail_ring[q], used_idx[q], avail_idx[q])],
    done <- [q \in Queues |->
               Entries(used_ring[q], last_used[q], used_idx[q])]

ServedOnceInOrder == Requests!Spec

(***************************************************************************)
(* Every request the guest makes available is answered, and the driver     *)
(* reads the answer: its descriptors come back, unless the front-end goes. *)
(***************************************************************************)
Answered ==
  \A q \in Queues : \A h \in Heads :
    h \notin free[q] ~> (h \in free[q] \/ closed)

\* The front-end is told where a vring stands: no request before that index
\* is unserved and none after it has been started.
BaseExact ==
  \A q \in Queues : bases[q] # Nil => bases[q] = used_idx[q]
=============================================================================
