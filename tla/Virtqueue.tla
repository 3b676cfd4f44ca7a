------------------------------ MODULE Virtqueue -----------------------------
(***************************************************************************)
(* Split virtqueues (virtqueue.rs): the rings in guest memory, what the    *)
(* daemon does to them, and the guest's driver (external).                 *)
(*                                                                         *)
(* A descriptor chain is its head.  Ring indices count modulo IdxMod, as   *)
(* the code's u16 counts modulo 2^16, and a slot is an index modulo the    *)
(* queue size.  Memory is sequentially consistent: the code emits no       *)
(* barriers and says so (memory.rs), which x86 does not need.              *)
(***************************************************************************)
EXTENDS Naturals, FiniteSets, Sequences

CONSTANTS
  Queues,      \* the vrings: 0 is hiprio, 1 the request queue
  QueueSize,   \* descriptors and ring slots of a queue
  IdxMod,      \* ring indices wrap here (2^16 in the code)
  MaxRequests  \* bound of the model: requests the guest makes per queue

ASSUME VirtqueueAssumption ==
  /\ Queues \subseteq Nat
  /\ QueueSize \in Nat \ {0} /\ IdxMod \in Nat /\ MaxRequests \in Nat
  /\ QueueSize < IdxMod /\ IdxMod % QueueSize = 0

VARIABLES
  avail_ring, avail_idx,  \* written by the guest
  used_ring, used_idx,    \* written by the daemon
  free,        \* free[q]: heads of descriptors the driver has not handed out
  last_used,   \* last_used[q]: how far the driver has read the used ring
  requests     \* requests[q]: requests made so far

ringVars == <<avail_ring, avail_idx, used_ring, used_idx>>
driverVars == <<free, last_used, requests>>

Heads == 0 .. (QueueSize - 1)
Indices == 0 .. (IdxMod - 1)
Slot(idx) == idx % QueueSize

\* Mutant: the index is not wrapped.
SuccUnwrapped(idx) == idx + 1

Succ(idx) == (idx + 1) % IdxMod

RingInit ==
  /\ avail_ring = [q \in Queues |-> [s \in Heads |-> 0]]
  /\ used_ring = [q \in Queues |-> [s \in Heads |-> 0]]
  /\ avail_idx = [q \in Queues |-> 0]
  /\ used_idx = [q \in Queues |-> 0]
  /\ free = [q \in Queues |-> Heads]
  /\ last_used = [q \in Queues |-> 0]
  /\ requests = [q \in Queues |-> 0]
-----------------------------------------------------------------------------
(***************************************************************************)
(* The driver: a chain becomes available by its head in the next slot and  *)
(* the index that covers the slot; a reply is read off the used ring.      *)
(***************************************************************************)
AddAvail(q, h) ==
  /\ h \in free[q] /\ requests[q] < MaxRequests
  /\ free' = [free EXCEPT ![q] = @ \ {h}]
  /\ avail_ring' = [avail_ring EXCEPT ![q][Slot(avail_idx[q])] = h]
  /\ avail_idx' = [avail_idx EXCEPT ![q] = Succ(@)]
  /\ requests' = [requests EXCEPT ![q] = @ + 1]
  /\ UNCHANGED <<used_ring, used_idx, last_used>>

MoreUsed(q) == used_idx[q] # last_used[q]

ReadUsed(q) ==
  /\ MoreUsed(q)
  /\ free' = [free EXCEPT ![q] = @ \cup {used_ring[q][Slot(last_used[q])]}]
  /\ last_used' = [last_used EXCEPT ![q] = Succ(@)]
  /\ UNCHANGED <<ringVars, requests>>
-----------------------------------------------------------------------------
\* pop_avail, for a queue consumed up to last_avail_idx: whether there is a
\* chain, and which.
MoreAvail(q, last_avail_idx) == avail_idx[q] # last_avail_idx
HeadAt(q, last_avail_idx) == avail_ring[q][Slot(last_avail_idx)]

\* push_used: the element, and then the index that covers it.
WriteUsedElem(q, head) ==
  /\ used_ring' = [used_ring EXCEPT ![q][Slot(used_idx[q])] = head]
  /\ UNCHANGED <<avail_ring, avail_idx, used_idx>>

AdvanceUsedIdx(q) ==
  /\ used_idx' = [used_idx EXCEPT ![q] = Succ(@)]
  /\ UNCHANGED <<avail_ring, avail_idx, used_ring>>
-----------------------------------------------------------------------------
RingTypeOK ==
  /\ avail_ring \in [Queues -> [Heads -> Heads]]
  /\ used_ring \in [Queues -> [Heads -> Heads]]
  /\ avail_idx \in [Queues -> Indices]
  /\ used_idx \in [Queues -> Indices]
  /\ free \in [Queues -> SUBSET Heads]
  /\ last_used \in [Queues -> Indices]
  /\ requests \in [Queues -> 0 .. MaxRequests]

\* How many slots lie between two indices of a ring, and the entries in them.
Ahead(idx, last) == (idx + IdxMod - last) % IdxMod
Entries(ring, last, idx) ==
  [i \in 1 .. Ahead(idx, last) |-> ring[Slot((last + i - 1) % IdxMod)]]
=============================================================================
