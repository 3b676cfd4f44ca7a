------------------------- MODULE ControlVringProofs -------------------------
(***************************************************************************)
(* Proofs about what control messages leave: the doorbells of vrings, the  *)
(* memory table, the owners of numbers, and what drain_fd reads.  They     *)
(* rest on the framing of messages.                                        *)
(***************************************************************************)
EXTENDS ControlChannelProofs

\* What the i-th message says is what the script asks for.
Says(i) ==
  /\ i \in DOMAIN script /\ sent[i] \in Messages
  /\ sent[i].no_fd <=> sent[i].num = 0
  /\ Len(sent[i].fds) = IF Kind(sent[i].request) = "none" THEN 0 ELSE sent[i].num
  /\ \A k \in 1 .. Len(sent[i].fds) : sent[i].fds[k] = <<Kind(sent[i].request), i, k>>
  /\ sent[i].request \in {"SET_VRING_KICK", "SET_VRING_CALL"} /\ sent[i].num > 0
       => sent[i].index \in Slots
  /\ sent[i].request \in {"SET_VRING_KICK", "SET_VRING_CALL", "SET_VRING_ERR"}
       => sent[i].num <= 1
  /\ sent[i].request = "SET_MEM_TABLE" => sent[i].index = 0

\* A message is made from its request.
LEMMA MessageSays ==
  ASSUME FrameInv, NEW i \in 1 .. Len(sent)
  PROVE  Says(i)
<1> DEFINE a == script[i]
           n == IF Kind(a.request) = "none" THEN 0 ELSE a.num
<1>1. /\ script \in Scripts /\ script \in Seq([request : STRING, index : Nat, num : Nat])
      /\ sent \in Seq(Messages) /\ Len(sent) <= Len(script) /\ sent[i] = Message(i, a)
  BY ChannelAssumption DEF FrameInv, OwnerInv, WireTypes, SentInv
<1>2. i \in DOMAIN script /\ i \in 1 .. Len(script)
  BY <1>1
<1>3. a \in [request : STRING, index : Nat, num : Nat]
  BY Zenon, <1>1, <1>2, ElementOfSeq
<1>4. sent[i] \in Messages
  BY <1>1, ElementOfSeq
<1>5. /\ a.request \in {"SET_VRING_KICK", "SET_VRING_CALL"} /\ a.num > 0 => a.index \in Slots
      /\ a.request \in {"SET_VRING_KICK", "SET_VRING_CALL", "SET_VRING_ERR"} => a.num <= 1
      /\ a.request = "SET_MEM_TABLE" => a.index = 0
  BY Zenon, <1>1, <1>2, RequestAssumption
<1> HIDE DEF a
<1>6. n \in Nat
  BY <1>3
<1> HIDE DEF n
<1>7. /\ sent[i].request = a.request /\ sent[i].index = a.index /\ sent[i].num = a.num
      /\ sent[i].no_fd = (a.num = 0)
      /\ sent[i].fds = [k \in 1 .. n |-> <<Kind(a.request), i, k>>]
  BY <1>1 DEF Message, n
<1>8. Len(sent[i].fds) = n
  BY <1>6, <1>7
<1> QED
  BY Zenon, <1>2, <1>4, <1>5, <1>7, <1>8 DEF Says, n

\* Which message is the last of its kind once h is handled.
LEMMA LastIs ==
  ASSUME handled \in Seq(Messages), NEW h \in Messages, handled' = Append(handled, h),
         NEW req, NEW q, NEW i, LastHandled(i, req, q)'
  PROVE  IF h.request = req /\ h.index = q THEN i = Len(handled) + 1
         ELSE i \in DOMAIN handled /\ LastHandled(i, req, q)
<1> DEFINE n == Len(handled)
<1>1. /\ n \in Nat /\ Len(handled') = n + 1 /\ handled'[n + 1] = h
      /\ DOMAIN handled' = 1 .. n + 1 /\ DOMAIN handled = 1 .. n
      /\ \A j \in 1 .. n : handled'[j] = handled[j]
  BY AppendProperties
<1>2. /\ i \in 1 .. n + 1 /\ handled'[i].request = req /\ handled'[i].index = q
      /\ \A j \in i + 1 .. n + 1 : ~(handled'[j].request = req /\ handled'[j].index = q)
  BY <1>1 DEF LastHandled
<1> HIDE DEF n
<1>3. CASE i = n + 1
  BY <1>1, <1>2, <1>3 DEF n
<1>4. CASE i # n + 1
  <2>1. i \in 1 .. n /\ n + 1 \in i + 1 .. n + 1
    BY <1>1, <1>2, <1>4
  <2>2. ~(h.request = req /\ h.index = q)
    BY <1>1, <1>2, <2>1
  <2>3. \A j \in i + 1 .. n : j \in i + 1 .. n + 1 /\ j \in 1 .. n
    BY <1>1, <2>1
  <2>4. LastHandled(i, req, q)
    BY <1>1, <1>2, <2>1, <2>3 DEF LastHandled, n
  <2> QED
    BY <1>1, <2>1, <2>2, <2>4
<1> QED
  BY <1>3, <1>4

\* A vring's fd stays the right one when it stays what it was and no other is sent.
LEMMA FdOfKept ==
  ASSUME NEW q, NEW field, NEW req, HasFdOf(q, field, req),
         slots'[q][field] = slots[q][field],
         slots[q][field] # None => open'[slots[q][field]] = open[slots[q][field]],
         lost => lost', \A i \in DOMAIN handled : sent'[i].fds = sent[i].fds,
         \A i \in DOMAIN handled' :
           LastHandled(i, req, q)' => i \in DOMAIN handled /\ LastHandled(i, req, q)
  PROVE  HasFdOf(q, field, req)'
BY Zenon DEF HasFdOf

\* What recv does to the descriptor table.
Arrivals(c) ==
  /\ \A n \in Fds : open[n] # Closed => open'[n] = open[n]
  /\ \A n \in Fds : \/ open'[n] = open[n]
                    \/ n \in RangeOf(fds') /\ \E k \in 1 .. Len(c.fds) : open'[n] = c.fds[k]
  /\ RangeOf(fds) \subseteq RangeOf(fds')
  /\ lost => lost'

\* Fds arrive at numbers that were free, which the message then has.
LEMMA RecvArrivals ==
  ASSUME FrameInv, Recv
  PROVE  Arrivals(Head(stream))
<1> DEFINE chunk == Head(stream)
<1>1. chunk \in Chunks
  BY HeadTailProperties DEF Recv, FrameInv, OwnerInv, WireTypes
<1>2. PICK len \in 0 .. Len(chunk.fds) : \E nums \in [1 .. len -> Free] :
        Arrive(nums, chunk.fds) /\ fds' = Kept(nums)
  BY Zenon DEF Recv
<1> HIDE DEF chunk
<1>3. PICK nums \in [1 .. len -> Free] :
        Arrive(nums, chunk.fds) /\ fds' = Kept(nums)
  BY <1>2
<1>4. /\ chunk.fds \in Seq(Sendable) /\ Len(chunk.fds) \in Nat
      /\ len \in Nat /\ len <= Len(chunk.fds)
      /\ open \in [Fds -> Held] /\ fds \in Seq(Fds) /\ Len(fds) \in Nat
  BY <1>1 DEF Chunks, FrameInv, OwnerInv, FdTypes
<1>5. /\ Lowest(nums) /\ open' = Installed(nums, chunk.fds)
      /\ lost' = (lost \/ Len(nums) < Len(chunk.fds))
  BY <1>3 DEF Arrive
<1>6. nums \in Seq(Fds) /\ Len(nums) = len
  <2>1. nums \in [1 .. len -> Fds]
    BY DEF Free
  <2> QED
    BY <1>4, <2>1
<1>7. \A k \in 1 .. len : open'[nums[k]] = chunk.fds[k]
  BY Zenon, <1>4, <1>5, InstalledObjects
<1>8. \A n \in Fds : open[n] # Closed => open'[n] = open[n]
  BY <1>4, <1>5, InstalledFds
<1>9. /\ fds' \in Seq(Fds) /\ Len(fds') = Len(fds) + len
      /\ \A j \in 1 .. Len(fds) + len :
           fds'[j] = IF j <= Len(fds) THEN fds[j] ELSE nums[j - Len(fds)]
  <2>1. fds' = fds \o nums
    BY <1>3 DEF Kept
  <2>2. /\ fds \o nums \in Seq(Fds) /\ Len(fds \o nums) = Len(fds) + Len(nums)
        /\ \A j \in 1 .. Len(fds) + Len(nums) :
             (fds \o nums)[j] = IF j <= Len(fds) THEN fds[j] ELSE nums[j - Len(fds)]
    BY Zenon, <1>4, <1>6, ConcatProperties
  <2> QED
    BY <1>6, <2>1, <2>2
<1>10. /\ RangeOf(fds) = {fds[k] : k \in 1 .. Len(fds)}
       /\ RangeOf(fds') = {fds'[k] : k \in 1 .. Len(fds) + len}
  <2>1. DOMAIN fds = 1 .. Len(fds) /\ DOMAIN fds' = 1 .. Len(fds')
    BY <1>4, <1>9
  <2>2. DOMAIN fds' = 1 .. Len(fds) + len
    BY <1>9, <2>1
  <2> QED
    BY <2>1, <2>2, Zenon DEF RangeOf
<1>11. ASSUME NEW k \in 1 .. Len(fds) PROVE fds[k] \in RangeOf(fds')
  <2>1. k \in 1 .. Len(fds) + len /\ k <= Len(fds)
    BY <1>4
  <2>2. fds'[k] = fds[k]
    BY <1>9, <2>1
  <2> QED
    BY <1>10, <2>1, <2>2
<1>12. ASSUME NEW k \in 1 .. len PROVE nums[k] \in RangeOf(fds')
  <2>1. Len(fds) + k \in 1 .. Len(fds) + len /\ ~(Len(fds) + k <= Len(fds)) /\ Len(fds) + k - Len(fds) = k
    BY <1>4
  <2>2. fds'[Len(fds) + k] = nums[k]
    BY <1>9, <2>1
  <2> QED
    BY <1>10, <2>1, <2>2
<1>13. ASSUME NEW n \in Fds, open'[n] # open[n]
       PROVE  n \in RangeOf(fds') /\ \E k \in 1 .. Len(chunk.fds) : open'[n] = chunk.fds[k]
  <2>1. DOMAIN nums = 1 .. len
    OBVIOUS
  <2>2. \E k \in 1 .. len : nums[k] = n
    BY <1>5, <1>13, <2>1 DEF Installed
  <2>3. PICK k \in 1 .. len : nums[k] = n
    BY <2>2
  <2>4. k \in 1 .. Len(chunk.fds)
    BY <1>4
  <2> QED
    BY <1>7, <1>12, <2>3, <2>4
<1>14. Arrivals(chunk)
  BY Zenon, <1>5, <1>8, <1>10, <1>11, <1>13 DEF Arrivals
<1> QED
  BY <1>14 DEF chunk

\* The request that sets a vring's fd.
Setter(f) == IF f = "kick_fd" THEN "SET_VRING_KICK" ELSE "SET_VRING_CALL"

\* The message m sets the fd f of the vring q.
Sets(m, q, f) == m.request = Setter(f) /\ m.index = q

\* What handling m does to the descriptor table and to the vrings' fds.
Moves(m) ==
  /\ \A q \in Slots : \A f \in FdFields : Sets(m, q, f) =>
       /\ slots'[q][f] = TakeFd(m)
       /\ slots[q][f] # None => open'[slots[q][f]] = Closed
       /\ TakeFd(m) # None => open'[TakeFd(m)] = open[TakeFd(m)]
  /\ \A q \in Slots : \A f \in FdFields : ~Sets(m, q, f) =>
       /\ slots'[q][f] = slots[q][f]
       /\ slots[q][f] # None => open'[slots[q][f]] = open[slots[q][f]]
  /\ \A n \in Fds : open'[n] = open[n] \/ open'[n] = Closed
  /\ m.request = "SET_VRING_ERR" /\ TakeFd(m) # None => open'[TakeFd(m)] = Closed

\* The arms of handle_one_message.
LEMMA HandleArms ==
  ASSUME NEW m, Handle(m)
  PROVE  \/ m.request = "SET_MEM_TABLE" /\ SetMemTable(m)
         \/ m.request = "SET_VRING_KICK" /\ SetVringFd(m, "kick_fd")
         \/ m.request = "SET_VRING_CALL" /\ SetVringFd(m, "call_fd")
         \/ m.request = "SET_VRING_ERR" /\ SetVringErr(m)
         \/ /\ m.request \notin {"SET_MEM_TABLE", "SET_VRING_KICK", "SET_VRING_CALL",
                                 "SET_VRING_ERR"}
            /\ SetVringEnable(m) \/ UNCHANGED <<open, slots, mem>>
BY DEF Handle, Replied, Reply, Ignore

\* The arm that sets a vring's fd.
LEMMA SetVringFdMoves ==
  ASSUME OwnerInv, NEW m, NEW field \in FdFields, m.request = Setter(field),
         SetVringFd(m, field)
  PROVE  Moves(m)
<1>1. /\ slots \in [Slots -> VringFds] /\ open \in [Fds -> Held]
      /\ SlotsDisjoint /\ SlotsOpen
  BY DEF OwnerInv, FdTypes, Ownership
<1>2. \A f \in FdFields : \A q \in Slots : Sets(m, q, f) <=> f = field /\ q = m.index
  BY DEF Sets, Setter, FdFields
<1>3. \A q \in Slots : \A f \in FdFields : slots[q][f] # None => slots[q][f] \in Fds
  BY <1>1 DEF VringFds, FdFields
<1>4. m.request # "SET_VRING_ERR"
  BY DEF Setter, FdFields
<1>5. CASE m.index \notin Slots
  <2>1. UNCHANGED <<open, slots>>
    BY <1>5 DEF SetVringFd
  <2>2. \A q \in Slots : \A f \in FdFields : ~Sets(m, q, f)
    BY <1>2, <1>5
  <2> QED
    BY <1>4, <2>1, <2>2 DEF Moves
<1>6. CASE m.index \in Slots
  <2> DEFINE old == slots[m.index][field]
             new == TakeFd(m)
  <2>1. slots' = [slots EXCEPT ![m.index][field] = new] /\ open' = Dropped(old)
    BY <1>6 DEF SetVringFd
  <2>2. \/ new = None
        \/ new \in Fds /\ \A q \in Slots : \A f \in FdFields : slots[q][f] # new
    BY Zenon, TakenFd
  <2> HIDE DEF new
  <2>3. \A q \in Slots : \A f \in FdFields :
          slots'[q][f] = IF q = m.index /\ f = field THEN new ELSE slots[q][f]
    BY Zenon, <1>1, <1>6, <2>1 DEF VringFds, FdFields
  <2>4. \A n \in Fds : open'[n] = IF n = old THEN Closed ELSE open[n]
    BY <2>1 DEF Dropped
  <2>5. new # None => new # old /\ open'[new] = open[new]
    BY <1>6, <2>2, <2>4
  <2>6. old # None => open'[old] = Closed
    BY <1>3, <1>6, <2>4
  <2>7. ASSUME NEW q \in Slots, NEW f \in FdFields, ~(f = field /\ q = m.index), slots[q][f] # None
        PROVE  open'[slots[q][f]] = open[slots[q][f]]
    <3>1. slots[q][f] # old
      BY <1>1, <1>6, <2>7 DEF SlotsDisjoint
    <3> QED
      BY <1>3, <2>4, <2>7, <3>1
  <2> HIDE DEF old
  <2>8. /\ \A q \in Slots : \A f \in FdFields : Sets(m, q, f) =>
             /\ slots'[q][f] = new
             /\ slots[q][f] # None => open'[slots[q][f]] = Closed
             /\ new # None => open'[new] = open[new]
        /\ \A q \in Slots : \A f \in FdFields : ~Sets(m, q, f) =>
             /\ slots'[q][f] = slots[q][f]
             /\ slots[q][f] # None => open'[slots[q][f]] = open[slots[q][f]]
    BY ZenonT(30), <1>2, <2>3, <2>5, <2>6, <2>7 DEF old
  <2>9. \A n \in Fds : open'[n] = open[n] \/ open'[n] = Closed
    BY Zenon, <2>4
  <2> QED
    BY Zenon, <1>4, <2>8, <2>9 DEF Moves, new
<1> QED
  BY <1>5, <1>6

\* Whatever a message asks for.
LEMMA HandleMoves ==
  ASSUME OwnerInv, NEW m, Handle(m)
  PROVE  Moves(m)
<1>1. /\ slots \in [Slots -> VringFds] /\ open \in [Fds -> Held]
  BY DEF OwnerInv, FdTypes
<1>2. CASE \E field \in FdFields : m.request = Setter(field) /\ SetVringFd(m, field)
  BY <1>2, SetVringFdMoves
<1>3. ASSUME m.request \notin {"SET_VRING_KICK", "SET_VRING_CALL"}
      PROVE  \A q \in Slots : \A f \in FdFields : ~Sets(m, q, f)
  BY <1>3 DEF Sets, Setter
<1>4. CASE m.request = "SET_VRING_ERR" /\ SetVringErr(m)
  <2> DEFINE new == TakeFd(m)
  <2>1. open' = Dropped(new) /\ slots' = slots
    BY <1>4 DEF SetVringErr
  <2>2. \/ new = None
        \/ new \in Fds /\ \A q \in Slots : \A f \in FdFields : slots[q][f] # new
    BY TakenFd
  <2> HIDE DEF new
  <2>3. \A n \in Fds : open'[n] = IF n = new THEN Closed ELSE open[n]
    BY <2>1 DEF Dropped
  <2>4. \A q \in Slots : \A f \in FdFields : slots[q][f] # None
          => open'[slots[q][f]] = open[slots[q][f]]
    BY <1>1, <2>2, <2>3 DEF VringFds, FdFields
  <2>5. new # None => open'[new] = Closed
    BY <2>2, <2>3
  <2> QED
    BY Zenon, <1>3, <1>4, <2>1, <2>3, <2>4, <2>5 DEF Moves, new
<1>5. CASE /\ m.request \notin {"SET_VRING_KICK", "SET_VRING_CALL", "SET_VRING_ERR"}
           /\ open' = open
           /\ \A q \in Slots : \A f \in FdFields : slots'[q][f] = slots[q][f]
  BY Zenon, <1>3, <1>5 DEF Moves
<1>6. SetVringEnable(m) => /\ open' = open
                           /\ \A q \in Slots : \A f \in FdFields : slots'[q][f] = slots[q][f]
  BY <1>1 DEF SetVringEnable, VringFds, FdFields
<1>7. SetMemTable(m) => UNCHANGED <<open, slots>>
  BY DEF SetMemTable
<1>8. /\ m.request = "SET_VRING_KICK" /\ SetVringFd(m, "kick_fd")
         => \E field \in FdFields : m.request = Setter(field) /\ SetVringFd(m, field)
      /\ m.request = "SET_VRING_CALL" /\ SetVringFd(m, "call_fd")
         => \E field \in FdFields : m.request = Setter(field) /\ SetVringFd(m, field)
  BY DEF Setter, FdFields
<1> QED
  BY <1>2, <1>4, <1>5, <1>6, <1>7, <1>8, HandleArms

\* take_fd finds the doorbell that was sent, unless it did not fit.
LEMMA TakenIs ==
  ASSUME FrameInv, NEW m, NEW objects, Handles(m, objects),
         m.request \in {"SET_VRING_KICK", "SET_VRING_CALL"}
  PROVE  IF TakeFd(m) = None THEN lost \/ m.fds = <<>>
         ELSE m.fds = <<open[TakeFd(m)]>>
<1>1. /\ Receiving \in 1 .. Len(sent) /\ m = sent[Receiving]
      /\ Len(fds) <= Len(m.fds) /\ (~lost => Len(fds) = Len(m.fds))
      /\ \A k \in 1 .. Len(fds) : open[fds[k]] = m.fds[k]
  BY Zenon DEF Handles
<1>2. Says(Receiving)
  BY <1>1, MessageSays
<1>3. m \in Messages /\ (m.no_fd <=> m.num = 0) /\ m.num <= 1 /\ Len(m.fds) = m.num
  BY Zenon, <1>1, <1>2 DEF Says, Kind
<1>4. m.fds \in Seq(Sendable) /\ m.num \in Nat /\ fds \in Seq(Fds) /\ Len(fds) \in Nat
  BY <1>3 DEF Messages, FrameInv, OwnerInv, FdTypes
<1>5. CASE m.no_fd
  <2>1. m.fds = <<>> /\ TakeFd(m) = None
    BY <1>3, <1>4, <1>5, EmptySeq DEF TakeFd
  <2> QED
    BY <2>1
<1>6. CASE fds = <<>>
  <2>1. ~lost => Len(m.fds) = 0
    BY <1>1, <1>6
  <2>2. lost \/ m.fds = <<>>
    BY <1>4, <2>1, EmptySeq
  <2> QED
    BY <1>6, <2>2 DEF TakeFd
<1>7. CASE ~m.no_fd /\ fds # <<>>
  <2>1. Len(fds) > 0
    BY <1>4, <1>7, EmptySeq
  <2>2. Len(m.fds) = 1 /\ 1 \in 1 .. Len(fds)
    BY <1>1, <1>3, <1>4, <2>1
  <2>3. TakeFd(m) = fds[1] /\ fds[1] \in Fds /\ fds[1] # None
    BY <1>4, <1>7, <2>2, ElementOfSeq, NumbersPositive DEF TakeFd
  <2>4. open[fds[1]] = m.fds[1]
    BY <1>1, <2>2
  <2>5. m.fds = <<m.fds[1]>>
    BY <1>4, <2>2
  <2> QED
    BY <2>3, <2>4, <2>5
<1> QED
  BY <1>5, <1>6, <1>7

\* A message is handled: its fd is now the current one.
LEMMA HandleDoorbells ==
  ASSUME FrameInv, DoorbellsCurrent, HandleOneMessage
  PROVE  DoorbellsCurrent'
<1> DEFINE m == Decoded(buf)
           objects == [k \in DOMAIN fds |-> open[fds[k]]]
           h == [m EXCEPT !.fds = objects]
<1>1. Handles(m, objects)
  BY HandlesIs DEF HandleOneMessage
<1>2. handled' = Append(handled, h) /\ UNCHANGED <<sent, lost>> /\ Handle(m)
  BY DEF HandleOneMessage, frontVars
<1> HIDE DEF m, objects
<1>3. Moves(m)
  BY <1>2, HandleMoves DEF FrameInv
<1>4. Receiving \in 1 .. Len(sent) /\ m = sent[Receiving] /\ objects \in Seq(Sendable)
  BY <1>1 DEF Handles
<1>5. m \in Messages /\ handled \in Seq(Messages) /\ Receiving = Len(handled) + 1
  BY <1>4, ElementOfSeq DEF FrameInv, OwnerInv, WireTypes, BufInv, Receiving
<1>6. h \in Messages /\ h.request = m.request /\ h.index = m.index
  BY Zenon, <1>4, <1>5 DEF Messages
<1> HIDE DEF h
<1>7. ASSUME NEW q \in Slots, NEW f \in FdFields
      PROVE  HasFdOf(q, f, Setter(f))'
  <2>1. HasFdOf(q, f, Setter(f))
    BY DEF DoorbellsCurrent, FdFields, Setter
  <2>2. CASE Sets(m, q, f)
    <3>1. \A i : LastHandled(i, Setter(f), q)' => i = Receiving
      BY <1>2, <1>5, <1>6, <2>2, LastIs DEF Sets
    <3>2. m.request \in {"SET_VRING_KICK", "SET_VRING_CALL"}
      BY <2>2 DEF Sets, Setter
    <3>3. IF TakeFd(m) = None THEN lost \/ m.fds = <<>> ELSE m.fds = <<open[TakeFd(m)]>>
      BY Zenon, <1>1, <3>2, TakenIs
    <3>4. /\ slots'[q][f] = TakeFd(m)
          /\ TakeFd(m) # None => open'[TakeFd(m)] = open[TakeFd(m)]
      BY Zenon, <1>3, <2>2 DEF Moves
    <3> QED
      BY Zenon, <1>2, <1>4, <3>1, <3>3, <3>4 DEF HasFdOf
  <2>3. CASE ~Sets(m, q, f)
    <3>1. \A i : LastHandled(i, Setter(f), q)' => i \in DOMAIN handled /\ LastHandled(i, Setter(f), q)
      BY <1>2, <1>5, <1>6, <2>3, LastIs DEF Sets
    <3>2. /\ slots'[q][f] = slots[q][f]
          /\ slots[q][f] # None => open'[slots[q][f]] = open[slots[q][f]]
      BY Zenon, <1>3, <2>3 DEF Moves
    <3> QED
      BY Zenon, <1>2, <2>1, <3>1, <3>2, FdOfKept
  <2> QED
    BY <2>2, <2>3
<1> QED
  BY <1>7 DEF DoorbellsCurrent, FdFields, Setter

\* A message is handled: its fds have found an owner or are closed.
LEMMA HandleOwned ==
  ASSUME FrameInv, FdsOwned, HandleOneMessage
  PROVE  FdsOwned'
<1> DEFINE m == Decoded(buf)
           objects == [k \in DOMAIN fds |-> open[fds[k]]]
<1>1. Handles(m, objects)
  BY HandlesIs DEF HandleOneMessage
<1>2. Handle(m) /\ UNCHANGED files
  BY DEF HandleOneMessage
<1> HIDE DEF m, objects
<1>3. Moves(m)
  BY <1>2, HandleMoves DEF FrameInv
<1>4. /\ Receiving \in 1 .. Len(sent) /\ m = sent[Receiving]
      /\ Len(fds) <= Len(m.fds) /\ \A k \in 1 .. Len(fds) : open[fds[k]] = m.fds[k]
  BY <1>1 DEF Handles
<1>5. Says(Receiving)
  BY <1>4, MessageSays
<1>6. fds \in Seq(Fds) /\ slots \in [Slots -> VringFds] /\ slots' \in [Slots -> VringFds]
  <2>1. OwnerInv'
    BY HandleOwner DEF FrameInv
  <2> QED
    BY <2>1 DEF FrameInv, OwnerInv, FdTypes
<1>7. /\ Owned = {slots[q][f] : q \in Slots, f \in FdFields} \ {None}
      /\ Owned' = {slots'[q][f] : q \in Slots, f \in FdFields} \ {None}
  BY DEF Owned, Owner, FdFields
<1>8. RangeOf(fds) = {fds[k] : k \in 1 .. Len(fds)}
  BY <1>6 DEF RangeOf
<1>9. ASSUME NEW n \in Fds, open'[n] # Closed, open'[n][1] # "mem"
      PROVE  n \in files \cup Owned'
  <2>1. open'[n] = open[n] /\ n # None
    BY Zenon, <1>3, <1>9, NumbersPositive DEF Moves
  <2>2. n \in files \/ n \in Owned \/ n \in RangeOf(fds)
    BY <1>9, <2>1 DEF FdsOwned
  <2>3. CASE n \in Owned
    <3>1. PICK q \in Slots, f \in FdFields : slots[q][f] = n
      BY <1>7, <2>3
    <3>2. ~Sets(m, q, f)
      BY Zenon, <1>3, <1>9, <2>1, <3>1 DEF Moves
    <3>3. slots'[q][f] = n
      BY Zenon, <1>3, <3>1, <3>2 DEF Moves
    <3> QED
      BY <1>7, <2>1, <3>3
  <2>4. CASE n \in RangeOf(fds)
    <3>1. PICK k \in 1 .. Len(fds) : fds[k] = n
      BY Zenon, <1>8, <2>4
    <3>2. k \in 1 .. Len(m.fds) /\ open[n] = m.fds[k]
      <4>1. Len(m.fds) \in Nat /\ Len(fds) \in Nat
        BY <1>4, <1>5, <1>6 DEF Says, Messages
      <4> QED
        BY <1>4, <3>1, <4>1
    <3>3. /\ m \in Messages /\ m.num \in Nat /\ (m.no_fd <=> m.num = 0)
          /\ Len(m.fds) = IF Kind(m.request) = "none" THEN 0 ELSE m.num
          /\ m.fds[k] = <<Kind(m.request), Receiving, k>>
          /\ m.request \in {"SET_VRING_KICK", "SET_VRING_CALL"} /\ m.num > 0 => m.index \in Slots
          /\ m.request \in {"SET_VRING_KICK", "SET_VRING_CALL", "SET_VRING_ERR"} => m.num <= 1
      BY Zenon, <1>4, <1>5, <3>2 DEF Says, Messages
    <3>4. Kind(m.request) # "mem" /\ Kind(m.request) # "none"
      BY <1>9, <2>1, <3>2, <3>3
    <3>5. m.request \in {"SET_VRING_KICK", "SET_VRING_CALL", "SET_VRING_ERR"}
      BY <3>4 DEF Kind
    <3>6. Len(m.fds) = m.num /\ m.num = 1 /\ k = 1
      BY <3>2, <3>3, <3>4, <3>5
    <3>7. TakeFd(m) = n
      BY <1>6, <3>1, <3>3, <3>6 DEF TakeFd
    <3>8. m.request # "SET_VRING_ERR"
      BY Zenon, <1>3, <1>9, <2>1, <3>7 DEF Moves
    <3>9. PICK f \in FdFields : m.request = Setter(f)
      BY <3>5, <3>8 DEF FdFields, Setter
    <3>10. m.index \in Slots /\ Sets(m, m.index, f)
      BY <3>3, <3>5, <3>6, <3>8, <3>9 DEF Sets
    <3>11. slots'[m.index][f] = n
      BY Zenon, <1>3, <3>7, <3>10 DEF Moves
    <3> QED
      BY <1>7, <2>1, <3>10, <3>11
  <2> QED
    BY <2>2, <2>3, <2>4
<1> QED
  BY <1>2, <1>9 DEF FdsOwned

\* A message is handled: a table is mapped from its fds, each in its place.
LEMMA HandleTable ==
  ASSUME FrameInv, TableCurrent, HandleOneMessage
  PROVE  TableCurrent'
<1> DEFINE m == Decoded(buf)
           objects == [k \in DOMAIN fds |-> open[fds[k]]]
           h == [m EXCEPT !.fds = objects]
<1>1. Handles(m, objects)
  BY HandlesIs DEF HandleOneMessage
<1>2. handled' = Append(handled, h) /\ UNCHANGED sent /\ Handle(m)
  BY DEF HandleOneMessage, frontVars
<1> HIDE DEF m, objects
<1>3. /\ Receiving \in 1 .. Len(sent) /\ m = sent[Receiving] /\ objects \in Seq(Sendable)
      /\ Len(objects) = Len(fds)
      /\ \A k \in 1 .. Len(fds) : open[fds[k]] = m.fds[k] /\ objects[k] = m.fds[k]
  BY Zenon, <1>1 DEF Handles
<1>4. m \in Messages /\ handled \in Seq(Messages) /\ Receiving = Len(handled) + 1
  BY Zenon, <1>3, ElementOfSeq DEF FrameInv, OwnerInv, WireTypes, BufInv, Receiving
<1>5. h \in Messages /\ h.request = m.request /\ h.index = m.index
  BY Zenon, <1>3, <1>4 DEF Messages
<1> HIDE DEF h
<1>6. CASE m.request = "SET_MEM_TABLE"
  <2>1. m.num = Len(fds) /\ mem' = [k \in 1 .. m.num |-> open[fds[k]]]
    BY <1>2, <1>6, HandleArms DEF SetMemTable
  <2>2. m.index = 0 /\ Len(m.fds) = m.num /\ m.fds \in Seq(Sendable)
    BY Zenon, <1>3, <1>4, <1>6, MessageSays DEF Says, Kind, Messages
  <2>3. m.fds = [k \in 1 .. m.num |-> m.fds[k]]
    BY <2>2
  <2>4. mem' = m.fds
    <3>1. \A k \in 1 .. m.num : open[fds[k]] = m.fds[k]
      BY <1>3, <2>1
    <3> QED
      BY <2>1, <2>3, <3>1, Zenon
  <2>5. \A i : LastHandled(i, "SET_MEM_TABLE", 0)' => i = Receiving
    BY <1>2, <1>4, <1>5, <1>6, <2>2, LastIs
  <2> QED
    BY Zenon, <1>2, <1>3, <2>4, <2>5 DEF TableCurrent
<1>7. CASE m.request # "SET_MEM_TABLE"
  <2>1. mem' = mem
    BY Zenon, <1>2, <1>7, HandleArms DEF SetVringFd, SetVringErr, SetVringEnable
  <2>2. \A i : LastHandled(i, "SET_MEM_TABLE", 0)'
               => i \in DOMAIN handled /\ LastHandled(i, "SET_MEM_TABLE", 0)
    BY <1>2, <1>4, <1>5, <1>7, LastIs
  <2> QED
    BY <1>2, <2>1, <2>2 DEF TableCurrent
<1> QED
  BY <1>6, <1>7

\* What the vrings hold stays current while nothing is handled.
LEMMA CurrentKept ==
  ASSUME FrameInv, DoorbellsCurrent, TableCurrent, UNCHANGED <<slots, mem, handled>>,
         lost => lost', \A i \in DOMAIN handled : sent'[i] = sent[i],
         \A n \in Fds : open[n] # Closed /\ n \notin files => open'[n] = open[n]
  PROVE  DoorbellsCurrent' /\ TableCurrent'
<1>1. ASSUME NEW q \in Slots, NEW f \in FdFields, slots[q][f] # None
      PROVE  open'[slots[q][f]] = open[slots[q][f]]
  <2>1. slots[q][f] \in Fds
    BY <1>1 DEF FrameInv, OwnerInv, FdTypes, VringFds, FdFields
  <2> QED
    BY Zenon, <1>1, <2>1 DEF FrameInv, OwnerInv, Ownership, SlotsOpen
<1>2. \A i, req, q : LastHandled(i, req, q)' => i \in DOMAIN handled /\ LastHandled(i, req, q)
  BY Zenon DEF LastHandled
<1>3. ASSUME NEW q \in Slots, NEW f \in FdFields PROVE HasFdOf(q, f, Setter(f))'
  <2>1. HasFdOf(q, f, Setter(f))
    BY Zenon DEF DoorbellsCurrent, FdFields, Setter
  <2> QED
    BY Zenon, <1>1, <1>2, <2>1, FdOfKept
<1>4. DoorbellsCurrent'
  BY <1>3 DEF DoorbellsCurrent, FdFields, Setter
<1>5. TableCurrent'
  BY Zenon, <1>2 DEF TableCurrent
<1> QED
  BY <1>4, <1>5

\* Numbers stay owned while the vrings' fds stay.
LEMMA OwnedKept ==
  ASSUME FdsOwned, UNCHANGED slots, RangeOf(fds) \subseteq RangeOf(fds'),
         \A n \in Fds : \/ open'[n] = Closed \/ n \in files' \cup RangeOf(fds')
                        \/ open'[n] = open[n] /\ (n \in files => n \in files')
  PROVE  FdsOwned'
<1>1. Owned' = Owned
  BY Zenon DEF Owned, Owner
<1> QED
  BY Zenon, <1>1 DEF FdsOwned

\* The vrings have the doorbells that were sent last, no number is lost and the
\* last table is mapped.
SlotInv == FrameInv /\ DoorbellsCurrent /\ FdsOwned /\ TableCurrent

\* A daemon that has just started has no fd.
LEMMA SlotInit == Init => SlotInv
<1> SUFFICES ASSUME Init PROVE SlotInv
  OBVIOUS
<1>1. FrameInv
  BY FrameInit
<1>2. DoorbellsCurrent /\ TableCurrent
  BY DEF Init, DoorbellsCurrent, HasFdOf, TableCurrent
<1>3. FdsOwned
  BY Zenon DEF Init, FdsOwned
<1> QED
  BY <1>1, <1>2, <1>3 DEF SlotInv

\* Every step keeps the vrings' fds current and every number owned.
LEMMA SlotStep == SlotInv /\ [Next]_vars => SlotInv'
<1> SUFFICES ASSUME SlotInv, [Next]_vars PROVE SlotInv'
  OBVIOUS
<1>1. FrameInv'
  BY FrameStep DEF SlotInv
<1>2. FrameInv /\ DoorbellsCurrent /\ FdsOwned /\ TableCurrent
  BY DEF SlotInv
<1>3. ASSUME UNCHANGED <<sent, open, files, slots, mem, fds, handled, lost>> PROVE SlotInv'
  <2>1. DoorbellsCurrent' /\ TableCurrent'
    BY Zenon, <1>2, <1>3, CurrentKept
  <2>2. FdsOwned'
    BY Zenon, <1>2, <1>3, OwnedKept
  <2> QED
    BY <1>1, <2>1, <2>2 DEF SlotInv
<1>4. CASE SendMessage
  <2>1. /\ UNCHANGED <<open, files, slots, mem, fds, handled, lost>>
        /\ sent' = Append(sent, Message(Len(sent) + 1, script[Len(sent) + 1]))
    BY Zenon, <1>4 DEF SendMessage, serverVars
  <2>2. \A i \in DOMAIN handled : sent'[i] = sent[i]
    <3>1. /\ sent \in Seq(Messages) /\ Len(handled) <= Len(sent)
          /\ DOMAIN handled = 1 .. Len(handled) /\ Len(handled) \in Nat /\ Len(sent) \in Nat
      BY <1>2 DEF FrameInv, OwnerInv, WireTypes, Framed, BufInv
    <3> QED
      BY <2>1, <3>1
  <2>3. DoorbellsCurrent' /\ TableCurrent'
    BY Zenon, <1>2, <2>1, <2>2, CurrentKept
  <2>4. FdsOwned'
    BY Zenon, <1>2, <2>1, OwnedKept
  <2> QED
    BY <1>1, <2>3, <2>4 DEF SlotInv
<1>5. CASE Recv
  <2>1. Arrivals(Head(stream)) /\ UNCHANGED <<sent, files, slots, mem, handled>>
    BY Zenon, <1>2, <1>5, RecvArrivals DEF Recv, frontVars
  <2>2. DoorbellsCurrent' /\ TableCurrent'
    BY Zenon, <1>2, <2>1, CurrentKept DEF Arrivals
  <2>3. FdsOwned'
    BY Zenon, <1>2, <2>1, OwnedKept DEF Arrivals
  <2> QED
    BY <1>1, <2>2, <2>3 DEF SlotInv
<1>6. CASE HandleOneMessage
  BY Zenon, <1>1, <1>2, <1>6, HandleDoorbells, HandleOwned, HandleTable DEF SlotInv
<1>7. CASE \E n \in Fds : OpenFile(n)
  <2> PICK n \in Fds : OpenFile(n)
    BY Zenon, <1>7
  <2>1. /\ UNCHANGED <<sent, slots, mem, fds, handled, lost>> /\ files' = files \cup {n}
        /\ open[n] = Closed /\ open' = [open EXCEPT ![n] = <<"file", 0, 0>>]
    BY Zenon DEF OpenFile, frontVars, Free
  <2>2. \A k \in Fds : k # n => open'[k] = open[k]
    BY Zenon, <1>2, <2>1 DEF FrameInv, OwnerInv, FdTypes
  <2>3. DoorbellsCurrent' /\ TableCurrent'
    BY Zenon, <1>2, <2>1, <2>2, CurrentKept
  <2>4. FdsOwned'
    BY Zenon, <1>2, <2>1, <2>2, OwnedKept
  <2> QED
    BY Zenon, <1>1, <2>3, <2>4 DEF SlotInv
<1>8. CASE \E n \in Fds : CloseFile(n)
  <2> PICK n \in Fds : CloseFile(n)
    BY <1>8
  <2>1. /\ UNCHANGED <<sent, slots, mem, fds, handled, lost>> /\ files' = files \ {n}
        /\ n \in files /\ open' = [open EXCEPT ![n] = Closed]
    BY Zenon DEF CloseFile, frontVars
  <2>2. open'[n] = Closed /\ \A k \in Fds : k # n => open'[k] = open[k]
    BY Zenon, <1>2, <2>1 DEF FrameInv, OwnerInv, FdTypes
  <2>3. DoorbellsCurrent' /\ TableCurrent'
    BY Zenon, <1>2, <2>1, <2>2, CurrentKept
  <2>4. FdsOwned'
    BY Zenon, <1>2, <2>1, <2>2, OwnedKept
  <2> QED
    BY <1>1, <2>3, <2>4 DEF SlotInv
<1>9. CASE SendRest \/ CloseConnection
  BY Zenon, <1>3, <1>9 DEF SendRest, CloseConnection, serverVars
<1>10. CASE \E i \in DOMAIN script : RingKick(i) \/ ConsumeCall(i)
  BY Zenon, <1>3, <1>10 DEF RingKick, ConsumeCall, serverVars, frontVars
<1>11. CASE Bind \/ Accept \/ Poll \/ RecvEnds \/ HandleFails \/ KicksDone
  BY Zenon, <1>3, <1>11 DEF Bind, Accept, Poll, RecvEnds, HandleFails, KicksDone, frontVars
<1>12. CASE \E p \in kick_slots : Drain(p) \/ FinishServe(p)
  BY Zenon, <1>3, <1>12 DEF Drain, FinishServe, frontVars
<1>13. CASE UNCHANGED vars
  BY Zenon, <1>3, <1>13 DEF vars
<1> QED
  BY Zenon, <1>4, <1>5, <1>6, <1>7, <1>8, <1>9, <1>10, <1>11, <1>12, <1>13
  DEF Next, Server, FrontEnd

\* The numbers that vrings hold refer to the doorbells that were sent last
\* (the SET_VRING_KICK and SET_VRING_CALL arms of handle_one_message).
THEOREM DoorbellsStayCurrent == Spec => []DoorbellsCurrent
<1>1. SlotInv => DoorbellsCurrent
  BY DEF SlotInv
<1> QED
  BY <1>1, SlotInit, SlotStep, PTL DEF Spec

\* Only the fds of memory regions stay open without an owner.
THEOREM NoNumberIsLost == Spec => []FdsOwned
<1>1. SlotInv => FdsOwned
  BY Zenon DEF SlotInv
<1> QED
  BY <1>1, SlotInit, SlotStep, PTL DEF Spec

\* The regions that are mapped are those of the last table (map_regions).
THEOREM TableStaysCurrent == Spec => []TableCurrent
<1>1. SlotInv => TableCurrent
  BY Zenon DEF SlotInv
<1> QED
  BY <1>1, SlotInit, SlotStep, PTL DEF Spec

\* A doorbell holds no more than it can.
LEMMA BellStays ==
  ASSUME NEW n \in 0 .. BellCap, NEW k
  PROVE  Notify(n) \in 0 .. BellCap /\ NotifyWord(k, n) \in 0 .. BellCap
         /\ ReadBell(k, n) \in 0 .. BellCap
<1>1. \A u \in Nat : Written(n, u) \in 0 .. BellCap
  BY BellAssumption DEF Written
<1>2. ReadBell(k, n) \in 0 .. BellCap
  BY BellAssumption DEF ReadBell
<1>3. (IF k = "pipe" THEN WordLen ELSE 1) \in Nat
  BY BellAssumption
<1> QED
  BY Zenon, <1>1, <1>2, <1>3 DEF Notify, NotifyWord

\* What is sent are objects.
LEMMA SentObjects ==
  ASSUME FrameInv, NEW i \in 1 .. Len(sent), NEW k \in 1 .. Len(sent[i].fds)
  PROVE  sent[i].fds[k] \in Objects
<1>1. /\ i \in DOMAIN script /\ sent[i].fds[k] = <<Kind(sent[i].request), i, k>>
      /\ Len(sent[i].fds) = IF Kind(sent[i].request) = "none" THEN 0 ELSE sent[i].num
  BY Zenon, MessageSays DEF Says
<1>2. Kind(sent[i].request) # "none"
  BY <1>1
<1>3. Kind(sent[i].request) \in Kinds
  BY Zenon, <1>2 DEF Kind, Kinds
<1> QED
  BY <1>1, <1>3 DEF Objects

\* The parts of the type invariant that the steps change.
BellType == bell \in [DOMAIN script -> 0 .. BellCap]
OpenType == open \in [Fds -> Objects \cup {Closed, <<"file", 0, 0>>}]
MemType == mem \in Seq(Objects)
LoopType ==
  /\ pc \in {"start", "accept", "poll", "recv", "handle", "kicks", "serve", "exited"}
  /\ kick_slots \in SUBSET (Slots \X Fds)
  /\ closed \in BOOLEAN /\ hup \in BOOLEAN /\ lost \in BOOLEAN

TypeInv == FrameInv /\ BellType /\ OpenType /\ MemType /\ LoopType

\* The invariant implies the type invariant.
LEMMA TypeInvImplies == TypeInv => TypeOK
BY Zenon DEF TypeInv, BellType, OpenType, MemType, LoopType, FrameInv, SentInv, OwnerInv,
       FdTypes, VringFds, TypeOK

\* A doorbell changes by one read or write, if at all.
LEMMA BellTypeStep == TypeInv /\ [Next]_vars => BellType'
<1> SUFFICES ASSUME TypeInv, [Next]_vars PROVE BellType'
  BY Zenon
<1>1. script' = script
  BY Zenon DEF Next, Server, FrontEnd, vars, frontVars, Bind, Accept, Poll, Recv, RecvEnds,
         HandleOneMessage, HandleFails, KicksDone, Drain, FinishServe, OpenFile, CloseFile,
         SendMessage, SendRest, CloseConnection, RingKick, ConsumeCall
<1>2. bell \in [DOMAIN script -> 0 .. BellCap]
  BY DEF TypeInv, BellType
<1>3. \/ bell' = bell
      \/ \E i : \/ bell' = [bell EXCEPT ![i] = Notify(@)]
                \/ bell' = [bell EXCEPT ![i] = ReadBell(kind, @)]
                \/ bell' = [bell EXCEPT ![i] = NotifyWord(kind, @)]
  BY Zenon DEF Next, Server, FrontEnd, vars, Bind, Accept, Poll, Recv, RecvEnds,
         HandleOneMessage, HandleFails, KicksDone, Drain, FinishServe, OpenFile, CloseFile,
         SendMessage, SendRest, CloseConnection, RingKick, ConsumeCall
<1>4. \A i \in DOMAIN script : /\ Notify(bell[i]) \in 0 .. BellCap
                               /\ ReadBell(kind, bell[i]) \in 0 .. BellCap
                               /\ NotifyWord(kind, bell[i]) \in 0 .. BellCap
  BY Zenon, <1>2, BellStays
<1>5. ASSUME NEW i, \/ bell' = [bell EXCEPT ![i] = Notify(@)]
                    \/ bell' = [bell EXCEPT ![i] = ReadBell(kind, @)]
                    \/ bell' = [bell EXCEPT ![i] = NotifyWord(kind, @)]
      PROVE  bell' \in [DOMAIN script -> 0 .. BellCap]
  BY Zenon, <1>2, <1>4, <1>5
<1> QED
  BY Zenon, <1>1, <1>2, <1>3, <1>5 DEF BellType

\* A number refers to what was sent for it, or to a file.
LEMMA OpenTypeStep == TypeInv /\ [Next]_vars => OpenType'
<1> SUFFICES ASSUME TypeInv, [Next]_vars PROVE OpenType'
  OBVIOUS
<1>1. FrameInv /\ open \in [Fds -> Objects \cup {Closed, <<"file", 0, 0>>}]
  BY Zenon DEF TypeInv, OpenType
<1>2. script' = script
  BY Zenon DEF Next, Server, FrontEnd, vars, frontVars, Bind, Accept, Poll, Recv, RecvEnds,
         HandleOneMessage, HandleFails, KicksDone, Drain, FinishServe, OpenFile, CloseFile,
         SendMessage, SendRest, CloseConnection, RingKick, ConsumeCall
<1>3. Objects' = Objects
  BY <1>2 DEF Objects
<1>4. open' \in [Fds -> Held]
  BY Zenon, <1>1, FrameStep DEF FrameInv, OwnerInv, FdTypes
<1>5. CASE Recv
  <2> DEFINE c == Head(stream)
  <2>1. Takes(c) /\ Arrivals(c)
    BY Zenon, <1>1, <1>5, RecvTakes, RecvArrivals
  <2> HIDE DEF c
  <2>2. /\ Receiving \in 1 .. Len(sent)
        /\ c.fds = <<>> \/ c.fds = sent[Receiving].fds
    BY Zenon, <2>1 DEF Takes, ChunkOK
  <2>3. \A k \in 1 .. Len(c.fds) : c.fds[k] \in Objects
    BY <1>1, <2>2, SentObjects
  <2>4. \A n \in Fds : open'[n] \in Objects \cup {Closed, <<"file", 0, 0>>}
    BY Zenon, <1>1, <2>1, <2>3 DEF Arrivals
  <2> QED
    BY Zenon, <1>3, <1>4, <2>4 DEF OpenType
<1>6. CASE HandleOneMessage
  <2>1. Moves(Decoded(buf))
    BY Zenon, <1>1, <1>6, HandleMoves DEF HandleOneMessage, FrameInv
  <2>2. \A n \in Fds : open'[n] \in Objects \cup {Closed, <<"file", 0, 0>>}
    BY Zenon, <1>1, <2>1 DEF Moves
  <2> QED
    BY <1>3, <1>4, <2>2 DEF OpenType
<1>7. CASE \E n \in Fds : OpenFile(n) \/ CloseFile(n)
  <2>1. \E n \in Fds : \/ open' = [open EXCEPT ![n] = <<"file", 0, 0>>]
                       \/ open' = [open EXCEPT ![n] = Closed]
    BY Zenon, <1>7 DEF OpenFile, CloseFile
  <2> QED
    BY <1>1, <1>3, <2>1 DEF OpenType
<1>8. CASE open' = open
  BY <1>1, <1>3, <1>8 DEF OpenType
<1> QED
  BY Zenon, <1>5, <1>6, <1>7, <1>8
  DEF Next, Server, FrontEnd, vars, serverVars, Bind, Accept, Poll, RecvEnds,
      HandleFails, KicksDone, Drain, FinishServe,
      SendMessage, SendRest, CloseConnection, RingKick, ConsumeCall

\* What is mapped are objects that were sent.
LEMMA MemTypeStep == TypeInv /\ [Next]_vars => MemType'
<1> SUFFICES ASSUME TypeInv, [Next]_vars PROVE MemType'
  OBVIOUS
<1>1. FrameInv /\ mem \in Seq(Objects)
  BY DEF TypeInv, MemType
<1>2. script' = script
  BY Zenon DEF Next, Server, FrontEnd, vars, frontVars, Bind, Accept, Poll, Recv, RecvEnds,
         HandleOneMessage, HandleFails, KicksDone, Drain, FinishServe, OpenFile, CloseFile,
         SendMessage, SendRest, CloseConnection, RingKick, ConsumeCall
<1>3. Objects' = Objects
  BY <1>2 DEF Objects
<1>4. CASE HandleOneMessage
  <2> DEFINE m == Decoded(buf)
             objects == [k \in DOMAIN fds |-> open[fds[k]]]
  <2>1. Handles(m, objects) /\ Handle(m)
    BY Zenon, <1>1, <1>4, HandlesIs DEF HandleOneMessage
  <2> HIDE DEF m, objects
  <2>2. CASE mem' = mem
    BY <1>1, <1>3, <2>2 DEF MemType
  <2>3. CASE SetMemTable(m)
    <3>1. m.num = Len(fds) /\ mem' = [k \in 1 .. m.num |-> open[fds[k]]]
      BY <2>3 DEF SetMemTable
    <3>2. /\ Receiving \in 1 .. Len(sent) /\ m = sent[Receiving] /\ Len(fds) <= Len(m.fds)
          /\ \A k \in 1 .. Len(fds) : open[fds[k]] = m.fds[k]
      BY <2>1 DEF Handles
    <3>3. Len(fds) \in Nat /\ Len(m.fds) \in Nat
      BY <1>1, <3>2, TotalIs DEF FrameInv, OwnerInv, FdTypes, WireTypes
    <3>4. \A k \in 1 .. m.num : open[fds[k]] \in Objects
      <4> TAKE k \in 1 .. m.num
      <4>1. k \in 1 .. Len(fds) /\ k \in 1 .. Len(sent[Receiving].fds)
        BY <3>1, <3>2, <3>3
      <4> QED
        BY Zenon, <1>1, <3>2, <4>1, SentObjects
    <3>5. mem' \in [1 .. m.num -> Objects] /\ m.num \in Nat
      BY <3>1, <3>3, <3>4
    <3> QED
      BY <1>3, <3>5 DEF MemType
  <2> QED
    BY Zenon, <2>1, <2>2, <2>3, HandleArms DEF SetVringFd, SetVringErr, SetVringEnable
<1>5. CASE mem' = mem
  BY <1>1, <1>3, <1>5 DEF MemType
<1> QED
  BY Zenon, <1>4, <1>5
  DEF Next, Server, FrontEnd, vars, serverVars, Bind, Accept, Poll, Recv, RecvEnds,
      HandleFails, KicksDone, Drain, FinishServe, OpenFile, CloseFile,
      SendMessage, SendRest, CloseConnection, RingKick, ConsumeCall

\* The loop goes from place to place, with vrings that have the fd polled.
LEMMA LoopTypeStep == TypeInv /\ [Next]_vars => LoopType'
<1> SUFFICES ASSUME TypeInv, [Next]_vars PROVE LoopType'
  OBVIOUS
<1>1. LoopType /\ slots \in [Slots -> VringFds]
  BY DEF TypeInv, FrameInv, OwnerInv, FdTypes
<1>2. CASE Poll
  <2>1. \A q \in Slots : Polled(q) => slots[q].kick_fd \in Fds
    BY <1>1 DEF Polled, VringFds
  <2>2. kick_slots' \in SUBSET (Slots \X Fds)
    BY <1>2, <2>1 DEF Poll
  <2>3. pc' \in {"recv", "kicks"} /\ hup' = closed /\ UNCHANGED <<closed, lost>>
    BY Zenon, <1>2 DEF Poll, frontVars
  <2> QED
    BY <1>1, <2>2, <2>3 DEF LoopType
<1>3. CASE Recv
  <2>1. pc' \in {"recv", "handle", "exited"}
    <3>1. BufInv' /\ buf' # <<>>
      BY <1>3, RecvTakes DEF TypeInv, Takes
    <3> QED
      BY <3>1 DEF BufInv
  <2>2. lost' \in BOOLEAN
    BY Zenon, <1>3 DEF Recv, Arrive
  <2>3. UNCHANGED <<closed, hup, kick_slots>>
    BY Zenon, <1>3 DEF Recv, frontVars
  <2> QED
    BY Zenon, <1>1, <2>1, <2>2, <2>3 DEF LoopType
<1>4. CASE \E p \in kick_slots : Drain(p) \/ FinishServe(p)
  <2>1. /\ pc' \in {"kicks", "serve"} /\ kick_slots' \subseteq kick_slots
        /\ UNCHANGED <<closed, hup, lost>>
    BY Zenon, <1>4 DEF Drain, FinishServe, frontVars
  <2> QED
    BY <1>1, <2>1 DEF LoopType
<1>5. CASE HandleOneMessage
  BY <1>1, <1>5 DEF HandleOneMessage, frontVars, LoopType
<1>6. CASE Bind \/ Accept \/ RecvEnds \/ HandleFails \/ KicksDone
  BY Zenon, <1>1, <1>6 DEF Bind, Accept, RecvEnds, HandleFails, KicksDone, frontVars, LoopType
<1>7. CASE \E n \in Fds : OpenFile(n) \/ CloseFile(n)
  BY Zenon, <1>1, <1>7 DEF OpenFile, CloseFile, frontVars, LoopType
<1>8. CASE FrontEnd
  BY ZenonT(30), <1>1, <1>8 DEF FrontEnd, SendMessage, SendRest, CloseConnection, RingKick, ConsumeCall,
                    serverVars, frontVars, LoopType
<1>9. CASE UNCHANGED vars
  BY Zenon, <1>1, <1>9 DEF vars, LoopType
<1> QED
  BY <1>2, <1>3, <1>4, <1>5, <1>6, <1>7, <1>8, <1>9 DEF Next, Server

\* The types of the control connection's state.
THEOREM TypeCorrect == Spec => []TypeOK
<1>1. Init => TypeInv
  <2>1. Init => FrameInv
    BY FrameInit
  <2>2. Init => BellType
    BY BellAssumption DEF Init, BellType, NewBell
  <2>3. Init => OpenType
    BY Zenon DEF Init, OpenType
  <2>4. Init => MemType
    BY DEF Init, MemType
  <2>5. Init => LoopType
    BY Zenon DEF Init, LoopType
  <2> QED
    BY <2>1, <2>2, <2>3, <2>4, <2>5 DEF TypeInv
<1>2. TypeInv /\ [Next]_vars => TypeInv'
  BY FrameStep, BellTypeStep, OpenTypeStep, MemTypeStep, LoopTypeStep DEF TypeInv
<1> QED
  BY <1>1, <1>2, TypeInvImplies, PTL DEF Spec

-----------------------------------------------------------------------------

\* A kick fd is one that was sent for the vring that has it.
KickIs ==
  \A q \in Slots : slots[q].kick_fd # None =>
    /\ open[slots[q].kick_fd][1] = "kick"
    /\ open[slots[q].kick_fd][2] \in 1 .. Len(sent)
    /\ sent[open[slots[q].kick_fd][2]].index = q

\* A vring that is enabled was enabled by a message that was handled, and by
\* none since disabled.
EnabledBy ==
  \A q \in Slots : slots[q].enabled => EnabledAt(sent, Len(handled), q)

\* What poll found readable are kick fds that their vrings still have.
Watched ==
  /\ pc \in {"recv", "handle", "kicks", "serve"} =>
       \A p \in kick_slots : /\ p[1] \in Slots /\ p[2] # None
                             /\ slots[p[1]].kick_fd = p[2]
  /\ pc \in {"recv", "handle"} => \A p \in kick_slots : slots[p[1]].enabled

DrainInv ==
  FrameInv /\ DisablesFirst(script) /\ KickIs /\ EnabledBy /\ Watched

\* What a step that handles no message leaves as it is.
Leaves ==
  /\ UNCHANGED <<script, slots, handled>>
  /\ Len(sent) \in Nat /\ Len(sent') \in Nat /\ Len(sent) <= Len(sent')
  /\ \A i \in 1 .. Len(sent) : sent'[i] = sent[i]
  /\ \A q \in Slots : \A f \in FdFields :
       slots[q][f] # None => open'[slots[q][f]] = open[slots[q][f]]

\* The numbers of vrings are never free, nor those of files.
LEMMA SlotsLeft ==
  ASSUME OwnerInv, \A n \in Fds : open[n] # Closed /\ n \notin files => open'[n] = open[n]
  PROVE  \A q \in Slots : \A f \in FdFields :
           slots[q][f] # None => open'[slots[q][f]] = open[slots[q][f]]
<1> SUFFICES ASSUME NEW q \in Slots, NEW f \in FdFields, slots[q][f] # None
             PROVE  open'[slots[q][f]] = open[slots[q][f]]
  BY Zenon
<1>1. slots[q][f] \in Fds
  BY DEF OwnerInv, FdTypes, VringFds, FdFields
<1> QED
  BY Zenon, <1>1 DEF OwnerInv, Ownership, SlotsOpen

\* Only handle_one_message changes the vrings.
LEMMA OthersLeave ==
  ASSUME FrameInv, [Next]_vars
  PROVE  HandleOneMessage \/ Leaves
<1>1. OwnerInv /\ open \in [Fds -> Held] /\ sent \in Seq(Messages) /\ Len(sent) \in Nat
  BY DEF FrameInv, OwnerInv, FdTypes, WireTypes
<1>2. CASE SendMessage
  <2> DEFINE m == Message(Len(sent) + 1, script[Len(sent) + 1])
  <2>1. sent' = Append(sent, m) /\ UNCHANGED <<script, slots, handled, open>>
    BY Zenon, <1>2 DEF SendMessage, serverVars
  <2> HIDE DEF m
  <2>2. Len(sent') = Len(sent) + 1 /\ \A i \in 1 .. Len(sent) : sent'[i] = sent[i]
    BY <1>1, <2>1
  <2> QED
    BY <1>1, <2>1, <2>2 DEF Leaves
<1>3. CASE UNCHANGED <<script, slots, handled, open, sent>>
  BY <1>1, <1>3 DEF Leaves
<1>4. ASSUME UNCHANGED <<script, slots, handled, sent>>,
             \A n \in Fds : open[n] # Closed /\ n \notin files => open'[n] = open[n]
      PROVE  Leaves
  BY <1>1, <1>4, SlotsLeft DEF Leaves
<1>5. CASE Recv
  <2>1. Arrivals(Head(stream)) /\ UNCHANGED <<script, slots, handled, sent>>
    BY Zenon, <1>5, RecvArrivals DEF Recv, frontVars
  <2> QED
    BY Zenon, <1>4, <2>1 DEF Arrivals
<1>6. CASE \E n \in Fds : OpenFile(n) \/ CloseFile(n)
  <2> PICK n \in Fds : OpenFile(n) \/ CloseFile(n)
    BY <1>6
  <2>1. /\ UNCHANGED <<script, slots, handled, sent>>
        /\ open[n] = Closed \/ n \in files
        /\ \/ open' = [open EXCEPT ![n] = <<"file", 0, 0>>]
           \/ open' = [open EXCEPT ![n] = Closed]
    BY Zenon DEF OpenFile, CloseFile, Free, frontVars
  <2>2. \A k \in Fds : k # n => open'[k] = open[k]
    BY Zenon, <1>1, <2>1
  <2> QED
    BY <1>4, <2>1, <2>2
<1>7. CASE Bind \/ Accept \/ Poll \/ RecvEnds \/ HandleFails \/ KicksDone
  BY Zenon, <1>3, <1>7 DEF Bind, Accept, Poll, RecvEnds, HandleFails, KicksDone, frontVars
<1>8. CASE \E p \in kick_slots : Drain(p) \/ FinishServe(p)
  BY Zenon, <1>3, <1>8 DEF Drain, FinishServe, frontVars
<1>9. CASE SendRest \/ CloseConnection
  BY Zenon, <1>3, <1>9 DEF SendRest, CloseConnection, serverVars
<1>10. CASE \E i \in DOMAIN script : RingKick(i) \/ ConsumeCall(i)
  BY Zenon, <1>3, <1>10 DEF RingKick, ConsumeCall, serverVars, frontVars
<1>11. CASE UNCHANGED vars
  BY Zenon, <1>3, <1>11 DEF vars
<1> QED
  BY <1>2, <1>5, <1>6, <1>7, <1>8, <1>9, <1>10, <1>11 DEF Next, Server, FrontEnd

\* What makes a vring enabled stays when more is sent, or handled for others.
LEMMA EnabledKept ==
  ASSUME NEW s, NEW t, NEW n \in Nat, NEW q, EnabledAt(s, n, q),
         \A i \in 1 .. n : t[i] = s[i]
  PROVE  /\ EnabledAt(t, n, q)
         /\ ~(t[n + 1].request = "SET_VRING_ENABLE" /\ t[n + 1].index = q)
              => EnabledAt(t, n + 1, q)
<1>1. PICK i \in 1 .. n :
        /\ s[i].request = "SET_VRING_ENABLE" /\ s[i].index = q /\ s[i].num # 0
        /\ \A j \in i + 1 .. n : ~(s[j].request = "SET_VRING_ENABLE" /\ s[j].index = q)
  BY Zenon DEF EnabledAt
<1>2. i \in 1 .. n + 1 /\ \A j \in i + 1 .. n : j \in 1 .. n
  OBVIOUS
<1>3. \A j \in i + 1 .. n + 1 : j \in i + 1 .. n \/ j = n + 1
  OBVIOUS
<1>4. EnabledAt(t, n, q)
  BY ZenonT(30), <1>1, <1>2 DEF EnabledAt
<1>5. ASSUME ~(t[n + 1].request = "SET_VRING_ENABLE" /\ t[n + 1].index = q)
      PROVE  EnabledAt(t, n + 1, q)
  <2>1. \A j \in i + 1 .. n + 1 : ~(t[j].request = "SET_VRING_ENABLE" /\ t[j].index = q)
    BY Zenon, <1>1, <1>2, <1>3, <1>5
  <2>2. t[i].request = "SET_VRING_ENABLE" /\ t[i].index = q /\ t[i].num # 0
    BY <1>1
  <2> QED
    BY Zenon, <1>2, <2>1, <2>2 DEF EnabledAt
<1> QED
  BY Zenon, <1>4, <1>5

\* A message is handled: the kick fds are still the vrings' own.
LEMMA HandleKickIs ==
  ASSUME FrameInv, KickIs, HandleOneMessage
  PROVE  KickIs'
<1> DEFINE m == Decoded(buf)
           objects == [k \in DOMAIN fds |-> open[fds[k]]]
<1>1. Handles(m, objects) /\ Handle(m) /\ UNCHANGED sent
  BY Zenon, HandlesIs DEF HandleOneMessage, frontVars
<1> HIDE DEF m, objects
<1>2. Moves(m)
  BY <1>1, HandleMoves DEF FrameInv
<1>3. Receiving \in 1 .. Len(sent) /\ m = sent[Receiving]
  BY Zenon, <1>1 DEF Handles
<1>4. SUFFICES ASSUME NEW q \in Slots, slots'[q].kick_fd # None
               PROVE  /\ open'[slots'[q].kick_fd][1] = "kick"
                      /\ open'[slots'[q].kick_fd][2] \in 1 .. Len(sent)
                      /\ sent[open'[slots'[q].kick_fd][2]].index = q
  BY Zenon, <1>1 DEF KickIs
<1>5. "kick_fd" \in FdFields
  BY DEF FdFields
<1>6. CASE Sets(m, q, "kick_fd")
  <2>1. m.request = "SET_VRING_KICK" /\ m.index = q
    BY <1>6 DEF Sets, Setter
  <2>2. slots'[q].kick_fd = TakeFd(m) /\ open'[TakeFd(m)] = open[TakeFd(m)]
    BY Zenon, <1>2, <1>4, <1>5, <1>6 DEF Moves
  <2>3. m.fds = <<open[TakeFd(m)]>>
    BY Zenon, <1>1, <1>4, <2>1, <2>2, TakenIs
  <2>4. m.fds[1] = <<"kick", Receiving, 1>>
    <3>1. Len(m.fds) = 1
      BY <2>3
    <3>2. 1 \in 1 .. Len(m.fds) /\ Says(Receiving)
      BY <1>3, <3>1, MessageSays
    <3>3. m.fds[1] = <<Kind(m.request), Receiving, 1>>
      BY Zenon, <1>3, <3>2 DEF Says
    <3> QED
      BY <2>1, <3>3 DEF Kind
  <2>5. open'[slots'[q].kick_fd] = <<"kick", Receiving, 1>>
    BY <2>2, <2>3, <2>4
  <2> QED
    BY <1>3, <2>1, <2>5
<1>7. CASE ~Sets(m, q, "kick_fd")
  <2>1. slots'[q].kick_fd = slots[q].kick_fd
        /\ (slots[q].kick_fd # None => open'[slots[q].kick_fd] = open[slots[q].kick_fd])
    BY Zenon, <1>2, <1>5, <1>7 DEF Moves
  <2> QED
    BY ZenonT(30), <1>4, <2>1 DEF KickIs
<1> QED
  BY Zenon, <1>6, <1>7

\* A message is handled: a vring is enabled only by its SET_VRING_ENABLE.
LEMMA HandleEnabledBy ==
  ASSUME FrameInv, EnabledBy, HandleOneMessage
  PROVE  EnabledBy'
<1> DEFINE m == Decoded(buf)
           n == Len(handled)
<1>1. /\ Handles(m, [k \in DOMAIN fds |-> open[fds[k]]]) /\ Handle(m) /\ UNCHANGED sent
      /\ \E h : handled' = Append(handled, h)
  BY Zenon, HandlesIs DEF HandleOneMessage, frontVars
<1> HIDE DEF m
<1>2. /\ handled \in Seq(Messages) /\ n \in Nat /\ Receiving = n + 1
      /\ m = sent[n + 1] /\ n + 1 \in 1 .. Len(sent)
      /\ slots \in [Slots -> VringFds]
  BY <1>1 DEF Handles, FrameInv, BufInv, Receiving, OwnerInv, FdTypes
<1>3. Len(handled') = n + 1
  BY <1>1, <1>2
<1> HIDE DEF n
<1>4. SUFFICES ASSUME NEW q \in Slots, slots'[q].enabled
               PROVE  EnabledAt(sent, n + 1, q)
  BY Zenon, <1>1, <1>3 DEF EnabledBy
<1>5. CASE m.request = "SET_VRING_ENABLE" /\ m.index = q
  <2>1. SetVringEnable(m)
    BY <1>1, <1>5 DEF Handle, Replied
  <2>2. slots'[q].enabled = (m.num # 0)
    BY <1>2, <1>5, <2>1 DEF SetVringEnable, VringFds
  <2>3. n + 1 \in 1 .. n + 1 /\ \A j \in (n + 1) + 1 .. n + 1 : FALSE
    BY <1>2
  <2>4. sent[n + 1].request = "SET_VRING_ENABLE" /\ sent[n + 1].index = q /\ sent[n + 1].num # 0
    BY Zenon, <1>2, <1>4, <1>5, <2>2
  <2> QED
    BY Zenon, <2>3, <2>4 DEF EnabledAt
<1>6. CASE ~(m.request = "SET_VRING_ENABLE" /\ m.index = q)
  <2>1. slots[q].enabled
    <3>1. CASE \E f \in FdFields : SetVringFd(m, f)
      BY <1>2, <1>4, <3>1 DEF SetVringFd, VringFds, FdFields
    <3>2. CASE UNCHANGED slots
      BY <1>4, <3>2
    <3>3. CASE m.index # q /\ SetVringEnable(m)
      BY <1>2, <1>4, <3>3 DEF SetVringEnable
    <3> QED
      BY <1>1, <1>6, <3>1, <3>2, <3>3
      DEF Handle, SetMemTable, SetVringErr, Reply, Ignore, FdFields
  <2>2. EnabledAt(sent, n, q)
    BY <2>1 DEF EnabledBy, n
  <2> QED
    BY Zenon, <1>2, <1>6, <2>2, EnabledKept
<1> QED
  BY <1>5, <1>6

\* A message is handled: no vring whose kick fd was polled gets another.
LEMMA HandleWatched ==
  ASSUME DrainInv, HandleOneMessage
  PROVE  Watched'
<1> DEFINE m == Decoded(buf)
           n == Len(handled)
<1>1. /\ FrameInv /\ DisablesFirst(script) /\ EnabledBy /\ Watched
      /\ pc = "handle" /\ pc' \in {"exited", "kicks"} /\ kick_slots' = kick_slots
      /\ Handles(m, [k \in DOMAIN fds |-> open[fds[k]]]) /\ Handle(m)
  BY Zenon, HandlesIs DEF DrainInv, HandleOneMessage
<1> HIDE DEF m
<1>2. /\ n \in Nat /\ m = sent[n + 1] /\ n + 1 \in 1 .. Len(sent)
  BY <1>1 DEF Handles, FrameInv, BufInv, Receiving
<1>3. Moves(m)
  BY Zenon, <1>1, HandleMoves DEF FrameInv
<1> HIDE DEF n
<1>4. SUFFICES ASSUME NEW p \in kick_slots
               PROVE  /\ p[1] \in Slots /\ p[2] # None
                      /\ slots'[p[1]].kick_fd = p[2]
  BY Zenon, <1>1 DEF Watched
<1>5. /\ p[1] \in Slots /\ p[2] # None
      /\ slots[p[1]].kick_fd = p[2] /\ slots[p[1]].enabled
  BY Zenon, <1>1 DEF Watched
<1>6. EnabledAt(sent, n, p[1])
  BY Zenon, <1>1, <1>5 DEF EnabledBy, n
<1>7. \A i \in 1 .. n + 1 : /\ script[i].request = sent[i].request
                            /\ script[i].index = sent[i].index /\ script[i].num = sent[i].num
                            /\ i \in DOMAIN script
  <2> TAKE i \in 1 .. n + 1
  <2>1. i \in 1 .. Len(sent)
    BY <1>1, <1>2, FrameTypes
  <2>2. sent[i] = Message(i, script[i])
    BY Zenon, <1>1, <2>1 DEF FrameInv, SentInv
  <2>3. i \in DOMAIN script
    BY Zenon, <1>1, <2>1, MessageSays DEF Says
  <2> QED
    BY <2>2, <2>3 DEF Message
<1>8. EnabledAt(script, n, p[1])
  <2>1. PICK i \in 1 .. n :
          /\ sent[i].request = "SET_VRING_ENABLE" /\ sent[i].index = p[1] /\ sent[i].num # 0
          /\ \A j \in i + 1 .. n : ~(sent[j].request = "SET_VRING_ENABLE" /\ sent[j].index = p[1])
    BY Zenon, <1>6 DEF EnabledAt
  <2>2. i \in 1 .. n + 1 /\ \A j \in i + 1 .. n : j \in 1 .. n + 1
    BY <1>2
  <2> QED
    BY ZenonT(30), <1>7, <2>1, <2>2 DEF EnabledAt
<1>9. ~Sets(m, p[1], "kick_fd")
  <2> SUFFICES ASSUME m.request = "SET_VRING_KICK", m.index = p[1] PROVE FALSE
    BY DEF Sets, Setter
  <2>1. n + 1 \in 1 .. n + 1 /\ (n + 1) - 1 = n
    BY <1>2
  <2>2. n + 1 \in DOMAIN script /\ script[n + 1].request = "SET_VRING_KICK"
        /\ script[n + 1].index = p[1]
    BY Zenon, <1>2, <1>7, <2>1
  <2>3. ~EnabledAt(script, (n + 1) - 1, script[n + 1].index)
    BY Zenon, <1>1, <2>2 DEF DisablesFirst
  <2> QED
    BY Zenon, <1>8, <2>1, <2>2, <2>3
<1>10. slots'[p[1]].kick_fd = slots[p[1]].kick_fd
  BY Zenon, <1>3, <1>5, <1>9 DEF Moves, FdFields
<1> QED
  BY Zenon, <1>5, <1>10

\* Every step keeps what poll found readable with its vring.
LEMMA DrainStep == DrainInv /\ [Next]_vars => DrainInv'
<1> SUFFICES ASSUME DrainInv, [Next]_vars PROVE DrainInv'
  OBVIOUS
<1>1. FrameInv /\ DisablesFirst(script) /\ KickIs /\ EnabledBy /\ Watched
  BY DEF DrainInv
<1>2. FrameInv'
  BY <1>1, FrameStep
<1>3. CASE HandleOneMessage
  <2>1. script' = script
    BY <1>3 DEF HandleOneMessage, frontVars
  <2> QED
    BY <1>1, <1>2, <1>3, <2>1, HandleKickIs, HandleEnabledBy, HandleWatched DEF DrainInv
<1>4. CASE Leaves /\ ~HandleOneMessage
  <2>1. script' = script /\ slots' = slots /\ Len(handled) \in Nat /\ Len(handled) <= Len(sent)
        /\ handled' = handled
    BY <1>1, <1>4 DEF Leaves, FrameInv, BufInv, Framed
  <2>2. KickIs'
    <3> SUFFICES ASSUME NEW q \in Slots, slots[q].kick_fd # None
                 PROVE  /\ open'[slots[q].kick_fd][1] = "kick"
                        /\ open'[slots[q].kick_fd][2] \in 1 .. Len(sent')
                        /\ sent'[open'[slots[q].kick_fd][2]].index = q
      BY Zenon, <2>1 DEF KickIs
    <3>1. open'[slots[q].kick_fd] = open[slots[q].kick_fd]
      BY Zenon, <1>4 DEF Leaves, FdFields
    <3>2. \A i \in 1 .. Len(sent) : i \in 1 .. Len(sent') /\ sent'[i] = sent[i]
      BY <1>4 DEF Leaves
    <3> QED
      BY <1>1, <3>1, <3>2 DEF KickIs
  <2>3. EnabledBy'
    <3>1. \A i \in 1 .. Len(handled) : sent'[i] = sent[i]
      BY <1>4, <2>1 DEF Leaves
    <3> QED
      BY Zenon, <1>1, <2>1, <3>1, EnabledKept DEF EnabledBy
  <2>4. Watched'
    <3>1. CASE Poll
      <4>1. pc' \in {"recv", "kicks"}
            /\ \A p \in kick_slots' : \E q \in Slots : p = <<q, slots[q].kick_fd>> /\ Polled(q)
        BY Zenon, <3>1 DEF Poll
      <4> QED
        BY <2>1, <4>1 DEF Watched, Polled
    <3>2. CASE Recv
      <4>1. pc = "recv" /\ kick_slots' = kick_slots
        BY <3>2 DEF Recv
      <4> QED
        BY Zenon, <1>1, <2>1, <4>1 DEF Watched
    <3>3. CASE \E p \in kick_slots : Drain(p) \/ FinishServe(p)
      <4>1. pc \in {"kicks", "serve"} /\ pc' \in {"kicks", "serve"} /\ kick_slots' \subseteq kick_slots
        BY Zenon, <3>3 DEF Drain, FinishServe
      <4> QED
        BY Zenon, <1>1, <2>1, <4>1 DEF Watched
    <3>4. CASE pc' = pc /\ kick_slots' = kick_slots
      BY Zenon, <1>1, <2>1, <3>4 DEF Watched
    <3>5. CASE pc' \in {"accept", "poll", "exited"}
      BY <3>5 DEF Watched
    <3> QED
      BY Zenon, <1>4, <3>1, <3>2, <3>3, <3>4, <3>5
      DEF Next, Server, FrontEnd, vars, serverVars, Bind, Accept, RecvEnds, HandleFails,
          KicksDone, OpenFile, CloseFile, SendMessage, SendRest, CloseConnection, RingKick,
          ConsumeCall
  <2> QED
    BY <1>1, <1>2, <2>1, <2>2, <2>3, <2>4 DEF DrainInv
<1> QED
  BY <1>1, <1>3, <1>4, OthersLeave

\* drain_fd reads the doorbell that poll found readable, provided that the
\* front-end disables a vring before it replaces its kick fd.
THEOREM KicksDrainTheirOwn ==
  (\A s \in Scripts : DisablesFirst(s)) => (Spec => []DrainsOwnKick)
<1>1. (\A s \in Scripts : DisablesFirst(s)) /\ Init => DrainInv
  <2> SUFFICES ASSUME \A s \in Scripts : DisablesFirst(s), Init PROVE DrainInv
    OBVIOUS
  <2>1. DisablesFirst(script)
    BY DEF Init
  <2>2. KickIs /\ EnabledBy /\ Watched
    BY Zenon DEF Init, KickIs, EnabledBy, Watched
  <2> QED
    BY <2>1, <2>2, FrameInit DEF DrainInv
<1>2. DrainInv => DrainsOwnKick
  BY DEF DrainInv, KickIs, Watched, DrainsOwnKick
<1> QED
  BY <1>1, <1>2, DrainStep, PTL DEF Spec

=============================================================================
