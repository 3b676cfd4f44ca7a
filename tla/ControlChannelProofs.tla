------------------------ MODULE ControlChannelProofs ------------------------
(***************************************************************************)
(* Proofs about module ControlChannel: no fd the control connection brings *)
(* comes to have two owners, and what is handled is what was sent, whole,  *)
(* in order and with its fds, however the socket cuts it.  Module          *)
(* ControlVringProofs builds on the invariants of this one.                *)
(*                                                                         *)
(* They hold for every script of the front-end, every number of vrings,    *)
(* every length of header and payload and every size of the descriptor     *)
(* table.                                                                  *)
(***************************************************************************)
EXTENDS ControlChannel, SequenceTheorems, TLAPS

Sendable == Kinds \X Nat \X Nat
Held == Sendable \cup {Closed, <<"file", 0, 0>>}
Chunks == [cells : Seq(Nat \X Nat), fds : Seq(Sendable)]
Messages == [request : STRING, index : Nat, num : Nat, no_fd : BOOLEAN,
             size : Nat, fds : Seq(Sendable)]
FdFields == {"kick_fd", "call_fd"}
VringFds == [kick_fd : Fds \cup {None}, call_fd : Fds \cup {None},
             enabled : BOOLEAN]

\* The types of what the ownership of fds depends on.
WireTypes ==
  /\ script \in Scripts
  /\ sent \in Seq(Messages)
  /\ stream \in Seq(Chunks) /\ unsent \in Seq(Chunks)

FdTypes ==
  /\ open \in [Fds -> Held]
  /\ files \subseteq Fds
  /\ slots \in [Slots -> VringFds]
  /\ fds \in Seq(Fds)

\* The numbers of the message being received are open, each is there once,
\* and they belong to nobody else.
FdsFresh ==
  /\ \A j, k \in 1 .. Len(fds) : fds[j] = fds[k] => j = k
  /\ \A k \in 1 .. Len(fds) :
       /\ open[fds[k]] # Closed
       /\ fds[k] \notin files
       /\ \A q \in Slots : \A f \in FdFields : slots[q][f] # fds[k]

SlotsDisjoint ==
  \A q, r \in Slots : \A f, g \in FdFields :
    slots[q][f] # None /\ slots[q][f] = slots[r][g] => q = r /\ f = g

SlotsOpen ==
  \A q \in Slots : \A f \in FdFields :
    slots[q][f] # None => open[slots[q][f]] # Closed /\ slots[q][f] \notin files

FilesOpen == \A n \in files : open[n] # Closed

Ownership == FdsFresh /\ SlotsDisjoint /\ SlotsOpen /\ FilesOpen
OwnerInv == WireTypes /\ FdTypes /\ Ownership
-----------------------------------------------------------------------------
\* An object that is sent is not the mark of a free number.
LEMMA SendableOpen == \A o \in Sendable : o # Closed /\ o \in Held
BY DEF Sendable, Closed, Held, Kinds

\* A file is not the mark of a free number.
LEMMA FileOpen == <<"file", 0, 0>> # Closed /\ <<"file", 0, 0>> \in Held
BY DEF Closed, Held

\* Numbers are positive, so none is None.
LEMMA NumbersPositive == None \notin Fds /\ Fds \subseteq Nat
BY ChannelAssumption DEF Fds, None

\* What the invariant says of single numbers is what OneOwner says of sets.
LEMMA OwnerInvImplies == OwnerInv => OneOwner
<1> SUFFICES ASSUME OwnerInv PROVE OneOwner
  OBVIOUS
<1> USE DEF OwnerInv, Ownership, FdTypes
<1>1. Owned = {slots[q][f] : q \in Slots, f \in FdFields} \ {None}
  BY DEF Owned, Owner, FdFields
<1>2. RangeOf(fds) = {fds[k] : k \in 1 .. Len(fds)}
  BY DEF RangeOf
<1>3. (files \cup RangeOf(fds)) \cap Owned = {}
  BY <1>1, <1>2 DEF SlotsOpen, FdsFresh
<1>4. \A n \in Owned \cup files : open[n] # Closed
  BY <1>1 DEF SlotsOpen, FilesOpen
<1>5. QED
  BY <1>3, <1>4 DEF OneOwner, SlotsDisjoint, FdFields

\* A daemon that has just started owns nothing.
LEMMA OwnerInit == Init => OwnerInv
<1> SUFFICES ASSUME Init PROVE OwnerInv
  OBVIOUS
<1>1. WireTypes
  BY DEF Init, WireTypes
<1>2. FdTypes
  BY DEF Init, FdTypes, Held, VringFds
<1>3. Ownership
  BY DEF Init, Ownership, FdsFresh, SlotsDisjoint, SlotsOpen, FilesOpen, FdFields
<1>4. QED
  BY <1>1, <1>2, <1>3 DEF OwnerInv
-----------------------------------------------------------------------------
\* A part of a sequence has its type.
LEMMA SubSeqType ==
  ASSUME NEW S, NEW s \in Seq(S), NEW m \in Nat \ {0}, NEW n \in Nat, n <= Len(s)
  PROVE  SubSeq(s, m, n) \in Seq(S)
<1>1. \A i \in m .. n : s[i] \in S
  BY ElementOfSeq
<1>2. QED
  BY <1>1, SubSeqProperties

\* A message has a type, and its fds are objects.
LEMMA MessageType ==
  ASSUME NEW i \in Nat, NEW a \in [request : STRING, index : Nat, num : Nat]
  PROVE  /\ Message(i, a) \in Messages
         /\ Message(i, a).size \in Nat
         /\ Message(i, a).fds \in Seq(Sendable)
<1> DEFINE k == Kind(a.request)
           n == IF k = "none" THEN 0 ELSE a.num
           objects == [x \in 1 .. n |-> <<k, i, x>>]
<1>1. k \in Kinds \cup {"none"}
  BY DEF Kind, Kinds
<1>2. n \in Nat
  BY <1>1
<1>3. objects \in Seq(Sendable)
  <2>1. \A x \in 1 .. n : <<k, i, x>> \in Sendable
    BY <1>1 DEF Sendable
  <2>2. objects \in [1 .. n -> Sendable]
    BY <2>1
  <2>3. QED
    BY <1>2, <2>2
<1>4. Size(a) \in Nat
  BY ChannelAssumption DEF Size
<1>5. QED
  BY <1>3, <1>4 DEF Message, Messages

\* A message is sent: the types of the stream are kept.
LEMMA SendTypes == WireTypes /\ (SendMessage \/ SendRest) => WireTypes'
<1> SUFFICES ASSUME WireTypes, SendMessage \/ SendRest PROVE WireTypes'
  OBVIOUS
<1>1. CASE SendMessage
  <2> DEFINE i == Len(sent) + 1
             m == Message(i, script[i])
             cells == Cells(i, m.size)
             header == SubSeq(cells, 1, HeaderLen)
             payload == SubSeq(cells, HeaderLen + 1, Len(cells))
  <2>1. i \in Nat
    BY DEF WireTypes
  <2>2. script[i] \in [request : STRING, index : Nat, num : Nat]
    <3>1. script \in Seq([request : STRING, index : Nat, num : Nat])
      BY ChannelAssumption DEF WireTypes
    <3>2. Len(sent) \in Nat /\ Len(sent) < Len(script)
      BY <1>1 DEF SendMessage, WireTypes
    <3>3. i \in 1 .. Len(script)
      BY <3>1, <3>2
    <3> HIDE DEF i
    <3>4. QED
      BY Zenon, <3>1, <3>3, ElementOfSeq
  <2>3. m \in Messages /\ m.size \in Nat /\ m.fds \in Seq(Sendable)
    BY <2>1, <2>2, MessageType
  <2>4. cells \in Seq(Nat \X Nat) /\ Len(cells) = HeaderLen + m.size
    <3> HIDE DEF m, i
    <3>1. \A x \in 1 .. HeaderLen + m.size : <<i, x>> \in Nat \X Nat
      BY <2>1, <2>3, ChannelAssumption
    <3>2. cells \in [1 .. HeaderLen + m.size -> Nat \X Nat]
      BY <3>1 DEF Cells
    <3>3. HeaderLen + m.size \in Nat
      BY <2>3, ChannelAssumption
    <3>4. QED
      BY <3>2, <3>3
  <2>5. header \in Seq(Nat \X Nat) /\ payload \in Seq(Nat \X Nat)
    <3> HIDE DEF cells, m, i
    <3>1. /\ 1 \in Nat \ {0} /\ HeaderLen + 1 \in Nat \ {0}
          /\ HeaderLen \in Nat /\ Len(cells) \in Nat
          /\ HeaderLen <= Len(cells) /\ Len(cells) <= Len(cells)
      BY <2>3, <2>4, ChannelAssumption
    <3>2. header \in Seq(Nat \X Nat)
      BY <2>4, <3>1, SubSeqType
    <3>3. payload \in Seq(Nat \X Nat)
      BY <2>4, <3>1, SubSeqType
    <3>4. QED
      BY <3>2, <3>3
  <2>6. /\ Chunk(cells, m.fds) \in Chunks
        /\ Chunk(header, m.fds) \in Chunks /\ Chunk(payload, m.fds) \in Chunks
        /\ Chunk(header, <<>>) \in Chunks /\ Chunk(payload, <<>>) \in Chunks
    <3> HIDE DEF header, payload, cells, m, i
    <3>1. QED
      BY <2>3, <2>4, <2>5 DEF Chunk, Chunks
  <2>7. sent' = Append(sent, m) /\ script' = script
    BY <1>1 DEF SendMessage
  <2>8. stream' \in Seq(Chunks) /\ unsent' \in Seq(Chunks)
    <3>1. \/ stream' = Append(stream, Chunk(cells, m.fds)) /\ unsent' = <<>>
          \/ /\ stream' = Append(stream, Chunk(header, m.fds))
             /\ unsent' = <<Chunk(payload, <<>>)>>
          \/ /\ stream' = Append(stream, Chunk(header, <<>>))
             /\ unsent' = <<Chunk(payload, m.fds)>>
      BY Zenon, <1>1 DEF SendMessage
    <3>2. \A c \in Chunks : Append(stream, c) \in Seq(Chunks) /\ <<c>> \in Seq(Chunks)
      BY DEF WireTypes
    <3>3. <<>> \in Seq(Chunks)
      OBVIOUS
    <3> HIDE DEF header, payload, cells, m, i
    <3>4. CASE stream' = Append(stream, Chunk(cells, m.fds)) /\ unsent' = <<>>
      BY <3>2, <3>3, <3>4, <2>6
    <3>5. CASE /\ stream' = Append(stream, Chunk(header, m.fds))
               /\ unsent' = <<Chunk(payload, <<>>)>>
      BY <3>2, <3>5, <2>6
    <3>6. CASE /\ stream' = Append(stream, Chunk(header, <<>>))
               /\ unsent' = <<Chunk(payload, m.fds)>>
      BY <3>2, <3>6, <2>6
    <3>7. QED
      BY <3>1, <3>4, <3>5, <3>6
  <2>9. QED
    <3> HIDE DEF m
    <3>1. QED
      BY <2>3, <2>7, <2>8 DEF WireTypes
<1>2. CASE SendRest
  BY <1>2 DEF SendRest, WireTypes
<1>3. QED
  BY <1>1, <1>2
-----------------------------------------------------------------------------
\* Fds that arrive get numbers that were free; nothing else changes.
LEMMA InstalledFds ==
  ASSUME open \in [Fds -> Held], NEW len \in Nat, NEW nums \in [1 .. len -> Free],
         NEW objects \in Seq(Sendable), len <= Len(objects), Lowest(nums)
  PROVE  /\ Installed(nums, objects) \in [Fds -> Held]
         /\ \A k \in 1 .. len : Installed(nums, objects)[nums[k]] # Closed
         /\ \A n \in Fds : open[n] # Closed => Installed(nums, objects)[n] = open[n]
         /\ \A j, k \in 1 .. len : nums[j] = nums[k] => j = k
<1> DEFINE at(n) == CHOOSE k \in 1 .. len : nums[k] = n
<1>1. DOMAIN nums = 1 .. len
  OBVIOUS
<1>2. \A n : (\E k \in 1 .. len : nums[k] = n)
               => at(n) \in 1 .. len /\ nums[at(n)] = n
  OBVIOUS
<1>3. \A k \in 1 .. len : objects[k] \in Sendable
  BY ElementOfSeq
<1>4. Installed(nums, objects) =
        [n \in Fds |-> IF \E k \in 1 .. len : nums[k] = n
                       THEN objects[at(n)] ELSE open[n]]
  BY <1>1 DEF Installed
<1> HIDE DEF at
<1>5. Installed(nums, objects) \in [Fds -> Held]
  BY <1>2, <1>3, <1>4, SendableOpen
<1>6. \A k \in 1 .. len : Installed(nums, objects)[nums[k]] # Closed
  <2> TAKE k \in 1 .. len
  <2>1. nums[k] \in Fds
    BY DEF Free
  <2>2. Installed(nums, objects)[nums[k]] = objects[at(nums[k])]
    BY <1>4, <2>1
  <2>3. QED
    BY <1>2, <1>3, <2>2, SendableOpen
<1>7. \A n \in Fds : open[n] # Closed => Installed(nums, objects)[n] = open[n]
  BY <1>4 DEF Free
<1>8. \A j, k \in 1 .. len : nums[j] = nums[k] => j = k
  <2> SUFFICES ASSUME NEW j \in 1 .. len, NEW k \in 1 .. len, nums[j] = nums[k]
               PROVE  j = k
    OBVIOUS
  <2>1. nums[j] \in Nat /\ nums[k] \in Nat
    BY Zenon, NumbersPositive DEF Free
  <2>2. ~(j < k) /\ ~(k < j)
    BY <1>1, <2>1 DEF Lowest
  <2>3. QED
    BY <2>2
<1>9. QED
  BY <1>5, <1>6, <1>7, <1>8

\* A part of a message is received: its fds come to belong to the message.
LEMMA RecvOwner == OwnerInv /\ Recv => OwnerInv'
<1> SUFFICES ASSUME OwnerInv, Recv PROVE OwnerInv'
  OBVIOUS
<1> DEFINE chunk == Head(stream)
<1>1. chunk \in Chunks /\ Tail(stream) \in Seq(Chunks)
  BY HeadTailProperties DEF Recv, OwnerInv, WireTypes
<1>2. PICK k \in 1 .. Len(chunk.cells) :
        /\ stream' = IF k = Len(chunk.cells) THEN Tail(stream)
                     ELSE <<Chunk(SubSeq(chunk.cells, k + 1, Len(chunk.cells)), <<>>)>>
                            \o Tail(stream)
        /\ \E len \in 0 .. Len(chunk.fds) : \E nums \in [1 .. len -> Free] :
             Arrive(nums, chunk.fds) /\ fds' = Kept(nums)
  BY Zenon DEF Recv
<1> HIDE DEF chunk
<1>a. PICK len \in 0 .. Len(chunk.fds) : \E nums \in [1 .. len -> Free] :
        Arrive(nums, chunk.fds) /\ fds' = Kept(nums)
  BY <1>2
<1>3. PICK nums \in [1 .. len -> Free] :
        Arrive(nums, chunk.fds) /\ fds' = Kept(nums)
  BY <1>a
<1>4. chunk.fds \in Seq(Sendable) /\ chunk.cells \in Seq(Nat \X Nat)
  BY <1>1 DEF Chunks
<1>5. WireTypes'
  <2>1. stream' \in Seq(Chunks)
    <3>1. CASE k = Len(chunk.cells)
      BY <1>1, <1>2, <3>1
    <3>2. CASE k # Len(chunk.cells)
      <4> DEFINE rest == SubSeq(chunk.cells, k + 1, Len(chunk.cells))
      <4>1. rest \in Seq(Nat \X Nat)
        <5>1. /\ k + 1 \in Nat \ {0} /\ Len(chunk.cells) \in Nat
              /\ Len(chunk.cells) <= Len(chunk.cells)
          BY <1>4
        <5>2. QED
          BY <5>1, <1>4, SubSeqType
      <4>2. stream' = <<Chunk(rest, <<>>)>> \o Tail(stream)
        BY <1>2, <3>2
      <4> HIDE DEF rest
      <4>3. Chunk(rest, <<>>) \in Chunks
        BY <4>1 DEF Chunk, Chunks
      <4>4. <<Chunk(rest, <<>>)>> \in Seq(Chunks)
        BY <4>3
      <4>5. QED
        BY <1>1, <4>2, <4>4, ConcatProperties
    <3>3. QED
      BY <3>1, <3>2
  <2>2. UNCHANGED <<script, sent, unsent>>
    BY DEF Recv, frontVars
  <2>3. QED
    BY <2>1, <2>2 DEF OwnerInv, WireTypes
<1>6. UNCHANGED <<files, slots>>
  BY DEF Recv
<1>7. len \in Nat /\ len <= Len(chunk.fds)
  BY <1>4
<1>8. /\ open' \in [Fds -> Held]
      /\ \A j \in 1 .. len : open'[nums[j]] # Closed
      /\ \A n \in Fds : open[n] # Closed => open'[n] = open[n]
      /\ \A i, j \in 1 .. len : nums[i] = nums[j] => i = j
  <2>1. open \in [Fds -> Held]
    BY DEF OwnerInv, FdTypes
  <2>2. Lowest(nums) /\ open' = Installed(nums, chunk.fds)
    BY <1>3 DEF Arrive
  <2> DEFINE new == Installed(nums, chunk.fds)
  <2>3. /\ new \in [Fds -> Held]
        /\ \A j \in 1 .. len : new[nums[j]] # Closed
        /\ \A n \in Fds : open[n] # Closed => new[n] = open[n]
        /\ \A i, j \in 1 .. len : nums[i] = nums[j] => i = j
    BY ONLY Zenon, <1>4, <1>7, <2>1, <2>2, nums \in [1 .. len -> Free], InstalledFds
  <2>4. QED
    BY <2>2, <2>3
<1>9. \A j \in 1 .. len : nums[j] \in Fds /\ open[nums[j]] = Closed
  BY DEF Free
<1>10. nums \in Seq(Fds) /\ Len(nums) = len
  <2>1. nums \in [1 .. len -> Fds]
    BY <1>9
  <2>2. QED
    BY <1>7, <2>1
<1>11. /\ fds' \in Seq(Fds)
       /\ Len(fds') = Len(fds) + len
       /\ \A j \in 1 .. Len(fds) + len :
            fds'[j] = IF j <= Len(fds) THEN fds[j] ELSE nums[j - Len(fds)]
  <2>1. fds' = fds \o nums
    BY <1>3 DEF Kept
  <2>2. fds \in Seq(Fds)
    BY DEF OwnerInv, FdTypes
  <2>3. QED
    BY <1>10, <2>1, <2>2, ConcatProperties
<1>12. FdTypes'
  BY <1>6, <1>8, <1>11 DEF OwnerInv, FdTypes
<1>13. \A j \in 1 .. Len(fds') :
         \/ j \in 1 .. Len(fds) /\ fds'[j] = fds[j]
         \/ j - Len(fds) \in 1 .. len /\ fds'[j] = nums[j - Len(fds)]
            /\ j \notin 1 .. Len(fds)
  BY <1>7, <1>11 DEF OwnerInv, FdTypes
<1>14. \A j \in 1 .. Len(fds) : fds[j] \in Fds /\ open[fds[j]] # Closed
  BY ElementOfSeq DEF OwnerInv, FdTypes, Ownership, FdsFresh
<1>15. FdsFresh'
  <2>1. \A j, l \in 1 .. Len(fds') : fds'[j] = fds'[l] => j = l
    <3> SUFFICES ASSUME NEW j \in 1 .. Len(fds'), NEW l \in 1 .. Len(fds'),
                        fds'[j] = fds'[l]
                 PROVE  j = l
      OBVIOUS
    <3>1. CASE j \in 1 .. Len(fds) /\ l \in 1 .. Len(fds)
      BY <3>1, <1>13 DEF OwnerInv, Ownership, FdsFresh
    <3>2. CASE j \notin 1 .. Len(fds) /\ l \notin 1 .. Len(fds)
      <4>1. j - Len(fds) = l - Len(fds)
        BY <3>2, <1>8, <1>13
      <4>2. Len(fds) \in Nat
        BY DEF OwnerInv, FdTypes
      <4>3. QED
        BY <4>1, <4>2, <1>11
    <3>3. CASE j \in 1 .. Len(fds) /\ l \notin 1 .. Len(fds)
      <4>1. fds'[j] = fds[j] /\ \E i \in 1 .. len : fds'[l] = nums[i]
        BY Zenon, <3>3, <1>13
      <4>2. open[fds'[j]] # Closed /\ open[fds'[l]] = Closed
        BY Zenon, <3>3, <4>1, <1>9, <1>14
      <4> QED
        BY Zenon, <4>2
    <3>5. CASE j \notin 1 .. Len(fds) /\ l \in 1 .. Len(fds)
      <4>1. fds'[l] = fds[l] /\ \E i \in 1 .. len : fds'[j] = nums[i]
        BY Zenon, <3>5, <1>13
      <4>2. open[fds'[l]] # Closed /\ open[fds'[j]] = Closed
        BY Zenon, <3>5, <4>1, <1>9, <1>14
      <4> QED
        BY Zenon, <4>2
    <3>4. QED
      BY Zenon, <3>1, <3>2, <3>3, <3>5
  <2>2. ASSUME NEW j \in 1 .. Len(fds')
        PROVE  /\ open'[fds'[j]] # Closed
               /\ fds'[j] \notin files
               /\ \A q \in Slots : \A f \in FdFields : slots[q][f] # fds'[j]
    <3>1. CASE j \in 1 .. Len(fds) /\ fds'[j] = fds[j]
      BY <3>1, <1>8, <1>14 DEF OwnerInv, Ownership, FdsFresh
    <3>2. CASE j - Len(fds) \in 1 .. len /\ fds'[j] = nums[j - Len(fds)]
      <4>1. fds'[j] \in Fds /\ open[fds'[j]] = Closed /\ open'[fds'[j]] # Closed
        BY <3>2, <1>8, <1>9
      <4>2. fds'[j] # None
        BY <4>1, NumbersPositive
      <4>3. QED
        BY <4>1, <4>2 DEF OwnerInv, Ownership, FilesOpen, SlotsOpen
    <3>3. QED
      BY Zenon, <3>1, <3>2, <1>13
  <2>3. QED
    BY Zenon, <2>1, <2>2, <1>6 DEF FdsFresh
<1>16. SlotsDisjoint'
  BY <1>6 DEF OwnerInv, Ownership, SlotsDisjoint
<1>17. SlotsOpen'
  <2> SUFFICES ASSUME NEW q \in Slots, NEW f \in FdFields, slots[q][f] # None
               PROVE  open'[slots[q][f]] # Closed /\ slots[q][f] \notin files
    BY <1>6 DEF SlotsOpen
  <2>1. slots[q][f] \in Fds
    BY DEF OwnerInv, FdTypes, VringFds, FdFields
  <2>2. QED
    BY <1>8, <2>1 DEF OwnerInv, Ownership, SlotsOpen
<1>18. FilesOpen'
  BY <1>6, <1>8 DEF OwnerInv, Ownership, FdTypes, FilesOpen
<1>19. QED
  BY <1>5, <1>12, <1>15, <1>16, <1>17, <1>18 DEF OwnerInv, Ownership
-----------------------------------------------------------------------------
\* A number that is closed and belongs to nobody disturbs no owner, and the
\* numbers of the message are given up.
LEMMA DropOwner ==
  ASSUME OwnerInv, NEW fd,
         \A q \in Slots : \A f \in FdFields : slots[q][f] # None => slots[q][f] # fd,
         fd \notin files, open' = Dropped(fd), fds' = <<>>,
         UNCHANGED <<slots, files>>
  PROVE  FdTypes' /\ Ownership'
<1>1. \A n \in Fds : open'[n] = IF n = fd THEN Closed ELSE open[n]
  BY DEF Dropped
<1>2. open' \in [Fds -> Held]
  BY DEF Dropped, Held, OwnerInv, FdTypes
<1>3. FdTypes'
  BY <1>2 DEF OwnerInv, FdTypes
<1>4. FdsFresh'
  BY DEF FdsFresh
<1>5. SlotsDisjoint'
  BY DEF OwnerInv, Ownership, SlotsDisjoint
<1>6. SlotsOpen'
  <2> SUFFICES ASSUME NEW q \in Slots, NEW f \in FdFields, slots[q][f] # None
               PROVE  open'[slots[q][f]] # Closed /\ slots[q][f] \notin files
    BY DEF SlotsOpen
  <2>1. slots[q][f] \in Fds
    BY DEF OwnerInv, FdTypes, VringFds, FdFields
  <2>2. QED
    BY <1>1, <2>1 DEF OwnerInv, Ownership, SlotsOpen
<1>7. FilesOpen'
  BY <1>1 DEF OwnerInv, Ownership, FdTypes, FilesOpen
<1>8. QED
  BY <1>3, <1>4, <1>5, <1>6, <1>7 DEF Ownership

\* What take_fd returns is none, or a number of the message.
LEMMA TakenFd ==
  ASSUME OwnerInv, NEW m
  PROVE  \/ TakeFd(m) = None
         \/ /\ TakeFd(m) \in Fds /\ open[TakeFd(m)] # Closed
            /\ TakeFd(m) \notin files
            /\ \A q \in Slots : \A f \in FdFields : slots[q][f] # TakeFd(m)
<1>1. CASE m.no_fd \/ fds = <<>>
  BY <1>1 DEF TakeFd
<1>2. CASE ~(m.no_fd \/ fds = <<>>)
  <2>1. fds \in Seq(Fds)
    BY DEF OwnerInv, FdTypes
  <2>2. 1 \in 1 .. Len(fds)
    BY <1>2, <2>1, EmptySeq
  <2>3. TakeFd(m) = fds[1] /\ fds[1] \in Fds
    BY <1>2, <2>1, <2>2, ElementOfSeq DEF TakeFd
  <2>4. QED
    BY <2>2, <2>3 DEF OwnerInv, Ownership, FdsFresh
<1>3. QED
  BY <1>1, <1>2

\* A doorbell is set: the new number moves to the vring, the old is closed.
LEMMA SetVringFdOwner ==
  ASSUME OwnerInv, NEW m, NEW field \in FdFields, SetVringFd(m, field),
         fds' = <<>>, UNCHANGED files
  PROVE  FdTypes' /\ Ownership'
<1>1. CASE m.index \notin Slots
  <2>1. UNCHANGED <<open, slots>>
    BY <1>1 DEF SetVringFd
  <2>2. QED
    BY <2>1 DEF OwnerInv, FdTypes, Ownership, FdsFresh, SlotsDisjoint,
                SlotsOpen, FilesOpen
<1>2. CASE m.index \in Slots
  <2> DEFINE i == m.index
             new == TakeFd(m)
             old == slots[i][field]
  <2>1. /\ slots' = [slots EXCEPT ![i][field] = new]
        /\ open' = Dropped(old)
    BY <1>2 DEF SetVringFd
  <2>2. \/ new = None
        \/ /\ new \in Fds /\ open[new] # Closed /\ new \notin files
           /\ \A q \in Slots : \A f \in FdFields : slots[q][f] # new
    BY TakenFd
  <2> HIDE DEF new
  <2>3. slots \in [Slots -> VringFds]
    BY DEF OwnerInv, FdTypes
  <2>4. i \in Slots
    BY <1>2
  <2> HIDE DEF i
  <2>5. \A q \in Slots : \A f \in FdFields :
          slots'[q][f] = IF q = i /\ f = field THEN new ELSE slots[q][f]
    BY <2>1, <2>3, <2>4 DEF VringFds, FdFields
  <2>6. slots' \in [Slots -> VringFds]
    BY <2>1, <2>2, <2>3, <2>4 DEF VringFds, FdFields
  <2>7. \A n \in Fds : open'[n] = IF n = old THEN Closed ELSE open[n]
    BY <2>1 DEF Dropped
  <2>8. open' \in [Fds -> Held]
    BY <2>1 DEF Dropped, Held, OwnerInv, FdTypes
  <2>9. FdTypes'
    BY <2>6, <2>8 DEF OwnerInv, FdTypes
  <2>10. FdsFresh'
    BY DEF FdsFresh
  <2>11. SlotsDisjoint'
    BY <2>2, <2>5 DEF OwnerInv, Ownership, SlotsDisjoint
  <2>12. SlotsOpen'
    <3> SUFFICES ASSUME NEW q \in Slots, NEW f \in FdFields, slots'[q][f] # None
                 PROVE  open'[slots'[q][f]] # Closed /\ slots'[q][f] \notin files
      BY DEF SlotsOpen
    <3>1. CASE q = i /\ f = field
      <4>1. slots'[q][f] = new
        BY <2>5, <3>1
      <4>2. new # old
        BY <2>2, <2>4, <4>1
      <4>3. QED
        BY <2>2, <2>7, <4>1, <4>2
    <3>2. CASE ~(q = i /\ f = field)
      <4>1. slots'[q][f] = slots[q][f]
        BY <2>5, <3>2
      <4>2. slots[q][f] \in Fds
        BY <2>3, <4>1 DEF VringFds, FdFields
      <4>3. slots[q][f] # old
        BY <2>4, <3>2, <4>1 DEF OwnerInv, Ownership, SlotsDisjoint
      <4>4. QED
        BY <2>7, <4>1, <4>2, <4>3 DEF OwnerInv, Ownership, SlotsOpen
    <3>3. QED
      BY <3>1, <3>2
  <2>13. FilesOpen'
    <3> SUFFICES ASSUME NEW n \in files PROVE open'[n] # Closed
      BY DEF FilesOpen
    <3>1. n \in Fds /\ open[n] # Closed
      BY DEF OwnerInv, Ownership, FdTypes, FilesOpen
    <3>2. n # None
      BY <3>1, NumbersPositive
    <3>3. n # old
      BY <2>4, <3>2 DEF OwnerInv, Ownership, SlotsOpen
    <3>4. QED
      BY <2>7, <3>1, <3>3
  <2>14. QED
    BY <2>9, <2>10, <2>11, <2>12, <2>13 DEF Ownership
<1>3. QED
  BY <1>1, <1>2

\* A vring is enabled or disabled: it keeps its fds.
LEMMA SetVringEnableOwner ==
  ASSUME OwnerInv, NEW m, SetVringEnable(m), fds' = <<>>, UNCHANGED files
  PROVE  FdTypes' /\ Ownership'
<1>1. slots \in [Slots -> VringFds] /\ open' = open
  BY DEF OwnerInv, FdTypes, SetVringEnable
<1>2. \A q \in Slots : \A f \in FdFields : slots'[q][f] = slots[q][f]
  BY <1>1 DEF SetVringEnable, VringFds, FdFields
<1>3. slots' \in [Slots -> VringFds]
  BY Zenon, <1>1 DEF SetVringEnable, VringFds
<1>4. FdTypes'
  BY <1>1, <1>3 DEF OwnerInv, FdTypes
<1>5. Ownership'
  BY <1>1, <1>2 DEF OwnerInv, Ownership, FdsFresh, SlotsDisjoint, SlotsOpen,
                    FilesOpen
<1>6. QED
  BY <1>4, <1>5

\* Whatever a message asks for, no number gets a second owner.
LEMMA HandleOwner == OwnerInv /\ HandleOneMessage => OwnerInv'
<1> SUFFICES ASSUME OwnerInv, HandleOneMessage PROVE OwnerInv'
  OBVIOUS
<1> DEFINE m == Decoded(buf)
<1>1. fds' = <<>> /\ UNCHANGED files /\ Handle(m)
  BY DEF HandleOneMessage
<1>2. WireTypes'
  BY DEF HandleOneMessage, frontVars, OwnerInv, WireTypes
<1> HIDE DEF m
<1>3. FdTypes' /\ Ownership'
  <2>1. \/ UNCHANGED <<open, slots>>
        \/ \E field \in FdFields : SetVringFd(m, field)
        \/ SetVringErr(m)
        \/ SetVringEnable(m)
    BY <1>1 DEF Handle, SetMemTable, Reply, Ignore, FdFields
  <2>2. CASE UNCHANGED <<open, slots>>
    BY <1>1, <2>2 DEF OwnerInv, FdTypes, Ownership, FdsFresh, SlotsDisjoint,
                      SlotsOpen, FilesOpen
  <2>3. CASE \E field \in FdFields : SetVringFd(m, field)
    BY <1>1, <2>3, SetVringFdOwner
  <2>4. CASE SetVringErr(m)
    <3>1. open' = Dropped(TakeFd(m)) /\ UNCHANGED slots
      BY <2>4 DEF SetVringErr
    <3>2. /\ TakeFd(m) \notin files
          /\ \A q \in Slots : \A f \in FdFields :
               slots[q][f] # None => slots[q][f] # TakeFd(m)
      BY Zenon, TakenFd, NumbersPositive DEF OwnerInv, FdTypes
    <3>3. QED
      BY <1>1, <3>1, <3>2, DropOwner
  <2>5. CASE SetVringEnable(m)
    BY <1>1, <2>5, SetVringEnableOwner
  <2>6. QED
    BY <2>1, <2>2, <2>3, <2>4, <2>5
<1>4. QED
  BY <1>2, <1>3 DEF OwnerInv
-----------------------------------------------------------------------------
\* A file of the guest gets a number that was free.
LEMMA OpenFileOwner ==
  ASSUME OwnerInv, NEW n \in Fds, OpenFile(n)
  PROVE  OwnerInv'
<1>1. /\ open[n] = Closed /\ open' = [open EXCEPT ![n] = <<"file", 0, 0>>]
      /\ files' = files \cup {n}
      /\ UNCHANGED <<script, sent, stream, unsent, slots, fds>>
  BY DEF OpenFile, Free, frontVars
<1>2. \A k \in Fds : open'[k] = IF k = n THEN <<"file", 0, 0>> ELSE open[k]
  BY <1>1 DEF OwnerInv, FdTypes
<1>3. WireTypes'
  BY <1>1 DEF OwnerInv, WireTypes
<1>4. FdTypes'
  BY <1>1, FileOpen DEF OwnerInv, FdTypes
<1>5. \A k \in 1 .. Len(fds) : fds[k] \in Fds /\ open[fds[k]] # Closed
  BY ElementOfSeq DEF OwnerInv, FdTypes, Ownership, FdsFresh
<1>6. \A q \in Slots : \A f \in FdFields :
        slots[q][f] # None => slots[q][f] \in Fds /\ open[slots[q][f]] # Closed
  BY DEF OwnerInv, FdTypes, VringFds, FdFields, Ownership, SlotsOpen
<1>7. FdsFresh'
  BY <1>1, <1>2, <1>5 DEF OwnerInv, Ownership, FdsFresh
<1>8. SlotsDisjoint'
  BY <1>1 DEF OwnerInv, Ownership, SlotsDisjoint
<1>9. SlotsOpen'
  BY <1>1, <1>2, <1>6 DEF OwnerInv, Ownership, SlotsOpen
<1>10. FilesOpen'
  BY <1>1, <1>2, FileOpen DEF OwnerInv, FdTypes, Ownership, FilesOpen
<1>11. QED
  BY <1>3, <1>4, <1>7, <1>8, <1>9, <1>10 DEF OwnerInv, Ownership

\* A file of the guest is closed: its number was no other owner's.
LEMMA CloseFileOwner ==
  ASSUME OwnerInv, NEW n \in Fds, CloseFile(n)
  PROVE  OwnerInv'
<1>1. /\ n \in files /\ open' = [open EXCEPT ![n] = Closed]
      /\ files' = files \ {n}
      /\ UNCHANGED <<script, sent, stream, unsent, slots, fds>>
  BY DEF CloseFile, frontVars
<1>2. \A k \in Fds : open'[k] = IF k = n THEN Closed ELSE open[k]
  BY <1>1 DEF OwnerInv, FdTypes
<1>3. WireTypes'
  BY <1>1 DEF OwnerInv, WireTypes
<1>4. FdTypes'
  BY <1>1 DEF OwnerInv, FdTypes, Held
<1>5. \A k \in 1 .. Len(fds) : fds[k] \in Fds /\ fds[k] # n
  BY <1>1, ElementOfSeq DEF OwnerInv, FdTypes, Ownership, FdsFresh
<1>6. \A q \in Slots : \A f \in FdFields :
        slots[q][f] # None => slots[q][f] \in Fds /\ slots[q][f] # n
  BY <1>1 DEF OwnerInv, FdTypes, VringFds, FdFields, Ownership, SlotsOpen
<1>7. FdsFresh'
  BY ZenonT(30), <1>1, <1>2, <1>5 DEF OwnerInv, Ownership, FdsFresh
<1>8. SlotsDisjoint'
  BY <1>1 DEF OwnerInv, Ownership, SlotsDisjoint
<1>9. SlotsOpen'
  BY <1>1, <1>2, <1>6 DEF OwnerInv, Ownership, SlotsOpen
<1>10. FilesOpen'
  BY <1>1, <1>2 DEF OwnerInv, FdTypes, Ownership, FilesOpen
<1>11. QED
  BY <1>3, <1>4, <1>7, <1>8, <1>9, <1>10 DEF OwnerInv, Ownership

\* A step that leaves stream, table and owners alone.
LEMMA OwnerUnchanged ==
  OwnerInv /\ UNCHANGED <<script, sent, stream, unsent, open, files, slots, fds>>
    => OwnerInv'
BY DEF OwnerInv, WireTypes, FdTypes, Ownership, FdsFresh, SlotsDisjoint,
       SlotsOpen, FilesOpen

\* Every step of the daemon and of the front-end keeps the invariant.
LEMMA OwnerStep == OwnerInv /\ [Next]_vars => OwnerInv'
<1> SUFFICES ASSUME OwnerInv, [Next]_vars PROVE OwnerInv'
  OBVIOUS
<1> DEFINE Same == UNCHANGED <<script, sent, stream, unsent, open, files, slots, fds>>
<1>1. CASE Recv
  BY <1>1, RecvOwner
<1>2. CASE HandleOneMessage
  BY <1>2, HandleOwner
<1>3. CASE Bind \/ Accept \/ Poll \/ RecvEnds \/ HandleFails \/ KicksDone
  <2>1. Same
    BY Zenon, <1>3 DEF Bind, Accept, Poll, RecvEnds, HandleFails, KicksDone, frontVars
  <2>2. QED
    BY <2>1, OwnerUnchanged
<1>4. CASE \E p \in kick_slots : Drain(p) \/ FinishServe(p)
  <2>1. Same
    BY Zenon, <1>4 DEF Drain, FinishServe, frontVars
  <2>2. QED
    BY <2>1, OwnerUnchanged
<1>5. CASE \E n \in Fds : OpenFile(n) \/ CloseFile(n)
  BY <1>5, OpenFileOwner, CloseFileOwner
<1>6. CASE SendMessage \/ SendRest
  <2>1. WireTypes'
    BY <1>6, SendTypes DEF OwnerInv
  <2>2. UNCHANGED <<open, files, slots, fds>>
    BY Zenon, <1>6 DEF SendMessage, SendRest, serverVars
  <2>3. FdTypes' /\ Ownership'
    BY <2>2 DEF OwnerInv, FdTypes, Ownership, FdsFresh, SlotsDisjoint,
                SlotsOpen, FilesOpen
  <2>4. QED
    BY <2>1, <2>3 DEF OwnerInv
<1>7. CASE CloseConnection \/ \E i \in DOMAIN script : RingKick(i) \/ ConsumeCall(i)
  <2>1. Same
    BY Zenon, <1>7 DEF CloseConnection, RingKick, ConsumeCall, serverVars, frontVars
  <2>2. QED
    BY <2>1, OwnerUnchanged
<1>8. CASE UNCHANGED vars
  BY <1>8, OwnerUnchanged DEF vars
<1>9. QED
  BY <1>1, <1>2, <1>3, <1>4, <1>5, <1>6, <1>7, <1>8 DEF Next, Server, FrontEnd

(***************************************************************************)
(* Closing and replacing doorbells never takes a number from another       *)
(* owner: no two vring fds, files or received fds are the same number, and *)
(* none is closed while it is owned, whatever the front-end sends, however *)
(* its messages are split and whenever the descriptor table is full.       *)
(***************************************************************************)
THEOREM NumbersHaveOneOwner == Spec => []OneOwner
<1>1. Init => OwnerInv
  BY OwnerInit
<1>2. OwnerInv /\ [Next]_vars => OwnerInv'
  BY OwnerStep
<1>3. OwnerInv => OneOwner
  BY OwnerInvImplies
<1>4. QED
  BY <1>1, <1>2, <1>3, PTL DEF Spec
-----------------------------------------------------------------------------
(***************************************************************************)
(* Framing.  What is under way, on the socket or still to be written to    *)
(* it, is a sequence of chunks of consecutive cells.                       *)
(***************************************************************************)
Total(s, i) == HeaderLen + s[i].size

\* The cell after x in the stream of the messages s.
NextCell(s, x) ==
  IF x[2] = Total(s, x[1]) THEN <<x[1] + 1, 1>> ELSE <<x[1], x[2] + 1>>

MsgOf(c) == c.cells[1][1]
From(c) == c.cells[1][2]
Upto(c) == From(c) + Len(c.cells) - 1
Stop(s, c) == NextCell(s, <<MsgOf(c), Upto(c)>>)

\* A chunk is consecutive cells of one message, with all of its fds or none.
ChunkOK(s, c) ==
  /\ c \in Chunks /\ Len(c.cells) > 0
  /\ MsgOf(c) \in 1 .. Len(s) /\ From(c) > 0 /\ Upto(c) <= Total(s, MsgOf(c))
  /\ \A j \in 1 .. Len(c.cells) : c.cells[j] = <<MsgOf(c), From(c) + j - 1>>
  /\ c.fds = <<>> \/ c.fds = s[MsgOf(c)].fds

\* Where the k-th chunk begins, and where the next one will, at z.
StartOf(Q, z, k) == IF k <= Len(Q) THEN Q[k].cells[1] ELSE z

\* The chunks follow each other without a gap from the cell e to the cell z,
\* and the fds of a message are on one of its chunks at most.
Chain(s, Q, e, z) ==
  /\ Q \in Seq(Chunks) /\ e \in Nat \X Nat /\ z \in Nat \X Nat
  /\ \A k \in 1 .. Len(Q) : ChunkOK(s, Q[k])
  /\ StartOf(Q, z, 1) = e
  /\ \A k \in 1 .. Len(Q) : Stop(s, Q[k]) = StartOf(Q, z, k + 1)
  /\ \A j, k \in 1 .. Len(Q) + 1 : j <= k => StartOf(Q, z, j)[1] <= StartOf(Q, z, k)[1]
  /\ \A j, k \in 1 .. Len(Q) : j < k /\ MsgOf(Q[j]) = MsgOf(Q[k])
                                => Q[j].fds = <<>> \/ Q[k].fds = <<>>

\* The fds of message i are still to be received.
Awaited(Q, i) == \E k \in 1 .. Len(Q) : MsgOf(Q[k]) = i /\ Q[k].fds # <<>>

Queue == stream \o unsent
Receiving == Len(handled) + 1
Expected ==
  IF buf = <<>> THEN <<Receiving, 1>> ELSE NextCell(sent, <<Receiving, Len(buf)>>)
End == <<Len(sent) + 1, 1>>

SentInv ==
  /\ Len(sent) <= Len(script)
  /\ \A i \in 1 .. Len(sent) : sent[i] = Message(i, script[i])

\* What recv has of the message it is receiving.
BufInv ==
  /\ handled \in Seq(Messages) /\ buf \in Seq(Nat \X Nat)
  /\ \A j \in 1 .. Len(buf) : buf[j] = <<Receiving, j>>
  /\ IF buf = <<>> THEN fds = <<>> /\ pc # "handle"
     ELSE /\ pc \in {"recv", "handle", "exited"}
          /\ Receiving <= Len(sent) /\ Len(buf) <= Total(sent, Receiving)
          /\ pc = "handle" => Len(buf) = Total(sent, Receiving)
          /\ pc = "recv" => Len(buf) < Total(sent, Receiving)

\* The fds received are those of the message being received, from the first
\* on, and none is missing unless the descriptor table was full.
FdsInv ==
  /\ fds # <<>> => /\ ~Awaited(Queue, Receiving)
                   /\ Len(fds) <= Len(sent[Receiving].fds)
                   /\ \A k \in 1 .. Len(fds) : open[fds[k]] = sent[Receiving].fds[k]
  /\ ~lost => \A i \in Receiving .. Len(sent) :
       \/ sent[i].fds = <<>> \/ Awaited(Queue, i)
       \/ i = Receiving /\ Len(fds) = Len(sent[i].fds)

FrameInv ==
  /\ OwnerInv /\ SentInv /\ BufInv /\ FdsInv /\ Framed
  /\ Chain(sent, Queue, Expected, End)

-----------------------------------------------------------------------------

\* The types of what the framing speaks of.
LEMMA FrameTypes ==
  ASSUME FrameInv
  PROVE  /\ script \in Scripts /\ sent \in Seq(Messages) /\ Len(sent) \in Nat
         /\ stream \in Seq(Chunks) /\ unsent \in Seq(Chunks)
         /\ open \in [Fds -> Held] /\ slots \in [Slots -> VringFds]
         /\ fds \in Seq(Fds) /\ Len(fds) \in Nat
         /\ buf \in Seq(Nat \X Nat) /\ Len(buf) \in Nat
         /\ handled \in Seq(Messages) /\ Len(handled) \in Nat
         /\ Receiving \in Nat /\ Receiving > 0 /\ Receiving = Len(handled) + 1
<1>1. /\ script \in Scripts /\ sent \in Seq(Messages)
      /\ stream \in Seq(Chunks) /\ unsent \in Seq(Chunks)
      /\ open \in [Fds -> Held] /\ slots \in [Slots -> VringFds] /\ fds \in Seq(Fds)
      /\ buf \in Seq(Nat \X Nat) /\ handled \in Seq(Messages)
  BY Zenon DEF FrameInv, OwnerInv, WireTypes, FdTypes, BufInv
<1>2. Len(sent) \in Nat /\ Len(fds) \in Nat /\ Len(buf) \in Nat /\ Len(handled) \in Nat
  BY <1>1
<1>3. Receiving \in Nat /\ Receiving > 0 /\ Receiving = Len(handled) + 1
  BY <1>2 DEF Receiving
<1> QED
  BY Zenon, <1>1, <1>2, <1>3

\* The sizes of messages.
LEMMA TotalIs ==
  ASSUME NEW s \in Seq(Messages), NEW i \in 1 .. Len(s)
  PROVE  /\ s[i] \in Messages /\ s[i].size \in Nat /\ s[i].fds \in Seq(Sendable)
         /\ Total(s, i) \in Nat /\ Total(s, i) >= HeaderLen
<1>1. s[i] \in Messages
  BY ElementOfSeq
<1>2. s[i].size \in Nat /\ s[i].fds \in Seq(Sendable)
  BY Zenon, <1>1 DEF Messages
<1>3. HeaderLen \in Nat
  BY ChannelAssumption
<1> QED
  BY <1>1, <1>2, <1>3 DEF Total

\* The numbers of a chunk.
LEMMA ChunkIs ==
  ASSUME NEW s \in Seq(Messages), NEW c, ChunkOK(s, c)
  PROVE  /\ c.cells \in Seq(Nat \X Nat) /\ c.fds \in Seq(Sendable)
         /\ MsgOf(c) \in Nat /\ From(c) \in Nat /\ Upto(c) \in Nat
         /\ Len(c.cells) \in Nat
         /\ c.cells[1] = <<MsgOf(c), From(c)>> /\ c.cells[1] \in Nat \X Nat
         /\ Stop(s, c) \in Nat \X Nat /\ Stop(s, c)[1] >= MsgOf(c)
<1>1. c \in Chunks /\ Len(c.cells) > 0
  BY Zenon DEF ChunkOK
<1>2. c.cells \in Seq(Nat \X Nat) /\ c.fds \in Seq(Sendable)
  BY <1>1 DEF Chunks
<1>3. Len(c.cells) \in Nat /\ c.cells[1] \in Nat \X Nat
  BY <1>1, <1>2, ElementOfSeq
<1>4. MsgOf(c) \in Nat /\ From(c) \in Nat /\ c.cells[1] = <<MsgOf(c), From(c)>>
  BY <1>3 DEF MsgOf, From
<1>5. Upto(c) \in Nat
  BY <1>1, <1>3, <1>4 DEF Upto
<1>6. Stop(s, c) \in Nat \X Nat /\ Stop(s, c)[1] >= MsgOf(c)
  BY <1>4, <1>5 DEF Stop, NextCell
<1> QED
  BY Zenon, <1>2, <1>3, <1>4, <1>5, <1>6

\* A chunk stays what it is when another message is sent.
LEMMA ChunkKept ==
  ASSUME NEW s \in Seq(Messages), NEW m \in Messages, NEW c, ChunkOK(s, c)
  PROVE  ChunkOK(Append(s, m), c) /\ Stop(Append(s, m), c) = Stop(s, c)
<1> DEFINE t == Append(s, m)
<1>1. Len(t) = Len(s) + 1 /\ \A i \in 1 .. Len(s) : t[i] = s[i]
  BY AppendProperties
<1>2. MsgOf(c) \in 1 .. Len(s) /\ MsgOf(c) \in 1 .. Len(t)
  BY <1>1 DEF ChunkOK
<1>3. t[MsgOf(c)] = s[MsgOf(c)]
  BY <1>1, <1>2
<1> HIDE DEF t
<1>4. Total(t, MsgOf(c)) = Total(s, MsgOf(c))
  BY <1>3 DEF Total
<1>5. ChunkOK(t, c)
  BY Zenon, <1>2, <1>3, <1>4 DEF ChunkOK
<1>6. Stop(t, c) = Stop(s, c)
  BY <1>4 DEF Stop, NextCell
<1> QED
  BY <1>5, <1>6 DEF t

\* Sending another message leaves what is under way in order.
LEMMA ChainKept ==
  ASSUME NEW s \in Seq(Messages), NEW m \in Messages, NEW Q, NEW e, NEW z,
         Chain(s, Q, e, z)
  PROVE  Chain(Append(s, m), Q, e, z)
BY Zenon, ChunkKept DEF Chain

\* The types of a chain.
LEMMA ChainIs ==
  ASSUME NEW s, NEW Q, NEW e, NEW z, Chain(s, Q, e, z)
  PROVE  /\ Q \in Seq(Chunks) /\ Len(Q) \in Nat
         /\ e \in Nat \X Nat /\ z \in Nat \X Nat
         /\ \A k \in 1 .. Len(Q) : ChunkOK(s, Q[k])
<1>1. /\ Q \in Seq(Chunks) /\ e \in Nat \X Nat /\ z \in Nat \X Nat
      /\ \A k \in 1 .. Len(Q) : ChunkOK(s, Q[k])
  BY Zenon DEF Chain
<1>2. Len(Q) \in Nat
  BY <1>1
<1> QED
  BY Zenon, <1>1, <1>2

\* Where the chunks of a chain begin.
LEMMA ChainStarts ==
  ASSUME NEW s \in Seq(Messages), NEW Q, NEW e, NEW z, Chain(s, Q, e, z)
  PROVE  /\ \A k \in 1 .. Len(Q) + 1 :
              /\ StartOf(Q, z, k) \in Nat \X Nat
              /\ e[1] <= StartOf(Q, z, k)[1] /\ StartOf(Q, z, k)[1] <= z[1]
         /\ \A k \in 1 .. Len(Q) : StartOf(Q, z, k) = Q[k].cells[1] /\ StartOf(Q, z, k)[1] = MsgOf(Q[k])
         /\ StartOf(Q, z, Len(Q) + 1) = z
<1>1. Q \in Seq(Chunks) /\ Len(Q) \in Nat /\ z \in Nat \X Nat
  BY DEF Chain
<1>2. \A k \in 1 .. Len(Q) : StartOf(Q, z, k) = Q[k].cells[1] /\ StartOf(Q, z, k)[1] = MsgOf(Q[k])
  BY <1>1 DEF StartOf, MsgOf
<1>3. StartOf(Q, z, Len(Q) + 1) = z
  BY <1>1 DEF StartOf
<1>4. \A k \in 1 .. Len(Q) : Q[k].cells[1] \in Nat \X Nat
  BY Zenon, ChunkIs DEF Chain
<1>5. \A k \in 1 .. Len(Q) + 1 : StartOf(Q, z, k) \in Nat \X Nat
  <2>1. \A k \in 1 .. Len(Q) + 1 : k \in 1 .. Len(Q) \/ k = Len(Q) + 1
    BY <1>1
  <2> QED
    BY Zenon, <1>1, <1>2, <1>3, <1>4, <2>1
<1>6. \A k \in 1 .. Len(Q) + 1 :
        StartOf(Q, z, 1)[1] <= StartOf(Q, z, k)[1] /\ StartOf(Q, z, k)[1] <= StartOf(Q, z, Len(Q) + 1)[1]
  <2>1. 1 \in 1 .. Len(Q) + 1 /\ Len(Q) + 1 \in 1 .. Len(Q) + 1
    BY <1>1
  <2> QED
    BY <1>1, <2>1 DEF Chain
<1>7. StartOf(Q, z, 1) = e
  BY Zenon DEF Chain
<1> QED
  BY Zenon, <1>2, <1>3, <1>5, <1>6, <1>7

\* A chunk that begins where a chain ends makes it longer.
LEMMA ChainAppend ==
  ASSUME NEW s \in Seq(Messages), NEW Q, NEW e, NEW z, Chain(s, Q, e, z),
         NEW c, ChunkOK(s, c), c.cells[1] = z,
         \A k \in 1 .. Len(Q) : MsgOf(Q[k]) = MsgOf(c) => Q[k].fds = <<>> \/ c.fds = <<>>
  PROVE  Chain(s, Append(Q, c), e, Stop(s, c))
<1> DEFINE R == Append(Q, c)
           y == Stop(s, c)
           n == Len(Q)
<1>1. Q \in Seq(Chunks) /\ c \in Chunks /\ n \in Nat
  BY Zenon, ChainIs DEF ChunkOK
<1>2. /\ R \in Seq(Chunks) /\ Len(R) = n + 1
      /\ \A k \in 1 .. n : R[k] = Q[k]
      /\ R[n + 1] = c
  BY <1>1, AppendProperties
<1>3. y \in Nat \X Nat /\ z \in Nat \X Nat /\ e \in Nat \X Nat /\ z[1] <= y[1] /\ MsgOf(c) = z[1]
  BY Zenon, ChunkIs DEF Chain, MsgOf
<1> HIDE DEF R, y, n
<1>4. /\ \A k \in 1 .. n + 1 : StartOf(R, y, k) = StartOf(Q, z, k)
      /\ StartOf(R, y, n + 2) = y
  BY <1>1, <1>2 DEF StartOf, n
<1>5. \A k \in 1 .. Len(R) : ChunkOK(s, R[k])
  <2>1. \A k \in 1 .. n : ChunkOK(s, Q[k])
    BY Zenon, ChainIs DEF n
  <2> QED
    BY <1>1, <1>2, <2>1
<1>6. StartOf(R, y, 1) = e
  BY <1>1, <1>4 DEF Chain
<1>7. \A k \in 1 .. Len(R) : Stop(s, R[k]) = StartOf(R, y, k + 1)
  <2> SUFFICES ASSUME NEW k \in 1 .. n + 1 PROVE Stop(s, R[k]) = StartOf(R, y, k + 1)
    BY Zenon, <1>2
  <2>1. CASE k = n + 1
    BY <1>1, <1>2, <1>4, <2>1 DEF y
  <2>2. CASE k \in 1 .. n
    <3>1. k + 1 \in 1 .. n + 1
      BY <1>1, <2>2
    <3>2. Stop(s, Q[k]) = StartOf(Q, z, k + 1)
      BY Zenon, <2>2 DEF Chain, n
    <3> QED
      BY Zenon, <1>2, <1>4, <2>2, <3>1, <3>2
  <2> QED
    BY <1>1, <2>1, <2>2
<1>8. \A j, k \in 1 .. Len(R) + 1 : j <= k => StartOf(R, y, j)[1] <= StartOf(R, y, k)[1]
  <2> SUFFICES ASSUME NEW j \in 1 .. n + 2, NEW k \in 1 .. n + 2, j <= k
               PROVE  StartOf(R, y, j)[1] <= StartOf(R, y, k)[1]
    BY <1>1, <1>2
  <2>1. \A i \in 1 .. n + 1 : StartOf(R, y, i) \in Nat \X Nat /\ StartOf(R, y, i)[1] <= z[1]
    BY <1>4, ChainStarts DEF n
  <2>2. CASE k = n + 2
    <3>1. StartOf(R, y, k) = y /\ y[1] \in Nat /\ z[1] \in Nat /\ z[1] <= y[1]
      BY <1>3, <1>4, <2>2
    <3>2. CASE j = n + 2
      BY <3>1, <2>2, <3>2
    <3>3. CASE j \in 1 .. n + 1
      <4>1. StartOf(R, y, j)[1] \in Nat /\ StartOf(R, y, j)[1] <= z[1]
        BY <2>1, <3>3
      <4> QED
        BY <3>1, <4>1
    <3> QED
      BY <1>1, <3>2, <3>3
  <2>3. CASE k \in 1 .. n + 1
    <3>1. j \in 1 .. n + 1
      BY <1>1, <2>3
    <3>2. \A a, b \in 1 .. n + 1 :
            a <= b => StartOf(Q, z, a)[1] <= StartOf(Q, z, b)[1]
      BY Zenon DEF Chain, n
    <3> QED
      BY <1>4, <2>3, <3>1, <3>2
  <2> QED
    BY <1>1, <2>2, <2>3
<1>9. \A j, k \in 1 .. Len(R) : j < k /\ MsgOf(R[j]) = MsgOf(R[k])
                                => R[j].fds = <<>> \/ R[k].fds = <<>>
  <2> SUFFICES ASSUME NEW j \in 1 .. n + 1, NEW k \in 1 .. n + 1, j < k, MsgOf(R[j]) = MsgOf(R[k])
               PROVE  R[j].fds = <<>> \/ R[k].fds = <<>>
    BY Zenon, <1>2
  <2>1. j \in 1 .. n /\ R[j] = Q[j]
    BY <1>1, <1>2
  <2>2. CASE k = n + 1
    BY Zenon, <1>2, <2>1, <2>2 DEF n
  <2>3. CASE k \in 1 .. n
    BY Zenon, <1>2, <2>1, <2>3 DEF Chain, n
  <2> QED
    BY <1>1, <2>2, <2>3
<1> QED
  BY Zenon, <1>2, <1>3, <1>5, <1>6, <1>7, <1>8, <1>9 DEF Chain, R, y

\* The tail of a sequence.
LEMMA TailIs ==
  ASSUME NEW S, NEW Q \in Seq(S), Q # <<>>
  PROVE  /\ Head(Q) = Q[1] /\ Q[1] \in S /\ Len(Q) \in Nat /\ Len(Q) > 0
         /\ Tail(Q) \in Seq(S) /\ Len(Tail(Q)) = Len(Q) - 1
         /\ \A k \in 1 .. Len(Q) - 1 : k + 1 \in 2 .. Len(Q) /\ Tail(Q)[k] = Q[k + 1]
BY HeadTailProperties

\* Without its first chunk a chain begins where that chunk stopped.
LEMMA ChainTail ==
  ASSUME NEW s \in Seq(Messages), NEW Q, NEW e, NEW z, Chain(s, Q, e, z), Q # <<>>
  PROVE  Chain(s, Tail(Q), Stop(s, Head(Q)), z)
<1> DEFINE R == Tail(Q)
           n == Len(Q)
           y == Stop(s, Head(Q))
<1>1. /\ Q \in Seq(Chunks) /\ Head(Q) = Q[1] /\ n \in Nat /\ n > 0
      /\ R \in Seq(Chunks) /\ Len(R) = n - 1
      /\ \A k \in 1 .. n - 1 : k + 1 \in 2 .. n /\ R[k] = Q[k + 1]
  BY Zenon, TailIs DEF Chain
<1>2. y \in Nat \X Nat /\ z \in Nat \X Nat
  BY <1>1, ChunkIs DEF Chain
<1>3. y = StartOf(Q, z, 2)
  BY <1>1 DEF Chain
<1> HIDE DEF R, n, y
<1>4. \A k \in 1 .. n : StartOf(R, z, k) = StartOf(Q, z, k + 1)
  <2> SUFFICES ASSUME NEW k \in 1 .. n PROVE StartOf(R, z, k) = StartOf(Q, z, k + 1)
    OBVIOUS
  <2>1. CASE k = n
    <3>1. ~(k <= Len(R)) /\ ~(k + 1 <= Len(Q))
      BY <1>1, <2>1 DEF n
    <3> QED
      BY Zenon, <3>1 DEF StartOf
  <2>2. CASE k # n
    <3>1. k \in 1 .. n - 1 /\ k <= Len(R) /\ k + 1 <= Len(Q)
      BY <1>1, <2>2 DEF n
    <3> QED
      BY Zenon, <1>1, <3>1 DEF StartOf
  <2> QED
    BY Zenon, <2>1, <2>2
<1>5. \A k \in 1 .. Len(R) : ChunkOK(s, R[k])
  <2>1. \A k \in 1 .. Len(R) : k + 1 \in 1 .. Len(Q) /\ R[k] = Q[k + 1]
    BY <1>1 DEF n
  <2> QED
    BY Zenon, <2>1 DEF Chain
<1>6. StartOf(R, z, 1) = y
  BY <1>1, <1>3, <1>4
<1>7. \A k \in 1 .. Len(R) : Stop(s, R[k]) = StartOf(R, z, k + 1)
  <2> SUFFICES ASSUME NEW k \in 1 .. n - 1 PROVE Stop(s, R[k]) = StartOf(R, z, k + 1)
    BY <1>1
  <2>1. k + 1 \in 1 .. n /\ R[k] = Q[k + 1]
    BY <1>1
  <2>2. Stop(s, Q[k + 1]) = StartOf(Q, z, k + 1 + 1)
    BY Zenon, <2>1 DEF Chain, n
  <2> QED
    BY <1>4, <2>1, <2>2
<1>8. \A j, k \in 1 .. Len(R) + 1 : j <= k => StartOf(R, z, j)[1] <= StartOf(R, z, k)[1]
  <2> SUFFICES ASSUME NEW j \in 1 .. n, NEW k \in 1 .. n, j <= k
               PROVE  StartOf(R, z, j)[1] <= StartOf(R, z, k)[1]
    BY <1>1
  <2>1. j + 1 \in 1 .. n + 1 /\ k + 1 \in 1 .. n + 1 /\ j + 1 <= k + 1
    BY <1>1
  <2>2. StartOf(Q, z, j + 1)[1] <= StartOf(Q, z, k + 1)[1]
    BY Zenon, <2>1 DEF Chain, n
  <2> QED
    BY <1>4, <2>2
<1>9. \A j, k \in 1 .. Len(R) : j < k /\ MsgOf(R[j]) = MsgOf(R[k])
                                => R[j].fds = <<>> \/ R[k].fds = <<>>
  <2> SUFFICES ASSUME NEW j \in 1 .. n - 1, NEW k \in 1 .. n - 1, j < k, MsgOf(R[j]) = MsgOf(R[k])
               PROVE  R[j].fds = <<>> \/ R[k].fds = <<>>
    BY Zenon, <1>1
  <2>1. j + 1 \in 1 .. n /\ k + 1 \in 1 .. n /\ j + 1 < k + 1 /\ R[j] = Q[j + 1] /\ R[k] = Q[k + 1]
    BY <1>1
  <2> QED
    BY Zenon, <2>1 DEF Chain, n
<1> QED
  BY Zenon, <1>1, <1>2, <1>5, <1>6, <1>7, <1>8, <1>9 DEF Chain, R, y

\* The first chunk may be replaced by the rest of it.
LEMMA ChainCut ==
  ASSUME NEW s \in Seq(Messages), NEW Q, NEW e, NEW z, Chain(s, Q, e, z), Q # <<>>,
         NEW r, ChunkOK(s, r), MsgOf(r) = MsgOf(Head(Q)), Stop(s, r) = Stop(s, Head(Q)),
         r.fds = <<>>
  PROVE  Chain(s, <<r>> \o Tail(Q), r.cells[1], z)
<1> DEFINE R == <<r>> \o Tail(Q)
           n == Len(Q)
           x == r.cells[1]
<1>1. /\ Q \in Seq(Chunks) /\ Head(Q) = Q[1] /\ n \in Nat /\ n > 0
      /\ Tail(Q) \in Seq(Chunks) /\ Len(Tail(Q)) = n - 1
      /\ \A k \in 1 .. n - 1 : Tail(Q)[k] = Q[k + 1]
      /\ r \in Chunks
  BY Zenon, TailIs DEF Chain, ChunkOK
<1>2. /\ R \in Seq(Chunks) /\ Len(R) = n /\ R[1] = r
      /\ \A k \in 2 .. n : R[k] = Q[k]
  <2>1. <<r>> \in Seq(Chunks) /\ Len(<<r>>) = 1 /\ <<r>>[1] = r
    BY <1>1
  <2>2. /\ R \in Seq(Chunks) /\ Len(R) = 1 + (n - 1)
        /\ \A k \in 1 .. 1 + (n - 1) : R[k] = IF k <= 1 THEN <<r>>[k] ELSE Tail(Q)[k - 1]
    BY <1>1, <2>1, ConcatProperties
  <2> HIDE DEF R, n
  <2>3. \A k \in 2 .. n : R[k] = Tail(Q)[k - 1] /\ k - 1 \in 1 .. n - 1 /\ k - 1 + 1 = k
    BY <1>1, <2>2
  <2>4. \A k \in 2 .. n : R[k] = Q[k]
    BY Zenon, <1>1, <2>3
  <2> QED
    BY <1>1, <2>1, <2>2, <2>4
<1>3. x \in Nat \X Nat /\ z \in Nat \X Nat /\ x[1] = MsgOf(Q[1]) /\ x[1] = StartOf(Q, z, 1)[1]
  <2>1. x \in Nat \X Nat /\ z \in Nat \X Nat
    BY Zenon, ChunkIs DEF Chain
  <2>2. x[1] = MsgOf(Q[1]) /\ StartOf(Q, z, 1)[1] = MsgOf(Q[1])
    BY <1>1 DEF MsgOf, StartOf
  <2> QED
    BY Zenon, <2>1, <2>2
<1> HIDE DEF R, n
<1>4. /\ StartOf(R, z, 1) = x
      /\ \A k \in 2 .. n + 1 : StartOf(R, z, k) = StartOf(Q, z, k)
      /\ \A k \in 1 .. n + 1 : StartOf(R, z, k)[1] = StartOf(Q, z, k)[1]
  <2>1. StartOf(R, z, 1) = x
    BY <1>1, <1>2 DEF StartOf
  <2>2. \A k \in 2 .. n + 1 : StartOf(R, z, k) = StartOf(Q, z, k)
    BY <1>1, <1>2 DEF StartOf, n
  <2> QED
    BY <1>1, <1>3, <2>1, <2>2
<1> HIDE DEF x
<1>5. \A k \in 1 .. Len(R) : ChunkOK(s, R[k])
  <2>1. \A k \in 1 .. n : k = 1 \/ k \in 2 .. n
    BY <1>1
  <2> QED
    BY Zenon, <1>1, <1>2, <2>1 DEF Chain, n
<1>7. \A k \in 1 .. Len(R) : Stop(s, R[k]) = StartOf(R, z, k + 1)
  <2> SUFFICES ASSUME NEW k \in 1 .. n PROVE Stop(s, R[k]) = StartOf(R, z, k + 1)
    BY Zenon, <1>2
  <2>1. Stop(s, R[k]) = Stop(s, Q[k])
    BY <1>1, <1>2
  <2>2. Stop(s, Q[k]) = StartOf(Q, z, k + 1) /\ k + 1 \in 2 .. n + 1
    BY <1>1 DEF Chain, n
  <2> QED
    BY Zenon, <1>4, <2>1, <2>2
<1>8. \A j, k \in 1 .. Len(R) + 1 : j <= k => StartOf(R, z, j)[1] <= StartOf(R, z, k)[1]
  BY Zenon, <1>1, <1>2, <1>4 DEF Chain, n
<1>9. \A j, k \in 1 .. Len(R) : j < k /\ MsgOf(R[j]) = MsgOf(R[k])
                                => R[j].fds = <<>> \/ R[k].fds = <<>>
  <2> SUFFICES ASSUME NEW j \in 1 .. n, NEW k \in 1 .. n, j < k, MsgOf(R[j]) = MsgOf(R[k])
               PROVE  R[j].fds = <<>> \/ R[k].fds = <<>>
    BY Zenon, <1>2
  <2>1. CASE j = 1
    BY Zenon, <1>2, <2>1
  <2>2. CASE j > 1
    <3>1. R[j] = Q[j] /\ R[k] = Q[k]
      BY <1>1, <1>2, <2>2
    <3> QED
      BY Zenon, <3>1 DEF Chain, n
  <2> QED
    BY <2>1, <2>2
<1> QED
  BY Zenon, <1>1, <1>2, <1>3, <1>4, <1>5, <1>7, <1>8, <1>9 DEF Chain, R, x

\* The cells from a to b of message i.
Run(cells, i, a, b) ==
  /\ a \in Nat \ {0} /\ b \in Nat /\ a <= b
  /\ cells \in Seq(Nat \X Nat) /\ Len(cells) = b - a + 1
  /\ \A j \in 1 .. Len(cells) : cells[j] = <<i, a + j - 1>>

Part(s, c, i, a, b) ==
  /\ ChunkOK(s, c) /\ MsgOf(c) = i /\ c.cells[1] = <<i, a>>
  /\ Stop(s, c) = NextCell(s, <<i, b>>)

\* A chunk is made of part of a message, with all of its fds or none.
LEMMA ChunkMade ==
  ASSUME NEW s \in Seq(Messages), NEW i \in 1 .. Len(s), NEW a, NEW b, NEW cells,
         Run(cells, i, a, b), b <= Total(s, i),
         NEW objects, objects = <<>> \/ objects = s[i].fds
  PROVE  Part(s, Chunk(cells, objects), i, a, b)
<1> DEFINE c == Chunk(cells, objects)
<1>1. c.cells = cells /\ c.fds = objects
  BY Zenon DEF Chunk
<1>2. objects \in Seq(Sendable)
  <2>1. s[i].fds \in Seq(Sendable) /\ <<>> \in Seq(Sendable)
    BY TotalIs
  <2> QED
    BY Zenon, <2>1
<1>3. c \in Chunks
  BY Zenon, <1>2 DEF Run, Chunk, Chunks
<1> HIDE DEF c
<1>4. cells[1] = <<i, a>>
  <2>1. a \in Nat \ {0} /\ b \in Nat /\ a <= b /\ Len(cells) = b - a + 1
    BY Zenon DEF Run
  <2>2. 1 \in 1 .. Len(cells) /\ a + 1 - 1 = a
    BY ONLY <2>1
  <2> QED
    BY Zenon, <2>2 DEF Run
<1>5. MsgOf(c) = i /\ From(c) = a
  BY <1>1, <1>4 DEF MsgOf, From
<1>6. Upto(c) = b
  <2>1. Upto(c) = a + (b - a + 1) - 1
    BY Zenon, <1>1, <1>5 DEF Upto, Run
  <2>2. a \in Nat /\ b \in Nat
    BY DEF Run
  <2> QED
    BY <2>1, <2>2
<1>7. ChunkOK(s, c)
  <2>1. a \in Nat \ {0} /\ b \in Nat /\ a <= b /\ Len(cells) = b - a + 1
    BY Zenon DEF Run
  <2>2. Len(cells) > 0 /\ a > 0
    BY ONLY <2>1
  <2>3. \A j \in 1 .. Len(cells) : cells[j] = <<i, a + j - 1>>
    BY Zenon DEF Run
  <2> QED
    BY Zenon, <1>1, <1>3, <1>5, <1>6, <2>2, <2>3 DEF ChunkOK
<1> QED
  BY Zenon, <1>1, <1>4, <1>5, <1>6, <1>7 DEF Stop, Part, c

\* What is left of a sequence after its first n elements.
LEMMA RestIs ==
  ASSUME NEW S, NEW s \in Seq(S), NEW n \in Nat, n <= Len(s)
  PROVE  /\ SubSeq(s, n + 1, Len(s)) \in Seq(S)
         /\ Len(SubSeq(s, n + 1, Len(s))) = Len(s) - n
         /\ \A j \in 1 .. Len(s) - n :
              SubSeq(s, n + 1, Len(s))[j] = s[n + j] /\ n + j \in 1 .. Len(s)
<1>1. Len(s) \in Nat /\ n + 1 \in Nat \ {0}
  OBVIOUS
<1>2. SubSeq(s, n + 1, Len(s)) \in Seq(S)
  BY <1>1, SubSeqType
<1> QED
  BY <1>1, <1>2

\* What is left of a chunk when its first n cells are received.
LEMMA ChunkCut ==
  ASSUME NEW s \in Seq(Messages), NEW c, ChunkOK(s, c),
         NEW n \in Nat \ {0}, n < Len(c.cells)
  PROVE  LET r == Chunk(SubSeq(c.cells, n + 1, Len(c.cells)), <<>>)
         IN /\ ChunkOK(s, r) /\ MsgOf(r) = MsgOf(c) /\ Stop(s, r) = Stop(s, c)
            /\ r.cells[1] = <<MsgOf(c), From(c) + n>> /\ r.fds = <<>>
<1>a. /\ c.cells \in Seq(Nat \X Nat) /\ Len(c.cells) \in Nat
      /\ MsgOf(c) \in Nat /\ From(c) \in Nat /\ Upto(c) \in Nat
  BY Zenon, ChunkIs
<1>1. /\ MsgOf(c) \in 1 .. Len(s) /\ From(c) > 0 /\ Upto(c) <= Total(s, MsgOf(c))
      /\ \A j \in 1 .. Len(c.cells) : c.cells[j] = <<MsgOf(c), From(c) + j - 1>>
  BY Zenon DEF ChunkOK
<1> DEFINE rest == SubSeq(c.cells, n + 1, Len(c.cells))
           l == Len(c.cells)
<1>c. MsgOf(c) \in 1 .. Len(s)
  BY Zenon, <1>1
<1>b. Upto(c) = From(c) + l - 1
  BY DEF Upto
<1>d. /\ rest \in Seq(Nat \X Nat) /\ Len(rest) = l - n
      /\ \A j \in 1 .. l - n : rest[j] = c.cells[n + j] /\ n + j \in 1 .. l
  <2>1. n \in Nat /\ n <= Len(c.cells)
    BY <1>a
  <2> QED
    BY Zenon, <1>a, <2>1, RestIs
<1>2. rest \in Seq(Nat \X Nat) /\ Len(rest) = l - n
  BY <1>d
<1>3. \A j \in 1 .. l - n : rest[j] = c.cells[n + j] /\ n + j \in 1 .. l
  BY <1>d
<1> HIDE DEF rest
<1>4. \A j \in 1 .. Len(rest) : rest[j] = <<MsgOf(c), (From(c) + n) + j - 1>>
  <2> SUFFICES ASSUME NEW j \in 1 .. l - n
               PROVE  rest[j] = <<MsgOf(c), (From(c) + n) + j - 1>>
    BY Zenon, <1>2
  <2>1. n + j \in 1 .. l /\ rest[j] = c.cells[n + j]
    BY <1>3
  <2>2. c.cells[n + j] = <<MsgOf(c), From(c) + (n + j) - 1>>
    BY Zenon, <1>1, <2>1
  <2>3. From(c) + (n + j) - 1 = (From(c) + n) + j - 1
    BY <1>a
  <2> QED
    BY Zenon, <2>1, <2>2, <2>3
<1>5. /\ From(c) + n \in Nat \ {0} /\ From(c) + n <= Upto(c)
      /\ Len(rest) = Upto(c) - (From(c) + n) + 1
  <2>1. l \in Nat /\ n < l
    BY <1>a
  <2>2. \A f, u \in Nat : u = f + l - 1
          => f + n \in Nat \ {0} /\ f + n <= u /\ l - n = u - (f + n) + 1
    BY <2>1
  <2> HIDE DEF l
  <2> QED
    BY Zenon, <1>a, <1>b, <1>2, <2>2
<1> DEFINE r == Chunk(rest, <<>>)
           a == From(c) + n
           b == Upto(c)
<1>6. Run(rest, MsgOf(c), a, b) /\ b <= Total(s, MsgOf(c))
  BY Zenon, <1>a, <1>1, <1>2, <1>4, <1>5 DEF Run
<1> HIDE DEF a, b
<1>7. Part(s, r, MsgOf(c), a, b)
  BY ZenonT(30), <1>c, <1>6, ChunkMade
<1> QED
  BY Zenon, <1>7 DEF Part, Stop, Chunk, rest, l, a, b

\* What is awaited when a chunk is added.
LEMMA AwaitedAppend ==
  ASSUME NEW Q \in Seq(Chunks), NEW c \in Chunks, NEW i
  PROVE  Awaited(Append(Q, c), i) <=> Awaited(Q, i) \/ (MsgOf(c) = i /\ c.fds # <<>>)
<1> DEFINE R == Append(Q, c)
           n == Len(Q)
<1>1. /\ n \in Nat /\ Len(R) = n + 1 /\ R[n + 1] = c
      /\ \A k \in 1 .. n : R[k] = Q[k]
  BY AppendProperties
<1> HIDE DEF R
<1>2. Awaited(R, i) <=> \E k \in 1 .. n + 1 : MsgOf(R[k]) = i /\ R[k].fds # <<>>
  BY <1>1 DEF Awaited
<1>3. Awaited(Q, i) <=> \E k \in 1 .. n : MsgOf(R[k]) = i /\ R[k].fds # <<>>
  BY Zenon, <1>1 DEF Awaited
<1> HIDE DEF n
<1>4. \A k : k \in 1 .. n + 1 <=> k \in 1 .. n \/ k = n + 1
  BY <1>1
<1> QED
  BY Zenon, <1>1, <1>2, <1>3, <1>4 DEF R

\* What is awaited when the first chunk has been received, or part of it.
LEMMA AwaitedTail ==
  ASSUME NEW Q \in Seq(Chunks), Q # <<>>, NEW i
  PROVE  Awaited(Q, i) <=> Awaited(Tail(Q), i) \/ (MsgOf(Head(Q)) = i /\ Head(Q).fds # <<>>)
<1> DEFINE R == Tail(Q)
           n == Len(Q)
<1>1. /\ Head(Q) = Q[1] /\ n \in Nat /\ n > 0 /\ Len(R) = n - 1
      /\ \A k \in 1 .. n - 1 : k + 1 \in 2 .. n /\ R[k] = Q[k + 1]
  BY TailIs
<1> HIDE DEF R, n
<1>2. Awaited(Q, i) <=> \E k \in 1 .. n : MsgOf(Q[k]) = i /\ Q[k].fds # <<>>
  BY DEF Awaited, n
<1>3. Awaited(R, i) <=> \E k \in 1 .. n - 1 : MsgOf(R[k]) = i /\ R[k].fds # <<>>
  BY <1>1 DEF Awaited
<1>4. ASSUME Awaited(R, i) PROVE Awaited(Q, i)
  <2>1. PICK k \in 1 .. n - 1 : MsgOf(R[k]) = i /\ R[k].fds # <<>>
    BY Zenon, <1>3, <1>4
  <2>2. k + 1 \in 1 .. n /\ R[k] = Q[k + 1]
    BY <1>1
  <2> QED
    BY Zenon, <1>2, <2>1, <2>2
<1>5. ASSUME Awaited(Q, i), ~(MsgOf(Q[1]) = i /\ Q[1].fds # <<>>) PROVE Awaited(R, i)
  <2>1. PICK k \in 1 .. n : MsgOf(Q[k]) = i /\ Q[k].fds # <<>>
    BY Zenon, <1>2, <1>5
  <2>2. k # 1
    BY Zenon, <1>5, <2>1
  <2>3. k - 1 \in 1 .. n - 1 /\ k - 1 + 1 = k
    BY <1>1, <2>2
  <2>4. R[k - 1] = Q[k]
    BY <1>1, <2>3
  <2> QED
    BY Zenon, <1>3, <2>1, <2>3, <2>4
<1>6. MsgOf(Q[1]) = i /\ Q[1].fds # <<>> => Awaited(Q, i)
  BY <1>1, <1>2
<1> QED
  BY Zenon, <1>1, <1>4, <1>5, <1>6 DEF R

LEMMA AwaitedCut ==
  ASSUME NEW R \in Seq(Chunks), NEW r \in Chunks, r.fds = <<>>, NEW i
  PROVE  Awaited(<<r>> \o R, i) <=> Awaited(R, i)
<1> DEFINE T == <<r>> \o R
<1>1. T \in Seq(Chunks) /\ T # <<>> /\ Head(T) = r /\ Tail(T) = R
  OBVIOUS
<1> HIDE DEF T
<1>2. Awaited(T, i) <=> Awaited(R, i) \/ (MsgOf(r) = i /\ r.fds # <<>>)
  BY Zenon, <1>1, AwaitedTail
<1> QED
  BY <1>2 DEF T

\* The fds of a message are on one chunk, and no message before the first
\* chunk's is awaited.
LEMMA AwaitedOnce ==
  ASSUME NEW s \in Seq(Messages), NEW Q, NEW e, NEW z, Chain(s, Q, e, z)
  PROVE  /\ Q # <<>> /\ Head(Q).fds # <<>> => ~Awaited(Tail(Q), MsgOf(Head(Q)))
         /\ \A i : Awaited(Q, i) => i \in Nat /\ e[1] <= i /\ i <= Len(s)
<1>1. ASSUME Q # <<>>, Head(Q).fds # <<>>, Awaited(Tail(Q), MsgOf(Head(Q))) PROVE FALSE
  <2> DEFINE n == Len(Q)
  <2>1. /\ Head(Q) = Q[1] /\ n \in Nat /\ n > 0 /\ Len(Tail(Q)) = n - 1
        /\ \A k \in 1 .. n - 1 : k + 1 \in 2 .. n /\ Tail(Q)[k] = Q[k + 1]
    BY Zenon, <1>1, TailIs DEF Chain
  <2> HIDE DEF n
  <2>2. PICK k \in 1 .. n - 1 : MsgOf(Tail(Q)[k]) = MsgOf(Head(Q)) /\ Tail(Q)[k].fds # <<>>
    BY Zenon, <1>1, <2>1 DEF Awaited
  <2>3. k + 1 \in 1 .. n /\ 1 \in 1 .. n /\ 1 < k + 1
    BY <2>1
  <2>4. MsgOf(Q[1]) = MsgOf(Q[k + 1]) /\ Q[1].fds # <<>> /\ Q[k + 1].fds # <<>>
    BY Zenon, <1>1, <2>1, <2>2
  <2> QED
    BY Zenon, <2>3, <2>4 DEF Chain, n
<1>2. ASSUME NEW i, Awaited(Q, i) PROVE i \in Nat /\ e[1] <= i /\ i <= Len(s)
  <2>1. PICK k \in 1 .. Len(Q) : MsgOf(Q[k]) = i
    BY Zenon, <1>2 DEF Awaited
  <2>2. ChunkOK(s, Q[k]) /\ Len(Q) \in Nat
    BY DEF Chain
  <2>3. e[1] <= MsgOf(Q[k])
    BY <2>2, ChainStarts
  <2> QED
    BY <2>1, <2>2, <2>3 DEF ChunkOK
<1> QED
  BY Zenon, <1>1, <1>2
-----------------------------------------------------------------------------
\* The cells of a message, and its header and its payload.
LEMMA CellsAre ==
  ASSUME NEW i \in Nat, NEW size \in Nat, NEW cells, cells = Cells(i, size)
  PROVE  /\ Len(cells) = HeaderLen + size
         /\ Run(cells, i, 1, HeaderLen + size)
         /\ Run(SubSeq(cells, 1, HeaderLen), i, 1, HeaderLen)
         /\ size > 0 =>
              Run(SubSeq(cells, HeaderLen + 1, Len(cells)), i, HeaderLen + 1, HeaderLen + size)
<1> DEFINE n == HeaderLen + size
<1>1. HeaderLen \in Nat \ {0} /\ n \in Nat \ {0} /\ HeaderLen <= n
  BY ChannelAssumption
<1>2. cells = [k \in 1 .. n |-> <<i, k>>]
  BY DEF Cells
<1> HIDE DEF n
<1>3. cells \in Seq(Nat \X Nat) /\ Len(cells) = n /\ \A k \in 1 .. n : cells[k] = <<i, k>>
  <2>1. cells \in [1 .. n -> Nat \X Nat]
    BY <1>2
  <2> QED
    BY <1>1, <1>2, <2>1
<1>4. Run(cells, i, 1, n)
  BY <1>1, <1>3 DEF Run
<1>5. Run(SubSeq(cells, 1, HeaderLen), i, 1, HeaderLen)
  <2> DEFINE header == SubSeq(cells, 1, HeaderLen)
  <2>1. /\ header \in Seq(Nat \X Nat) /\ Len(header) = HeaderLen
        /\ \A k \in 1 .. HeaderLen : header[k] = cells[k]
    BY <1>1, <1>3, SubSeqType
  <2> HIDE DEF header
  <2>2. \A k \in 1 .. HeaderLen : header[k] = <<i, 1 + k - 1>>
    <3> TAKE k \in 1 .. HeaderLen
    <3>1. k \in 1 .. n /\ 1 + k - 1 = k
      BY <1>1
    <3> QED
      BY Zenon, <1>3, <2>1, <3>1
  <2>3. Run(header, i, 1, HeaderLen)
    BY <1>1, <2>1, <2>2 DEF Run
  <2> QED
    BY <2>3 DEF header
<1>6. ASSUME size > 0
      PROVE  Run(SubSeq(cells, HeaderLen + 1, Len(cells)), i, HeaderLen + 1, n)
  <2> DEFINE payload == SubSeq(cells, HeaderLen + 1, Len(cells))
  <2>1. /\ payload \in Seq(Nat \X Nat) /\ Len(payload) = size
        /\ \A k \in 1 .. size : payload[k] = cells[HeaderLen + k]
    <3>1. /\ HeaderLen + 1 \in Nat \ {0} /\ Len(cells) \in Nat
          /\ HeaderLen + 1 <= Len(cells) /\ Len(cells) = HeaderLen + size
      BY <1>1, <1>3, <1>6 DEF n
    <3>2. payload \in Seq(Nat \X Nat)
      BY <1>3, <3>1, SubSeqType
    <3>3. Len(payload) = size
      BY <1>1, <3>1
    <3>4. \A k \in 1 .. size : payload[k] = cells[HeaderLen + k]
      BY <1>1, <3>1
    <3> QED
      BY Zenon, <3>2, <3>3, <3>4
  <2> HIDE DEF payload
  <2>2. \A k \in 1 .. size : payload[k] = <<i, HeaderLen + 1 + k - 1>>
    <3> TAKE k \in 1 .. size
    <3>1. HeaderLen + k \in 1 .. n /\ HeaderLen + k = HeaderLen + 1 + k - 1
      BY <1>1 DEF n
    <3> QED
      BY Zenon, <1>3, <2>1, <3>1
  <2>3. HeaderLen + 1 \in Nat \ {0} /\ HeaderLen + 1 <= n /\ n - (HeaderLen + 1) + 1 = size
    BY <1>1, <1>6 DEF n
  <2>4. Run(payload, i, HeaderLen + 1, n)
    BY Zenon, <1>1, <2>1, <2>2, <2>3 DEF Run
  <2> QED
    BY <2>4 DEF payload
<1> QED
  BY Zenon, <1>3, <1>4, <1>5, <1>6 DEF n

\* Message i of t is m, and comes after all that are under way.
Newest(t, m, Q, e, i) ==
  /\ t \in Seq(Messages) /\ i \in Nat \ {0} /\ i \in 1 .. Len(t) /\ t[i] = m
  /\ m.size \in Nat /\ Total(t, i) = HeaderLen + m.size
  /\ Chain(t, Q, e, <<i, 1>>)
  /\ \A k \in 1 .. Len(Q) : MsgOf(Q[k]) # i
  /\ Q \in Seq(Chunks)

\* A message that is added is the newest.
LEMMA NewMessage ==
  ASSUME NEW s \in Seq(Messages), NEW m \in Messages, NEW Q, NEW e, NEW i,
         i = Len(s) + 1, Chain(s, Q, e, <<i, 1>>)
  PROVE  Newest(Append(s, m), m, Q, e, i)
<1> DEFINE t == Append(s, m)
<1>1. t \in Seq(Messages) /\ i \in Nat \ {0} /\ i \in 1 .. Len(t) /\ t[i] = m
  BY AppendProperties
<1>2. m.size \in Nat /\ Total(t, i) = HeaderLen + m.size
  BY Zenon, <1>1 DEF Messages, Total
<1>3. Chain(t, Q, e, <<i, 1>>)
  BY ChainKept
<1>4. \A k \in 1 .. Len(Q) : MsgOf(Q[k]) # i
  BY DEF Chain, ChunkOK
<1> QED
  BY Zenon, <1>1, <1>2, <1>3, <1>4 DEF Chain, Newest

\* The queue R is Q with message i of t, which is m, at its end.
Sends(t, m, Q, R, e, i) ==
  /\ Chain(t, R, e, <<i + 1, 1>>)
  /\ \A j : Awaited(R, j) <=> Awaited(Q, j) \/ (j = i /\ m.fds # <<>>)

\* A message that is sent at once.
LEMMA WholeSent ==
  ASSUME NEW s \in Seq(Messages), NEW m \in Messages, NEW Q, NEW e, NEW i,
         i = Len(s) + 1, Chain(s, Q, e, <<i, 1>>), NEW cells, cells = Cells(i, m.size)
  PROVE  Sends(Append(s, m), m, Q, Append(Q, Chunk(cells, m.fds)), e, i)
<1> DEFINE t == Append(s, m)
           c == Chunk(cells, m.fds)
<1>1. /\ t \in Seq(Messages) /\ i \in Nat \ {0} /\ i \in 1 .. Len(t) /\ t[i] = m
      /\ m.size \in Nat /\ Total(t, i) = HeaderLen + m.size
      /\ Chain(t, Q, e, <<i, 1>>)
      /\ \A k \in 1 .. Len(Q) : MsgOf(Q[k]) # i
      /\ Q \in Seq(Chunks)
  <2>1. Newest(t, m, Q, e, i)
    BY ZenonT(30), NewMessage
  <2> HIDE DEF t
  <2> QED
    BY Zenon, <2>1 DEF Newest
<1> HIDE DEF t
<1>2. Run(cells, i, 1, HeaderLen + m.size)
  BY Zenon, <1>1, CellsAre
<1>3. HeaderLen + m.size <= Total(t, i)
  BY <1>1, ChannelAssumption
<1>4. Part(t, c, i, 1, HeaderLen + m.size)
  <2>1. m.fds = <<>> \/ m.fds = t[i].fds
    BY Zenon, <1>1
  <2> QED
    BY ZenonT(30), <1>1, <1>2, <1>3, <2>1, ChunkMade
<1>5. /\ ChunkOK(t, c) /\ MsgOf(c) = i /\ c.cells[1] = <<i, 1>> /\ c.fds = m.fds
      /\ Stop(t, c) = <<i + 1, 1>> /\ c \in Chunks
  BY Zenon, <1>1, <1>4 DEF Part, NextCell, Chunk, ChunkOK
<1> HIDE DEF c
<1>6. Chain(t, Append(Q, c), e, Stop(t, c))
  BY Zenon, <1>1, <1>5, ChainAppend
<1>7. \A j : Awaited(Append(Q, c), j) <=> Awaited(Q, j) \/ (j = i /\ m.fds # <<>>)
  BY Zenon, <1>1, <1>5, AwaitedAppend
<1> QED
  BY Zenon, <1>5, <1>6, <1>7 DEF t, c, Sends

\* A message whose header and payload are sent apart.
LEMMA SplitSent ==
  ASSUME NEW s \in Seq(Messages), NEW m \in Messages, NEW Q, NEW e, NEW i,
         i = Len(s) + 1, Chain(s, Q, e, <<i, 1>>), m.size > 0,
         NEW f, NEW g, (f = <<>> /\ g = m.fds) \/ (f = m.fds /\ g = <<>>),
         NEW cells, cells = Cells(i, m.size)
  PROVE  Sends(Append(s, m), m, Q,
               Append(Append(Q, Chunk(SubSeq(cells, 1, HeaderLen), f)),
                      Chunk(SubSeq(cells, HeaderLen + 1, Len(cells)), g)), e, i)
<1> DEFINE t == Append(s, m)
           header == SubSeq(cells, 1, HeaderLen)
           payload == SubSeq(cells, HeaderLen + 1, Len(cells))
<1>1. /\ t \in Seq(Messages) /\ i \in Nat \ {0} /\ i \in 1 .. Len(t) /\ t[i] = m
      /\ m.size \in Nat /\ Total(t, i) = HeaderLen + m.size
      /\ Chain(t, Q, e, <<i, 1>>)
      /\ \A k \in 1 .. Len(Q) : MsgOf(Q[k]) # i
      /\ Q \in Seq(Chunks)
  <2>1. Newest(t, m, Q, e, i)
    BY ZenonT(30), NewMessage
  <2> HIDE DEF t
  <2> QED
    BY Zenon, <2>1 DEF Newest
<1> HIDE DEF t
<1>2. /\ Run(header, i, 1, HeaderLen)
      /\ Run(payload, i, HeaderLen + 1, HeaderLen + m.size)
  BY Zenon, <1>1, CellsAre
<1> HIDE DEF header, payload
<1> DEFINE c == Chunk(header, f)
           d == Chunk(payload, g)
<1>4. /\ HeaderLen <= Total(t, i) /\ HeaderLen + m.size <= Total(t, i)
      /\ HeaderLen # Total(t, i) /\ HeaderLen \in Nat
  <2>1. Total(t, i) = HeaderLen + m.size /\ m.size \in Nat /\ m.size > 0
    BY Zenon, <1>1
  <2>2. HeaderLen \in Nat
    BY Zenon, ChannelAssumption
  <2> HIDE DEF t
  <2> QED
    BY ONLY <2>1, <2>2
<1>5. (f = <<>> \/ f = t[i].fds) /\ (g = <<>> \/ g = t[i].fds)
  BY Zenon, <1>1
<1>6. Part(t, Chunk(header, f), i, 1, HeaderLen)
  BY ZenonT(30), <1>1, <1>2, <1>4, <1>5, ChunkMade
<1>7. Part(t, Chunk(payload, g), i, HeaderLen + 1, HeaderLen + m.size)
  BY ZenonT(30), <1>1, <1>2, <1>4, <1>5, ChunkMade
<1>8. /\ ChunkOK(t, c) /\ MsgOf(c) = i /\ c.cells[1] = <<i, 1>> /\ c.fds = f
      /\ Stop(t, c) = <<i, HeaderLen + 1>> /\ c \in Chunks
  BY Zenon, <1>4, <1>6 DEF Part, NextCell, Chunk, ChunkOK
<1>9. /\ ChunkOK(t, d) /\ MsgOf(d) = i /\ d.cells[1] = <<i, HeaderLen + 1>> /\ d.fds = g
      /\ Stop(t, d) = <<i + 1, 1>> /\ d \in Chunks
  BY Zenon, <1>1, <1>7 DEF Part, NextCell, Chunk, ChunkOK
<1> HIDE DEF c, d
<1> DEFINE R == Append(Q, c)
<1>10. Chain(t, R, e, <<i, HeaderLen + 1>>)
  BY Zenon, <1>1, <1>8, ChainAppend
<1>11. /\ R \in Seq(Chunks)
       /\ \A k \in 1 .. Len(R) : MsgOf(R[k]) = i => R[k].fds = f
  BY <1>1, <1>8, AppendProperties
<1>12. \A j : Awaited(R, j) <=> Awaited(Q, j) \/ (j = i /\ f # <<>>)
  BY Zenon, <1>1, <1>8, AwaitedAppend
<1> HIDE DEF R
<1>13. Chain(t, Append(R, d), e, Stop(t, d))
  BY Zenon, <1>1, <1>9, <1>10, <1>11, ChainAppend
<1>14. \A j : Awaited(Append(R, d), j) <=> Awaited(R, j) \/ (j = i /\ g # <<>>)
  BY Zenon, <1>9, <1>11, AwaitedAppend
<1>15. \A j : Awaited(Append(R, d), j) <=> Awaited(Q, j) \/ (j = i /\ m.fds # <<>>)
  BY Zenon, <1>12, <1>14
<1> QED
  BY Zenon, <1>9, <1>13, <1>15 DEF t, c, d, R, header, payload, Sends
-----------------------------------------------------------------------------
\* The front-end's steps leave what the daemon has received alone.
LEMMA SendMessageIs ==
  ASSUME FrameInv, SendMessage
  PROVE  LET i == Len(sent) + 1
             m == Message(i, script[i])
         IN /\ i \in Nat /\ i <= Len(script) /\ m \in Messages /\ sent' = Append(sent, m)
            /\ Sends(sent', m, Queue, Queue', Expected, i)
<1> DEFINE i == Len(sent) + 1
           m == Message(i, script[i])
           cells == Cells(i, m.size)
           header == SubSeq(cells, 1, HeaderLen)
           payload == SubSeq(cells, HeaderLen + 1, Len(cells))
<1>1. /\ sent \in Seq(Messages) /\ stream \in Seq(Chunks)
      /\ script \in Seq([request : STRING, index : Nat, num : Nat])
  BY FrameTypes, ChannelAssumption
<1>2. i \in Nat /\ i <= Len(script) /\ i \in 1 .. Len(script)
  <2>1. Len(sent) < Len(script) /\ Len(sent) \in Nat /\ Len(script) \in Nat
    <3>1. Len(sent) < Len(script)
      BY Zenon DEF SendMessage
    <3> QED
      BY <1>1, <3>1
  <2> QED
    BY <2>1
<1>3. m \in Messages
  <2>1. script[i] \in [request : STRING, index : Nat, num : Nat]
    BY Zenon, <1>1, <1>2, ElementOfSeq
  <2> QED
    BY <1>2, <2>1, MessageType
<1>4. /\ sent' = Append(sent, m) /\ unsent = <<>>
      /\ \/ stream' = Append(stream, Chunk(cells, m.fds)) /\ unsent' = <<>>
         \/ /\ m.size > 0
            /\ stream' = Append(stream, Chunk(header, m.fds)) /\ unsent' = <<Chunk(payload, <<>>)>>
         \/ /\ m.size > 0
            /\ stream' = Append(stream, Chunk(header, <<>>)) /\ unsent' = <<Chunk(payload, m.fds)>>
  BY Zenon DEF SendMessage
<1>5. Queue = stream
  BY Zenon, <1>1, <1>4, ConcatEmptySeq DEF Queue
<1>6. Chain(sent, stream, Expected, <<i, 1>>)
  BY <1>5 DEF FrameInv, End
<1> HIDE DEF m
<1>7. ASSUME stream' = Append(stream, Chunk(cells, m.fds)), unsent' = <<>>
      PROVE  Sends(sent', m, Queue, Queue', Expected, i)
  <2> DEFINE R == Append(stream, Chunk(cells, m.fds))
  <2>1. Sends(Append(sent, m), m, stream, R, Expected, i)
    BY ZenonT(30), <1>1, <1>3, <1>6, WholeSent
  <2> HIDE DEF R
  <2>2. R \in Seq(Chunks)
    BY Zenon, <2>1 DEF Sends, Chain
  <2>3. R \o <<>> = R
    BY <2>2, ConcatEmptySeq
  <2>4. Queue' = R
    <3>1. stream' = R /\ unsent' = <<>>
      BY <1>7 DEF R
    <3> QED
      BY ZenonT(30), <2>3, <3>1 DEF Queue
  <2> QED
    BY Zenon, <1>4, <1>5, <2>1, <2>4
<1>8. ASSUME NEW f, NEW g, m.size > 0, (f = <<>> /\ g = m.fds) \/ (f = m.fds /\ g = <<>>),
             stream' = Append(stream, Chunk(header, f)), unsent' = <<Chunk(payload, g)>>
      PROVE  Sends(sent', m, Queue, Queue', Expected, i)
  <2> DEFINE R == Append(stream, Chunk(header, f))
             d == Chunk(payload, g)
  <2>1. Sends(Append(sent, m), m, stream, Append(R, d), Expected, i)
    BY ZenonT(30), <1>1, <1>3, <1>6, <1>8, SplitSent
  <2>2. Queue' = R \o <<d>>
    BY Zenon, <1>8 DEF Queue
  <2> HIDE DEF R, d
  <2>3. Append(R, d) = R \o <<d>>
    OBVIOUS
  <2> QED
    BY Zenon, <1>4, <1>5, <2>1, <2>2, <2>3
<1> HIDE DEF cells, header, payload
<1>9. Sends(sent', m, Queue, Queue', Expected, i)
  BY ZenonT(30), <1>4, <1>7, <1>8
<1> QED
  BY Zenon, <1>2, <1>3, <1>4, <1>9 DEF m

\* A message is sent.
LEMMA SendFrame == FrameInv /\ SendMessage => FrameInv'
<1> SUFFICES ASSUME FrameInv, SendMessage PROVE FrameInv'
  OBVIOUS
<1> DEFINE i == Len(sent) + 1
           m == Message(i, script[i])
<1>1. /\ i \in Nat /\ i <= Len(script) /\ m \in Messages /\ sent' = Append(sent, m)
      /\ Chain(sent', Queue', Expected, <<i + 1, 1>>)
      /\ \A j : Awaited(Queue', j) <=> Awaited(Queue, j) \/ (j = i /\ m.fds # <<>>)
  BY Zenon, SendMessageIs DEF Sends
<1>2. /\ UNCHANGED <<script, open, files, slots, pc, buf, fds, handled, lost>>
      /\ sent \in Seq(Messages) /\ Len(handled) \in Nat /\ Receiving \in Nat /\ Receiving' = Receiving
  BY Zenon, FrameTypes DEF SendMessage, serverVars, Receiving
<1>3. m = Message(i, script[i])
  OBVIOUS
<1> HIDE DEF m
<1>4. /\ Len(sent') = i /\ sent'[i] = m /\ \A j \in 1 .. Len(sent) : sent'[j] = sent[j]
      /\ Len(sent) \in Nat
  <2>1. /\ sent \in Seq(Messages) /\ m \in Messages /\ sent' = Append(sent, m)
        /\ i = Len(sent) + 1
    BY Zenon, <1>1, <1>2
  <2> HIDE DEF i
  <2> QED
    BY <2>1, AppendProperties
<1>5. OwnerInv'
  <2>1. OwnerInv /\ [Next]_vars
    BY DEF FrameInv, Next, FrontEnd
  <2> QED
    BY <2>1, OwnerStep
<1>6. SentInv'
  BY <1>1, <1>2, <1>3, <1>4 DEF FrameInv, SentInv
<1>7. buf # <<>> => /\ Receiving \in 1 .. Len(sent) /\ Receiving \in 1 .. Len(sent')
                    /\ Total(sent', Receiving) = Total(sent, Receiving)
  <2> SUFFICES ASSUME buf # <<>>
               PROVE  /\ Receiving \in 1 .. Len(sent) /\ Receiving \in 1 .. Len(sent')
                      /\ sent'[Receiving] = sent[Receiving]
    BY Zenon DEF Total
  <2>1. Receiving <= Len(sent) /\ Receiving \in Nat /\ Receiving > 0
    BY Zenon, FrameTypes DEF FrameInv, BufInv
  <2> QED
    BY <1>2, <1>4, <2>1
<1>8. BufInv'
  BY <1>2, <1>4, <1>7 DEF FrameInv, BufInv, Receiving
<1>9. Chain(sent', Queue', Expected', End')
  <2>1. Expected' = Expected
    BY Zenon, <1>2, <1>7 DEF Expected, NextCell, Receiving
  <2>2. End' = <<i + 1, 1>>
    BY <1>4 DEF End
  <2> QED
    BY Zenon, <1>1, <2>1, <2>2
<1>10. FdsInv'
  <2>1. ASSUME fds # <<>>
        PROVE  /\ ~Awaited(Queue', Receiving)
               /\ Len(fds) <= Len(sent'[Receiving].fds)
               /\ \A k \in 1 .. Len(fds) : open[fds[k]] = sent'[Receiving].fds[k]
    <3>1. buf # <<>>
      BY <2>1 DEF FrameInv, BufInv
    <3>2. Receiving \in 1 .. Len(sent) /\ sent'[Receiving] = sent[Receiving] /\ Receiving # i
      BY <1>4, <1>7, <3>1
    <3> QED
      BY <1>1, <2>1, <3>2 DEF FrameInv, FdsInv
  <2>2. ASSUME ~lost, NEW j \in Receiving .. Len(sent')
        PROVE  \/ sent'[j].fds = <<>> \/ Awaited(Queue', j)
               \/ j = Receiving /\ Len(fds) = Len(sent'[j].fds)
    <3>1. CASE j = i
      BY Zenon, <1>1, <1>4, <3>1
    <3>2. CASE j # i
      <4>1. j \in Receiving .. Len(sent) /\ sent'[j] = sent[j]
        BY <1>2, <1>4, <3>2 DEF Receiving
      <4> QED
        BY Zenon, <1>1, <2>2, <4>1 DEF FrameInv, FdsInv
    <3> QED
      BY <3>1, <3>2
  <2> QED
    BY Zenon, <1>2, <2>1, <2>2 DEF FdsInv
<1>11. Framed'
  <2>1. Len(handled) <= Len(sent) /\ DOMAIN handled = 1 .. Len(handled) /\ Len(handled) \in Nat
    BY DEF FrameInv, Framed, BufInv
  <2>2. \A j \in DOMAIN handled : sent'[j] = sent[j]
    BY <1>4, <2>1
  <2> QED
    BY <1>2, <1>4, <2>1, <2>2 DEF FrameInv, Framed
<1> QED
  BY <1>5, <1>6, <1>8, <1>9, <1>10, <1>11 DEF FrameInv

\* The first n cells of message i.
Filled(b, i, n) ==
  b \in Seq(Nat \X Nat) /\ Len(b) = n /\ \A j \in 1 .. Len(b) : b[j] = <<i, j>>

\* Cells that follow those received are received.
LEMMA Received ==
  ASSUME NEW b, NEW i \in Nat, NEW n, Filled(b, i, n),
         NEW cells \in Seq(Nat \X Nat),
         \A j \in 1 .. Len(cells) : cells[j] = <<i, n + 1 + j - 1>>,
         NEW k \in 1 .. Len(cells)
  PROVE  Filled(b \o SubSeq(cells, 1, k), i, n + k)
<1>a. b \in Seq(Nat \X Nat) /\ n = Len(b) /\ \A j \in 1 .. Len(b) : b[j] = <<i, j>>
  BY DEF Filled
<1> DEFINE t == b \o SubSeq(cells, 1, k)
<1> DEFINE u == SubSeq(cells, 1, k)
<1>1. k \in Nat /\ k >= 1 /\ k <= Len(cells) /\ Len(b) \in Nat
  BY <1>a
<1>2. u \in Seq(Nat \X Nat)
  BY <1>1, SubSeqType
<1>3. Len(u) = k /\ \A j \in 1 .. k : u[j] = cells[j]
  BY <1>1
<1>4. t = b \o u
  OBVIOUS
<1> HIDE DEF u, t
<1>5. /\ t \in Seq(Nat \X Nat) /\ Len(t) = Len(b) + k
      /\ \A j \in 1 .. Len(b) + k : t[j] = IF j <= Len(b) THEN b[j] ELSE u[j - Len(b)]
  <2>1. /\ b \o u \in Seq(Nat \X Nat) /\ Len(b \o u) = Len(b) + Len(u)
        /\ \A j \in 1 .. Len(b) + Len(u) :
             (b \o u)[j] = IF j <= Len(b) THEN b[j] ELSE u[j - Len(b)]
    BY Zenon, <1>a, <1>2, ConcatProperties
  <2> QED
    BY Zenon, <1>3, <1>4, <2>1
<1>6. ASSUME NEW j \in 1 .. Len(b) + k PROVE t[j] = <<i, j>>
  <2>1. CASE j <= Len(b)
    <3>1. j \in 1 .. Len(b)
      BY <1>1, <2>1
    <3>2. t[j] = b[j]
      BY Zenon, <1>5, <2>1
    <3> QED
      BY Zenon, <1>a, <3>1, <3>2
  <2>2. CASE j > Len(b)
    <3>1. j - Len(b) \in 1 .. k /\ j - Len(b) \in 1 .. Len(cells) /\ Len(b) + 1 + (j - Len(b)) - 1 = j
      <4>1. Len(cells) \in Nat
        BY LenProperties
      <4> QED
        BY ONLY <1>1, <2>2, <4>1, j \in 1 .. Len(b) + k
    <3>a. ~(j <= Len(b))
      BY <1>1, <2>2
    <3>2. t[j] = u[j - Len(b)]
      BY Zenon, <1>5, <3>a
    <3>3. t[j] = cells[j - Len(b)]
      BY Zenon, <1>3, <3>1, <3>2
    <3> QED
      BY Zenon, <1>a, <3>1, <3>3
  <2>3. j <= Len(b) \/ j > Len(b)
    BY ONLY <1>1, j \in 1 .. Len(b) + k
  <2> QED
    BY Zenon, <2>1, <2>2, <2>3
<1>7. Filled(t, i, n + k)
  BY Zenon, <1>a, <1>5, <1>6 DEF Filled
<1> QED
  BY <1>7 DEF t

\* recv goes on until the message is complete.
LEMMA AfterIs ==
  ASSUME sent \in Seq(Messages), NEW i \in 1 .. Len(sent),
         NEW b \in Seq(Nat \X Nat), Len(b) > 0, b[1] = <<i, 1>>, Len(b) <= Total(sent, i)
  PROVE  /\ After(b) \in {"recv", "handle", "exited"}
         /\ After(b) = "handle" => Len(b) = Total(sent, i)
         /\ After(b) = "recv" => Len(b) < Total(sent, i)
<1>1. Decoded(b) = sent[i]
  BY DEF Decoded
<1>2. /\ Total(sent, i) \in Nat /\ Total(sent, i) = HeaderLen + sent[i].size
      /\ HeaderLen \in Nat /\ Len(b) \in Nat /\ HeaderLen <= Total(sent, i)
  <2>1. Total(sent, i) \in Nat /\ Total(sent, i) >= HeaderLen
    BY Zenon, TotalIs
  <2>2. Total(sent, i) = HeaderLen + sent[i].size
    BY Zenon DEF Total
  <2> QED
    BY <2>1, <2>2, ChannelAssumption
<1>3. Len(b) < HeaderLen => Wanted(b) = HeaderLen - Len(b)
  BY Zenon DEF Wanted
<1>4. ~(Len(b) < HeaderLen) => Wanted(b) = Total(sent, i) - Len(b)
  <2>1. HeaderLen + Decoded(b).size = Total(sent, i)
    BY <1>1, Zenon DEF Total
  <2>2. ~(Len(b) < HeaderLen) => Wanted(b) = HeaderLen + Decoded(b).size - Len(b)
    BY Zenon DEF Wanted
  <2>3. Decoded(b).size \in Nat
    BY Zenon, <1>1, TotalIs
  <2>4. HeaderLen + Decoded(b).size - Len(b) = (HeaderLen + Decoded(b).size) - Len(b)
    BY ONLY <1>2, <2>3
  <2> QED
    BY Zenon, <2>1, <2>2, <2>4
<1>5. Decoded(b).size \in Nat /\ MaxPayload \in Nat
  BY Zenon, <1>1, TotalIs, ChannelAssumption
<1> DEFINE A == Len(b) < HeaderLen
           B == Len(b) = HeaderLen /\ Decoded(b).size > MaxPayload
           C == Wanted(b) = 0
<1>6. After(b) = CASE A -> "recv" [] B -> "exited" [] C -> "handle" [] OTHER -> "recv"
  BY Zenon DEF After
<1>7. ~(A /\ B) /\ ~(A /\ C) /\ ~(B /\ C)
  <2>1. ~(A /\ B)
    BY <1>2
  <2>2. ~(A /\ C)
    BY <1>2, <1>3
  <2>3. ~(B /\ C)
    <3> SUFFICES ASSUME B, C PROVE FALSE
      BY Zenon
    <3>1. Total(sent, i) = HeaderLen + Decoded(b).size /\ Decoded(b).size > 0
      <4>1. Total(sent, i) = HeaderLen + Decoded(b).size
        BY Zenon, <1>1, <1>2
      <4>2. Decoded(b).size > MaxPayload
        BY Zenon
      <4> QED
        BY ONLY <1>5, <4>1, <4>2
    <3>2. Len(b) = HeaderLen /\ Wanted(b) = 0
      BY Zenon
    <3>3. Wanted(b) = Total(sent, i) - Len(b)
      BY ONLY <1>2, <1>4, <3>2
    <3> QED
      BY ONLY <1>2, <1>5, <3>1, <3>2, <3>3
  <2> QED
    BY Zenon, <2>1, <2>2, <2>3
<1>8. A => Len(b) < Total(sent, i)
  BY ONLY <1>2
<1>9. ~A => (C <=> Len(b) = Total(sent, i))
  BY ONLY <1>2, <1>4
<1> HIDE DEF A, B, C
<1>10. /\ A => After(b) = "recv"
       /\ B => After(b) = "exited"
       /\ C => After(b) = "handle"
       /\ ~A /\ ~B /\ ~C => After(b) = "recv"
  BY <1>6, <1>7
<1>11. ~A /\ ~C => Len(b) < Total(sent, i)
  <2>1. Len(b) # Total(sent, i) => Len(b) < Total(sent, i)
    BY ONLY <1>2, Len(b) <= Total(sent, i)
  <2> QED
    BY Zenon, <1>9, <2>1
<1> QED
  BY Zenon, <1>7, <1>8, <1>9, <1>10, <1>11

\* The queue and its first sendmsg.
LEMMA QueueIs ==
  ASSUME stream \in Seq(Chunks), unsent \in Seq(Chunks), stream # <<>>
  PROVE  /\ Queue \in Seq(Chunks) /\ Queue # <<>> /\ Head(Queue) = Head(stream)
         /\ Tail(Queue) = Tail(stream) \o unsent
<1>1. Queue \in Seq(Chunks)
  BY ConcatProperties DEF Queue
<1>2. Len(stream) \in Nat /\ Len(stream) > 0 /\ Len(unsent) \in Nat
  BY EmptySeq
<1>3. /\ Len(Queue) = Len(stream) + Len(unsent)
      /\ \A k \in 1 .. Len(stream) + Len(unsent) :
           Queue[k] = IF k <= Len(stream) THEN stream[k] ELSE unsent[k - Len(stream)]
  BY ConcatProperties DEF Queue
<1>4. Queue # <<>>
  BY <1>2, <1>3, EmptySeq
<1> DEFINE T == Tail(stream) \o unsent
<1>5. /\ Head(stream) = stream[1] /\ Tail(stream) \in Seq(Chunks)
      /\ Len(Tail(stream)) = Len(stream) - 1
      /\ \A k \in 1 .. Len(stream) - 1 : Tail(stream)[k] = stream[k + 1]
  BY TailIs
<1>6. /\ T \in Seq(Chunks) /\ Len(T) = Len(stream) - 1 + Len(unsent)
      /\ \A k \in 1 .. Len(stream) - 1 + Len(unsent) :
           T[k] = IF k <= Len(stream) - 1 THEN Tail(stream)[k] ELSE unsent[k - (Len(stream) - 1)]
  BY <1>5, ConcatProperties
<1> HIDE DEF T
<1>7. /\ Head(Queue) = Queue[1] /\ Tail(Queue) \in Seq(Chunks)
      /\ Len(Tail(Queue)) = Len(Queue) - 1
      /\ \A k \in 1 .. Len(Queue) - 1 : Tail(Queue)[k] = Queue[k + 1]
  BY <1>1, <1>4, TailIs
<1>8. Head(Queue) = Head(stream)
  BY <1>2, <1>3, <1>5, <1>7
<1>9. ASSUME NEW k \in 1 .. Len(T) PROVE Tail(Queue)[k] = T[k]
  <2>1. /\ k \in 1 .. Len(Queue) - 1 /\ k + 1 \in 1 .. Len(stream) + Len(unsent)
        /\ k \in 1 .. Len(stream) - 1 + Len(unsent)
        /\ (k + 1) - Len(stream) = k - (Len(stream) - 1)
    BY <1>2, <1>3, <1>6
  <2>2. CASE k <= Len(stream) - 1
    BY <1>2, <1>3, <1>5, <1>6, <1>7, <2>1, <2>2
  <2>3. CASE ~(k <= Len(stream) - 1)
    <3>1. T[k] = unsent[k - (Len(stream) - 1)]
      BY Zenon, <1>6, <2>1, <2>3
    <3>2. ~(k + 1 <= Len(stream))
      <4>1. k \in Nat
        BY <1>2, <1>6
      <4> QED
        BY <1>2, <2>3, <4>1
    <3>3. Queue[k + 1] = unsent[(k + 1) - Len(stream)]
      BY Zenon, <1>3, <2>1, <3>2
    <3> QED
      BY Zenon, <1>7, <2>1, <3>1, <3>3
  <2> QED
    BY Zenon, <2>2, <2>3
<1>10. Tail(Queue) = T
  <2>1. Len(Tail(Queue)) = Len(T)
    BY <1>2, <1>3, <1>6, <1>7
  <2>2. \A k \in 1 .. Len(Tail(Queue)) : Tail(Queue)[k] = T[k]
    BY Zenon, <1>9, <2>1
  <2> QED
    BY Zenon, <1>6, <1>7, <2>1, <2>2, SeqEqual
<1> QED
  BY <1>1, <1>4, <1>8, <1>10 DEF T

\* What recv makes of the first chunk under way.
Takes(c) ==
  /\ Receiving \in 1 .. Len(sent) /\ MsgOf(c) = Receiving /\ ChunkOK(sent, c)
  /\ Queue # <<>> /\ Head(Queue) = c
  /\ BufInv' /\ buf' # <<>> /\ Chain(sent, Queue', Expected', End)
  /\ \A i : Awaited(Queue', i) <=> Awaited(Tail(Queue), i)

\* What is received continues what was, and what is left continues that.
LEMMA RecvTakes ==
  ASSUME FrameInv, Recv
  PROVE  Takes(Head(stream))
<1> DEFINE chunk == Head(stream)
<1>1. /\ sent \in Seq(Messages) /\ stream \in Seq(Chunks) /\ unsent \in Seq(Chunks)
      /\ handled \in Seq(Messages) /\ buf \in Seq(Nat \X Nat)
      /\ Len(handled) \in Nat /\ Receiving \in Nat /\ Receiving > 0 /\ Len(buf) \in Nat
      /\ pc = "recv" /\ stream # <<>>
  BY Zenon, FrameTypes DEF Recv
<1>2. /\ Queue \in Seq(Chunks) /\ Queue # <<>> /\ Head(Queue) = chunk
      /\ Tail(Queue) = Tail(stream) \o unsent
  BY Zenon, <1>1, QueueIs
<1>3. PICK k \in 1 .. Len(chunk.cells) :
        /\ buf' = buf \o SubSeq(chunk.cells, 1, k)
        /\ pc' = After(buf \o SubSeq(chunk.cells, 1, k))
        /\ stream' = IF k = Len(chunk.cells) THEN Tail(stream)
                     ELSE <<Chunk(SubSeq(chunk.cells, k + 1, Len(chunk.cells)), <<>>)>>
                            \o Tail(stream)
  BY Zenon DEF Recv
<1>4. UNCHANGED <<sent, unsent, handled>> /\ Receiving' = Receiving
  BY DEF Recv, frontVars, Receiving
<1>5. ChunkOK(sent, chunk) /\ chunk.cells[1] = Expected
  <2>1. 1 \in 1 .. Len(Queue) /\ Queue[1] = chunk /\ 1 <= Len(Queue)
    BY <1>2, TailIs
  <2>2. StartOf(Queue, End, 1) = chunk.cells[1]
    BY Zenon, <2>1 DEF StartOf
  <2> QED
    BY Zenon, <2>1, <2>2 DEF FrameInv, Chain
<1> HIDE DEF chunk
<1>6. Expected = <<Receiving, Len(buf) + 1>>
  <2>1. CASE buf = <<>>
    BY <2>1 DEF Expected
  <2>2. CASE buf # <<>>
    <3>1. Len(buf) < Total(sent, Receiving) /\ Receiving \in 1 .. Len(sent)
      BY <1>1, <2>2 DEF FrameInv, BufInv
    <3>2. Total(sent, Receiving) \in Nat
      BY Zenon, <1>1, <3>1, TotalIs
    <3>3. Len(buf) # Total(sent, Receiving)
      BY <1>1, <3>1, <3>2
    <3>4. Expected = NextCell(sent, <<Receiving, Len(buf)>>)
      BY Zenon, <2>2 DEF Expected
    <3> QED
      BY ONLY <3>3, <3>4 DEF NextCell
  <2> QED
    BY <2>1, <2>2
<1>7. /\ MsgOf(chunk) = Receiving /\ From(chunk) = Len(buf) + 1
      /\ Receiving \in 1 .. Len(sent)
      /\ Len(buf) + Len(chunk.cells) <= Total(sent, Receiving)
      /\ Upto(chunk) = Len(buf) + Len(chunk.cells)
      /\ chunk.cells \in Seq(Nat \X Nat) /\ Len(chunk.cells) \in Nat
      /\ \A j \in 1 .. Len(chunk.cells) : chunk.cells[j] = <<Receiving, Len(buf) + 1 + j - 1>>
  <2>1. MsgOf(chunk) = Receiving /\ From(chunk) = Len(buf) + 1
    BY <1>5, <1>6 DEF MsgOf, From
  <2>2. chunk.cells \in Seq(Nat \X Nat) /\ Len(chunk.cells) \in Nat
    BY Zenon, <1>1, <1>5, ChunkIs
  <2>3. Upto(chunk) = Len(buf) + Len(chunk.cells)
    <3>1. Upto(chunk) = (Len(buf) + 1) + Len(chunk.cells) - 1
      BY <2>1 DEF Upto
    <3>2. Len(buf) \in Nat
      BY <1>1
    <3>3. \A a, c \in Nat : (a + 1) + c - 1 = a + c
      OBVIOUS
    <3> QED
      BY <2>2, <3>1, <3>2, <3>3, Zenon
  <2> QED
    BY Zenon, <1>5, <2>1, <2>2, <2>3 DEF ChunkOK
<1>8. Total(sent, Receiving) \in Nat
  BY Zenon, <1>1, <1>7, TotalIs
<1>9. k \in Nat /\ k >= 1 /\ k <= Len(chunk.cells)
  BY <1>7
<1>10. /\ buf' \in Seq(Nat \X Nat) /\ Len(buf') = Len(buf) + k
       /\ \A j \in 1 .. Len(buf') : buf'[j] = <<Receiving, j>>
  <2>1. Filled(buf, Receiving, Len(buf))
    BY Zenon DEF FrameInv, BufInv, Filled
  <2>2. Filled(buf \o SubSeq(chunk.cells, 1, k), Receiving, Len(buf) + k)
    BY Zenon, <1>1, <1>7, <2>1, Received
  <2> QED
    BY Zenon, <1>3, <2>2 DEF Filled
<1>11. /\ Len(buf') \in Nat /\ Len(buf') > 0 /\ Len(buf') <= Total(sent, Receiving)
       /\ buf'[1] = <<Receiving, 1>> /\ buf' # <<>>
  <2>1. Len(buf') \in Nat /\ Len(buf') > 0 /\ Len(buf') <= Total(sent, Receiving)
    <3>1. Len(buf) \in Nat /\ Len(chunk.cells) \in Nat
      BY Zenon, <1>1, <1>7
    <3>2. Len(buf') = Len(buf) + k /\ Len(buf) + Len(chunk.cells) <= Total(sent, Receiving)
      BY Zenon, <1>7, <1>10
    <3>3. k \in 1 .. Len(chunk.cells) /\ Total(sent, Receiving) \in Nat
      BY Zenon, <1>8, <1>9
    <3> QED
      BY ONLY <3>1, <3>2, <3>3
  <2>2. buf' # <<>>
    BY <1>10, <2>1, EmptySeq
  <2> QED
    BY <1>10, <2>1, <2>2
<1>12. /\ pc' \in {"recv", "handle", "exited"}
       /\ pc' = "handle" => Len(buf') = Total(sent, Receiving)
       /\ pc' = "recv" => Len(buf') < Total(sent, Receiving)
  <2>1. pc' = After(buf')
    BY <1>3
  <2> QED
    BY Zenon, <1>1, <1>7, <1>10, <1>11, <2>1, AfterIs
<1>13. BufInv'
  <2>1. Total(sent', Receiving') = Total(sent, Receiving)
    BY <1>4 DEF Total
  <2>2. handled' \in Seq(Messages) /\ Receiving' <= Len(sent')
    BY <1>1, <1>4, <1>7
  <2> QED
    BY Zenon, <1>4, <1>10, <1>11, <1>12, <2>1, <2>2 DEF BufInv
<1>14. Expected' = NextCell(sent, <<Receiving, Len(buf) + k>>)
  BY Zenon, <1>4, <1>10, <1>11 DEF Expected, NextCell, Total
<1>15. ASSUME k = Len(chunk.cells)
       PROVE  /\ Chain(sent, Queue', Expected', End)
              /\ \A i : Awaited(Queue', i) <=> Awaited(Tail(Queue), i)
  <2>1. Queue' = Tail(Queue)
    BY Zenon, <1>2, <1>3, <1>4, <1>15 DEF Queue
  <2>2. Expected' = Stop(sent, chunk)
    BY Zenon, <1>7, <1>14, <1>15 DEF Stop
  <2>3. Chain(sent, Tail(Queue), Stop(sent, Head(Queue)), End)
    BY <1>1, <1>2, ChainTail DEF FrameInv
  <2> QED
    BY <1>2, <2>1, <2>2, <2>3
<1>16. ASSUME k # Len(chunk.cells)
       PROVE  /\ Chain(sent, Queue', Expected', End)
              /\ \A i : Awaited(Queue', i) <=> Awaited(Tail(Queue), i)
  <2> DEFINE r == Chunk(SubSeq(chunk.cells, k + 1, Len(chunk.cells)), <<>>)
  <2>1. k \in Nat \ {0} /\ k < Len(chunk.cells)
    <3>1. Len(chunk.cells) \in Nat
      BY Zenon, <1>7
    <3> QED
      BY <1>9, <1>16, <3>1
  <2>2. /\ ChunkOK(sent, r) /\ MsgOf(r) = MsgOf(chunk) /\ Stop(sent, r) = Stop(sent, chunk)
        /\ r.cells[1] = <<MsgOf(chunk), From(chunk) + k>> /\ r.fds = <<>>
    BY Zenon, <1>1, <1>5, <2>1, ChunkCut
  <2>3. stream' = <<r>> \o Tail(stream)
    BY <1>3, <1>16
  <2> HIDE DEF r
  <2>4. r \in Chunks /\ <<r>> \in Seq(Chunks) /\ Tail(stream) \in Seq(Chunks)
    <3>1. r \in Chunks
      BY Zenon, <2>2 DEF ChunkOK
    <3>2. Tail(stream) \in Seq(Chunks)
      BY <1>1, TailIs
    <3> QED
      BY <3>1, <3>2
  <2>5. Queue' = <<r>> \o Tail(Queue)
    <3>1. Queue' = (<<r>> \o Tail(stream)) \o unsent
      BY <1>4, <2>3 DEF Queue
    <3>2. (<<r>> \o Tail(stream)) \o unsent = <<r>> \o (Tail(stream) \o unsent)
      BY <1>1, <2>4, ConcatAssociative
    <3> QED
      BY Zenon, <1>2, <3>1, <3>2
  <2>6. Chain(sent, <<r>> \o Tail(Queue), r.cells[1], End)
    BY Zenon, <1>1, <1>2, <2>2, ChainCut DEF FrameInv
  <2>7. Expected' = r.cells[1]
    <3>1. Len(buf) + k # Total(sent, Receiving) /\ From(chunk) + k = Len(buf) + k + 1
      <4>1. /\ From(chunk) = Len(buf) + 1 /\ Len(buf) \in Nat /\ Len(chunk.cells) \in Nat
            /\ Len(buf) + Len(chunk.cells) <= Total(sent, Receiving)
        BY Zenon, <1>1, <1>7
      <4> QED
        BY <1>8, <2>1, <4>1
    <3> QED
      BY Zenon, <1>7, <1>14, <2>2, <3>1 DEF NextCell
  <2>8. Tail(Queue) \in Seq(Chunks)
    BY <1>2, TailIs
  <2>9. \A i : Awaited(<<r>> \o Tail(Queue), i) <=> Awaited(Tail(Queue), i)
    BY Zenon, <2>2, <2>4, <2>8, AwaitedCut
  <2> QED
    BY Zenon, <2>5, <2>6, <2>7, <2>9
<1>17. Takes(chunk)
  BY Zenon, <1>2, <1>5, <1>7, <1>11, <1>13, <1>15, <1>16 DEF Takes
<1> QED
  BY <1>17 DEF chunk

\* The k-th number refers to the k-th object that arrives.
LEMMA InstalledObjects ==
  ASSUME open \in [Fds -> Held], NEW len \in Nat, NEW nums \in [1 .. len -> Free],
         NEW objects \in Seq(Sendable), len <= Len(objects), Lowest(nums)
  PROVE  \A k \in 1 .. len : Installed(nums, objects)[nums[k]] = objects[k]
<1> TAKE k \in 1 .. len
<1> DEFINE at == CHOOSE j \in 1 .. len : nums[j] = nums[k]
<1>1. at \in 1 .. len /\ nums[at] = nums[k]
  OBVIOUS
<1>2. nums[k] \in Fds
  BY DEF Free
<1>3. Installed(nums, objects)[nums[k]] = objects[at]
  BY <1>2 DEF Installed
<1> HIDE DEF at
<1>4. \A i, j \in 1 .. len : nums[i] = nums[j] => i = j
  BY Zenon, InstalledFds
<1>5. at = k
  BY <1>1, <1>4
<1> QED
  BY Zenon, <1>3, <1>5

\* What recv does with the fds of the first chunk under way.
Gains(c) ==
  /\ \A k \in 1 .. Len(fds) : fds[k] \in Fds /\ open'[fds[k]] = open[fds[k]]
  /\ fds = <<>> => /\ Len(fds') <= Len(c.fds)
                   /\ \A k \in 1 .. Len(fds') : open'[fds'[k]] = c.fds[k]
  /\ c.fds = <<>> => fds' = fds
  /\ ~lost' => ~lost /\ (fds = <<>> => Len(fds') = Len(c.fds))

\* The fds get numbers in their order, and the numbers there were stay as they are.
LEMMA RecvGains ==
  ASSUME FrameInv, Recv
  PROVE  Gains(Head(stream))
<1> DEFINE chunk == Head(stream)
<1>1. chunk \in Chunks
  <2>1. stream \in Seq(Chunks) /\ stream # <<>>
    BY Zenon, FrameTypes DEF Recv
  <2> QED
    BY <2>1, HeadTailProperties
<1>2. PICK len \in 0 .. Len(chunk.fds) : \E nums \in [1 .. len -> Free] :
        Arrive(nums, chunk.fds) /\ fds' = Kept(nums)
  BY Zenon DEF Recv
<1> HIDE DEF chunk
<1>3. PICK nums \in [1 .. len -> Free] :
        Arrive(nums, chunk.fds) /\ fds' = Kept(nums)
  BY <1>2
<1>4. /\ chunk.fds \in Seq(Sendable) /\ Len(chunk.fds) \in Nat
      /\ len \in Nat /\ len <= Len(chunk.fds)
      /\ open \in [Fds -> Held] /\ fds \in Seq(Fds)
  BY <1>1 DEF Chunks, FrameInv, OwnerInv, FdTypes
<1>5. Lowest(nums) /\ open' = Installed(nums, chunk.fds)
      /\ lost' = (lost \/ Len(nums) < Len(chunk.fds))
  BY <1>3 DEF Arrive
<1>6. nums \in Seq(Fds) /\ Len(nums) = len
  <2>1. nums \in [1 .. len -> Fds]
    BY DEF Free
  <2> QED
    BY <1>4, <2>1
<1>7. \A k \in 1 .. len : open'[nums[k]] = chunk.fds[k]
  BY Zenon, <1>4, <1>5, InstalledObjects
<1>8. \A n \in Fds : open[n] # Closed => open'[n] = open[n]
  BY <1>4, <1>5, InstalledFds
<1>9. ASSUME NEW k \in 1 .. Len(fds)
      PROVE  fds[k] \in Fds /\ open'[fds[k]] = open[fds[k]]
  <2>1. fds[k] \in Fds /\ open[fds[k]] # Closed
    BY Zenon, <1>4, ElementOfSeq DEF FrameInv, OwnerInv, Ownership, FdsFresh
  <2> QED
    BY Zenon, <1>8, <2>1
<1>10. fds = <<>> => fds' = nums
  BY <1>3, <1>6, ConcatEmptySeq DEF Kept
<1>11. chunk.fds = <<>> => fds' = fds
  <2> SUFFICES ASSUME chunk.fds = <<>> PROVE fds' = fds
    OBVIOUS
  <2>1. len = 0
    BY <1>4
  <2>2. nums = <<>>
    BY <1>6, <2>1, EmptySeq
  <2> QED
    BY Zenon, <1>3, <1>4, <2>2, ConcatEmptySeq DEF Kept
<1>12. ~lost' => ~lost /\ len = Len(chunk.fds)
  <2>1. ~lost' => ~lost /\ ~(len < Len(chunk.fds))
    BY <1>5, <1>6, Zenon
  <2> QED
    BY <1>4, <2>1
<1>13. Gains(chunk)
  BY Zenon, <1>4, <1>6, <1>7, <1>9, <1>10, <1>11, <1>12 DEF Gains
<1> QED
  BY <1>13 DEF chunk

\* A part of a message is received.
LEMMA RecvFrame == FrameInv /\ Recv => FrameInv'
<1> SUFFICES ASSUME FrameInv, Recv PROVE FrameInv'
  OBVIOUS
<1> DEFINE c == Head(stream)
<1>1. Takes(c) /\ Gains(c)
  BY RecvTakes, RecvGains
<1> HIDE DEF c
<1>2. UNCHANGED <<script, sent, handled>> /\ Receiving' = Receiving /\ End' = End
  BY Zenon DEF Recv, frontVars, Receiving, End
<1>3. OwnerInv'
  BY RecvOwner DEF FrameInv
<1>4. sent \in Seq(Messages) /\ Queue \in Seq(Chunks) /\ Chain(sent, Queue, Expected, End)
  BY Zenon, FrameTypes DEF FrameInv, Chain
<1>5. \A i : Awaited(Queue, i) <=> Awaited(Queue', i) \/ (i = Receiving /\ c.fds # <<>>)
  <2>1. \A i : Awaited(Queue, i)
               <=> Awaited(Tail(Queue), i) \/ (MsgOf(Head(Queue)) = i /\ Head(Queue).fds # <<>>)
    BY Zenon, <1>1, <1>4, AwaitedTail DEF Takes
  <2> QED
    BY Zenon, <1>1, <2>1 DEF Takes
<1>6. c.fds # <<>> => /\ ~Awaited(Queue', Receiving) /\ fds = <<>>
                      /\ c.fds = sent[Receiving].fds
  <2> SUFFICES ASSUME c.fds # <<>>
               PROVE  ~Awaited(Queue', Receiving) /\ fds = <<>> /\ c.fds = sent[Receiving].fds
    BY Zenon
  <2>1. ~Awaited(Tail(Queue), MsgOf(Head(Queue)))
    BY Zenon, <1>1, <1>4, AwaitedOnce DEF Takes
  <2>2. Awaited(Queue, Receiving)
    BY Zenon, <1>5
  <2> QED
    BY Zenon, <1>1, <2>1, <2>2 DEF Takes, ChunkOK, FrameInv, FdsInv
<1>7. ASSUME fds' # <<>>
      PROVE  /\ ~Awaited(Queue', Receiving)
             /\ Len(fds') <= Len(sent[Receiving].fds)
             /\ \A k \in 1 .. Len(fds') : open'[fds'[k]] = sent[Receiving].fds[k]
  <2>1. CASE c.fds = <<>>
    <3>1. fds' = fds
      BY <1>1, <2>1 DEF Gains
    <3> QED
      BY Zenon, <1>1, <1>5, <1>7, <3>1 DEF Gains, FrameInv, FdsInv
  <2>2. CASE c.fds # <<>>
    BY Zenon, <1>1, <1>6, <2>2 DEF Gains
  <2> QED
    BY Zenon, <2>1, <2>2
<1>8. ASSUME ~lost', NEW i \in Receiving .. Len(sent)
      PROVE  \/ sent[i].fds = <<>> \/ Awaited(Queue', i)
             \/ i = Receiving /\ Len(fds') = Len(sent[i].fds)
  <2>1. \/ sent[i].fds = <<>> \/ Awaited(Queue, i)
        \/ i = Receiving /\ Len(fds) = Len(sent[i].fds)
    BY Zenon, <1>1, <1>8 DEF Gains, FrameInv, FdsInv
  <2>2. CASE c.fds = <<>>
    BY Zenon, <1>1, <1>5, <2>1, <2>2 DEF Gains
  <2>3. CASE c.fds # <<>>
    <3>1. Len(fds') = Len(sent[Receiving].fds)
      BY Zenon, <1>1, <1>6, <1>8, <2>3 DEF Gains
    <3> QED
      BY Zenon, <1>5, <1>6, <2>1, <2>3, <3>1
  <2> QED
    BY Zenon, <2>2, <2>3
<1>9. FdsInv'
  BY Zenon, <1>2, <1>7, <1>8 DEF FdsInv
<1>10. Framed'
  BY <1>1, <1>2 DEF FrameInv, Framed, Gains
<1>11. SentInv'
  BY <1>2 DEF FrameInv, SentInv
<1> QED
  BY Zenon, <1>1, <1>2, <1>3, <1>9, <1>10, <1>11 DEF FrameInv, Takes

\* What handle_one_message is given: the message m and what its fds refer to.
Handles(m, objects) ==
  /\ Receiving \in 1 .. Len(sent) /\ m = sent[Receiving] /\ m = Decoded(buf)
  /\ objects \in Seq(Sendable) /\ Len(objects) = Len(fds) /\ Len(fds) <= Len(m.fds)
  /\ \A k \in 1 .. Len(fds) : open[fds[k]] = m.fds[k] /\ objects[k] = m.fds[k]
  /\ ~lost => Len(fds) = Len(m.fds)
  /\ Expected = <<Receiving + 1, 1>>

\* A message is handled when it is complete, with the fds that came with it.
LEMMA HandlesIs ==
  ASSUME FrameInv, pc = "handle"
  PROVE  Handles(Decoded(buf), [k \in DOMAIN fds |-> open[fds[k]]])
<1> DEFINE m == Decoded(buf)
           objects == [k \in DOMAIN fds |-> open[fds[k]]]
<1>1. /\ sent \in Seq(Messages) /\ Len(handled) \in Nat /\ buf \in Seq(Nat \X Nat)
      /\ fds \in Seq(Fds) /\ Chain(sent, Queue, Expected, End)
  BY Zenon, FrameTypes DEF FrameInv
<1>2. /\ buf # <<>> /\ Receiving \in 1 .. Len(sent)
      /\ Len(buf) = Total(sent, Receiving)
      /\ \A j \in 1 .. Len(buf) : buf[j] = <<Receiving, j>>
  BY <1>1 DEF FrameInv, BufInv, Receiving
<1>3. Len(buf) \in Nat /\ Len(buf) > 0 /\ Receiving \in Nat
  BY <1>1, <1>2, EmptySeq DEF Receiving
<1>4. m = sent[Receiving]
  BY <1>2, <1>3 DEF Decoded
<1>5. Expected = <<Receiving + 1, 1>>
  BY <1>2 DEF Expected, NextCell
<1>6. m.fds \in Seq(Sendable) /\ Len(m.fds) \in Nat
  <2>1. sent[Receiving].fds \in Seq(Sendable)
    BY Zenon, <1>1, <1>2, TotalIs
  <2> QED
    BY ONLY <1>4, <2>1
<1> HIDE DEF m
<1>7. /\ Len(fds) \in Nat /\ Len(fds) <= Len(m.fds)
      /\ \A k \in 1 .. Len(fds) : open[fds[k]] = m.fds[k]
  <2>1. CASE fds = <<>>
    BY <1>6, <2>1
  <2>2. CASE fds # <<>>
    BY <1>1, <1>4, <2>2 DEF FrameInv, FdsInv
  <2> QED
    BY <2>1, <2>2
<1>8. \A k \in 1 .. Len(fds) : m.fds[k] \in Sendable
  BY <1>6, <1>7, ElementOfSeq
<1>9. objects \in [1 .. Len(fds) -> Sendable] /\ \A k \in 1 .. Len(fds) : objects[k] = m.fds[k]
  <2>1. DOMAIN fds = 1 .. Len(fds)
    BY <1>1
  <2> QED
    BY Zenon, <1>7, <1>8, <2>1
<1> HIDE DEF objects
<1>10. objects \in Seq(Sendable) /\ Len(objects) = Len(fds)
  BY <1>7, <1>9
<1>11. ~lost => Len(fds) = Len(m.fds)
  <2> SUFFICES ASSUME ~lost PROVE Len(fds) = Len(m.fds)
    OBVIOUS
  <2>1. \A i : Awaited(Queue, i) => i \in Nat /\ Expected[1] <= i
    BY Zenon, <1>1, AwaitedOnce
  <2>2. ~Awaited(Queue, Receiving)
    BY <1>3, <1>5, <2>1
  <2>3. Receiving \in Receiving .. Len(sent)
    BY <1>2, <1>3
  <2>4. m.fds = <<>> \/ Len(fds) = Len(m.fds)
    BY Zenon, <1>4, <2>2, <2>3 DEF FrameInv, FdsInv
  <2> QED
    BY <1>6, <1>7, <2>4
<1>12. Handles(m, objects)
  BY Zenon, <1>2, <1>4, <1>5, <1>7, <1>9, <1>10, <1>11 DEF Handles, m
<1> QED
  BY Zenon, <1>12 DEF m, objects

\* A message is handled.
LEMMA HandleFrame == FrameInv /\ HandleOneMessage => FrameInv'
<1> SUFFICES ASSUME FrameInv, HandleOneMessage PROVE FrameInv'
  OBVIOUS
<1> DEFINE m == Decoded(buf)
           objects == [k \in DOMAIN fds |-> open[fds[k]]]
           h == [m EXCEPT !.fds = objects]
<1>1. Handles(m, objects)
  BY Zenon, HandlesIs DEF HandleOneMessage
<1>2. /\ handled' = Append(handled, h) /\ buf' = <<>> /\ fds' = <<>>
      /\ pc' \in {"exited", "kicks"}
      /\ UNCHANGED <<script, sent, stream, unsent, lost>>
  BY DEF HandleOneMessage, frontVars
<1> HIDE DEF m, objects
<1>3. /\ Queue' = Queue /\ End' = End
      /\ sent \in Seq(Messages) /\ handled \in Seq(Messages) /\ Len(handled) \in Nat
      /\ Len(handled) <= Len(sent) /\ Receiving = Len(handled) + 1 /\ Len(sent) \in Nat
  BY Zenon, <1>2, FrameTypes DEF Queue, End, FrameInv, Framed
<1>4. m \in Messages /\ m.fds \in Seq(Sendable) /\ m = sent[Receiving]
  BY Zenon, <1>1, <1>3, TotalIs DEF Handles
<1>5. objects \in Seq(Sendable)
  BY Zenon, <1>1 DEF Handles
<1>6. h \in Messages /\ h.fds = objects /\ [h EXCEPT !.fds = <<>>] = [m EXCEPT !.fds = <<>>]
  BY Zenon, <1>4, <1>5 DEF Messages
<1> HIDE DEF h
<1>7. /\ handled' \in Seq(Messages) /\ Len(handled') = Receiving
      /\ handled'[Receiving] = h
      /\ \A i \in 1 .. Len(handled) : handled'[i] = handled[i]
  BY <1>2, <1>3, <1>6, AppendProperties
<1>8. OwnerInv'
  BY HandleOwner DEF FrameInv
<1>9. SentInv'
  BY <1>2 DEF FrameInv, SentInv
<1>10. BufInv'
  BY <1>2, <1>7 DEF BufInv
<1>11. Chain(sent', Queue', Expected', End')
  <2>1. Expected' = <<Receiving + 1, 1>>
    BY Zenon, <1>2, <1>7 DEF Expected, Receiving
  <2> QED
    BY Zenon, <1>1, <1>2, <1>3, <2>1 DEF Handles, FrameInv
<1>12. FdsInv'
  <2>1. ASSUME ~lost, NEW i \in Receiving' .. Len(sent)
        PROVE  sent[i].fds = <<>> \/ Awaited(Queue, i)
    <3>1. Receiving' = Receiving + 1
      BY Zenon, <1>7 DEF Receiving
    <3>2. i \in Receiving .. Len(sent) /\ i # Receiving
      BY <1>3, <3>1
    <3> QED
      BY Zenon, <2>1, <3>2 DEF FrameInv, FdsInv
  <2> QED
    BY Zenon, <1>2, <1>3, <2>1 DEF FdsInv
<1>13. Framed'
  <2>1. Len(handled') <= Len(sent) /\ DOMAIN handled' = 1 .. Receiving
    BY <1>1, <1>3, <1>7 DEF Handles
  <2>2. ASSUME NEW i \in 1 .. Receiving
        PROVE  /\ [handled'[i] EXCEPT !.fds = <<>>] = [sent[i] EXCEPT !.fds = <<>>]
               /\ Len(handled'[i].fds) <= Len(sent[i].fds)
               /\ ~lost => handled'[i].fds = sent[i].fds
    <3>1. CASE i = Receiving
      <4>1. Len(objects) <= Len(m.fds) /\ (~lost => Len(objects) = Len(m.fds))
        BY Zenon, <1>1 DEF Handles
      <4>2. \A k \in 1 .. Len(objects) : objects[k] = m.fds[k]
        BY Zenon, <1>1 DEF Handles
      <4>3. ~lost => objects = m.fds
        BY Zenon, <1>4, <1>5, <4>1, <4>2, SeqEqual
      <4>4. handled'[i] = h /\ sent[i] = m
        BY <1>4, <1>7, <3>1
      <4> QED
        BY <1>6, <4>1, <4>3, <4>4
    <3>2. CASE i # Receiving
      <4>1. i \in 1 .. Len(handled) /\ i \in DOMAIN handled
        BY <1>3, <3>2
      <4> QED
        BY <1>7, <4>1 DEF FrameInv, Framed
    <3> QED
      BY <3>1, <3>2
  <2> QED
    BY Zenon, <1>2, <2>1, <2>2 DEF Framed
<1> QED
  BY <1>8, <1>9, <1>10, <1>11, <1>12, <1>13 DEF FrameInv

\* Where recv has nothing, its place does not matter, and what it has does not
\* change when nothing is received or handled.
LEMMA SameFrame ==
  ASSUME FrameInv, OwnerInv', Queue' = Queue,
         UNCHANGED <<script, sent, buf, fds, handled, lost>>,
         \A k \in 1 .. Len(fds) : open'[fds[k]] = open[fds[k]],
         \/ pc' = pc \/ pc' = "exited"
         \/ pc \notin {"recv", "handle", "exited"} /\ pc' # "handle"
  PROVE  FrameInv'
<1>1. Receiving' = Receiving /\ Expected' = Expected /\ End' = End
  BY Zenon DEF Receiving, Expected, End, NextCell, Total
<1>2. BufInv'
  BY Zenon, <1>1 DEF FrameInv, BufInv, Total
<1>3. FdsInv'
  BY Zenon, <1>1 DEF FrameInv, FdsInv
<1>4. SentInv' /\ Framed'
  BY DEF FrameInv, SentInv, Framed
<1> QED
  BY Zenon, <1>1, <1>2, <1>3, <1>4 DEF FrameInv

\* The second sendmsg of a message.
LEMMA SendRestFrame == FrameInv /\ SendRest => FrameInv'
<1> SUFFICES ASSUME FrameInv, SendRest PROVE FrameInv'
  OBVIOUS
<1>1. OwnerInv'
  <2>1. OwnerInv /\ [Next]_vars
    BY DEF FrameInv, Next, FrontEnd
  <2> QED
    BY <2>1, OwnerStep
<1>2. stream \in Seq(Chunks) /\ unsent \in Seq(Chunks)
  BY Zenon, FrameTypes
<1>3. Queue' = Queue
  <2>1. stream \o unsent \in Seq(Chunks)
    BY <1>2, ConcatProperties
  <2> QED
    BY <2>1, ConcatEmptySeq DEF Queue, SendRest
<1> QED
  BY Zenon, <1>1, <1>3, SameFrame DEF SendRest, serverVars

\* A daemon that has just started has received nothing, and nothing is sent.
LEMMA FrameInit == Init => FrameInv
<1> SUFFICES ASSUME Init PROVE FrameInv
  OBVIOUS
<1>1. OwnerInv
  BY OwnerInit
<1>2. SentInv
  <2>1. script \in Seq([request : STRING, index : Nat, num : Nat])
    BY Zenon, ChannelAssumption DEF Init
  <2> QED
    BY <2>1 DEF Init, SentInv
<1>3. BufInv
  BY DEF Init, BufInv
<1>4. Queue = <<>>
  BY DEF Init, Queue
<1>5. Receiving = 1 /\ Expected = <<1, 1>> /\ End = <<1, 1>>
  BY DEF Init, Receiving, Expected, End
<1>6. FdsInv
  BY <1>5 DEF Init, FdsInv
<1>7. Framed
  BY DEF Init, Framed
<1>8. Chain(sent, Queue, Expected, End)
  BY <1>4, <1>5 DEF Chain, StartOf
<1> QED
  BY <1>1, <1>2, <1>3, <1>6, <1>7, <1>8 DEF FrameInv

\* Every step keeps the stream in order.
LEMMA FrameStep == FrameInv /\ [Next]_vars => FrameInv'
<1> SUFFICES ASSUME FrameInv, [Next]_vars PROVE FrameInv'
  OBVIOUS
<1> DEFINE Same == /\ UNCHANGED <<script, sent, stream, unsent, buf, fds, handled, lost>>
                   /\ \/ pc' = pc \/ pc' = "exited"
                      \/ pc \notin {"recv", "handle", "exited"} /\ pc' # "handle"
<1>1. OwnerInv'
  BY OwnerStep DEF FrameInv
<1>2. ASSUME Same, \A k \in 1 .. Len(fds) : open'[fds[k]] = open[fds[k]]
      PROVE  FrameInv'
  <2>1. Queue' = Queue
    BY Zenon, <1>2 DEF Queue
  <2> QED
    BY Zenon, <1>1, <1>2, <2>1, SameFrame
<1>3. CASE SendMessage \/ SendRest
  BY <1>3, SendFrame, SendRestFrame
<1>4. CASE Recv
  BY <1>4, RecvFrame
<1>5. CASE HandleOneMessage
  BY <1>5, HandleFrame
<1>6. CASE Bind \/ Accept
  BY Zenon, <1>2, <1>6 DEF Bind, Accept, frontVars
<1>7. CASE Poll \/ RecvEnds \/ HandleFails \/ KicksDone
  BY Zenon, <1>2, <1>7 DEF Poll, RecvEnds, HandleFails, KicksDone, frontVars
<1>8. CASE \E p \in kick_slots : Drain(p) \/ FinishServe(p)
  <2> PICK p \in kick_slots : Drain(p) \/ FinishServe(p)
    BY <1>8
  <2>1. CASE Drain(p)
    <3>1. pc = "kicks" /\ pc' \in {"kicks", "serve"}
      BY Zenon, <2>1 DEF Drain
    <3> QED
      BY Zenon, <1>2, <2>1, <3>1 DEF Drain, frontVars
  <2>2. CASE FinishServe(p)
    BY Zenon, <1>2, <2>2 DEF FinishServe, frontVars
  <2> QED
    BY <2>1, <2>2
<1>9. CASE \E n \in Fds : OpenFile(n) \/ CloseFile(n)
  <2> PICK n \in Fds : OpenFile(n) \/ CloseFile(n)
    BY <1>9
  <2>1. pc = "serve" /\ Same
    BY Zenon DEF OpenFile, CloseFile, frontVars
  <2>2. fds = <<>>
    BY Zenon, <2>1 DEF FrameInv, BufInv
  <2> QED
    BY <1>2, <2>1, <2>2
<1>10. CASE CloseConnection
  BY Zenon, <1>2, <1>10 DEF CloseConnection, serverVars
<1>11. CASE \E i \in DOMAIN script : RingKick(i) \/ ConsumeCall(i)
  BY Zenon, <1>2, <1>11 DEF RingKick, ConsumeCall, serverVars, frontVars
<1>12. CASE UNCHANGED vars
  BY Zenon, <1>2, <1>12 DEF vars
<1> QED
  BY Zenon, <1>3, <1>4, <1>5, <1>6, <1>7, <1>8, <1>9, <1>10, <1>11, <1>12
  DEF Next, Server, FrontEnd

\* Messages are cut where the front-end cut them (Connection::recv).
THEOREM MessagesFramed == Spec => []Framed
<1>1. FrameInv => Framed
  BY DEF FrameInv
<1> QED
  BY <1>1, FrameInit, FrameStep, PTL DEF Spec
=============================================================================
