-------------------------- MODULE VhostServerProofs -------------------------
(***************************************************************************)
(* Proofs about module VhostServer: its type invariant, the order of the   *)
(* front-end's messages about a vring, and that a stopped vring resumes    *)
(* exactly where it stood, whatever the loop was doing when it was         *)
(* stopped.  Module VhostRingsProofs builds on the invariant of this one.  *)
(*                                                                         *)
(* They hold for any number of vrings, any queue size, any number of       *)
(* restarts, any order of configuration that SetupAssumption allows, and   *)
(* any interleaving of the messages about different vrings.                *)
(***************************************************************************)
EXTENDS VhostServer, Integers, WellFoundedInduction, TLAPS

\* The obligations are large: give the provers the time they need.
USE SMTT(20), ZenonT(30)

-----------------------------------------------------------------------------
(***************************************************************************)
(* Sequences, indices and slots.  What the SMT solver knows of sequences   *)
(* is stated here once, so that the proofs can cite it: they cite many     *)
(* facts, and every theorem of a library that is in scope makes each of    *)
(* them dearer to check.                                                   *)
(***************************************************************************)

\* The empty sequence is the one of length 0.
LEMMA EmptySeq ==
  ASSUME NEW S
  PROVE  /\ <<>> \in Seq(S) /\ Len(<<>>) = 0
         /\ \A s \in Seq(S) : s # <<>> => Len(s) \in Nat \ {0}
  OBVIOUS

\* A sequence is a function on 1 .. its length.
LEMMA LenProperties ==
  ASSUME NEW S, NEW s \in Seq(S)
  PROVE  Len(s) \in Nat /\ s \in [1 .. Len(s) -> S] /\ DOMAIN s = 1 .. Len(s)
  OBVIOUS

\* The elements of a sequence of elements of S are in S.
LEMMA ElementOfSeq ==
  ASSUME NEW S, NEW s \in Seq(S), NEW n \in 1 .. Len(s)
  PROVE  s[n] \in S
  OBVIOUS

\* A function on 1 .. n is a sequence of length n.
LEMMA FunctionIsSeq ==
  ASSUME NEW S, NEW n \in Nat, NEW s \in [1 .. n -> S]
  PROVE  s \in Seq(S) /\ Len(s) = n
  OBVIOUS

\* Sequences of the same length and elements are equal.
LEMMA SeqEqual ==
  ASSUME NEW S, NEW s \in Seq(S), NEW t \in Seq(S),
         Len(s) = Len(t), \A i \in 1 .. Len(s) : s[i] = t[i]
  PROVE  s = t
  OBVIOUS

\* What appending an element makes of a sequence.
LEMMA AppendProperties ==
  ASSUME NEW S, NEW s \in Seq(S), NEW e \in S
  PROVE  /\ Append(s, e) \in Seq(S) /\ Append(s, e) # <<>>
         /\ Len(Append(s, e)) = Len(s) + 1
         /\ \A i \in 1 .. Len(s) : Append(s, e)[i] = s[i]
         /\ Append(s, e)[Len(s) + 1] = e
  OBVIOUS

\* What taking the first element off makes of a sequence.
LEMMA HeadTailProperties ==
  ASSUME NEW S, NEW s \in Seq(S), s # <<>>
  PROVE  /\ Head(s) \in S /\ Tail(s) \in Seq(S)
         /\ Len(Tail(s)) = Len(s) - 1
         /\ \A i \in 1 .. Len(Tail(s)) : Tail(s)[i] = s[i + 1]
  OBVIOUS

\* The sizes of a ring, without the divisibility.
LEMMA Sizes ==
  /\ QueueSize \in Nat \ {0} /\ IdxMod \in Nat \ {0} /\ QueueSize < IdxMod
  BY VirtqueueAssumption

\* Below two turns, wrapping an index takes at most one subtraction.
LEMMA Wrap ==
  ASSUME NEW a \in Nat
  PROVE  /\ a < IdxMod => a % IdxMod = a
         /\ IdxMod <= a /\ a < IdxMod + IdxMod => a % IdxMod = a - IdxMod
  BY Sizes

\* The successor of an index is an index: it wraps at IdxMod.
LEMMA SuccIs ==
  ASSUME NEW i \in Indices
  PROVE  Succ(i) \in Indices /\ Succ(i) = IF i + 1 < IdxMod THEN i + 1 ELSE 0
  BY Sizes, Wrap DEF Succ, Indices

\* A slot is the index of an entry of the ring.
LEMMA SlotIs ==
  ASSUME NEW i \in Indices
  PROVE  Slot(i) \in Heads
  BY Sizes DEF Slot, Indices, Heads
-----------------------------------------------------------------------------
(***************************************************************************)
(* The loop over kick_slots.                                               *)
(***************************************************************************)

\* A set of numbers that has an element has a least one.
LEMMA Least ==
  ASSUME NEW S \in SUBSET Nat, S # {}
  PROVE  \E x \in S : \A y \in S : x <= y
<1>1. PICK x \in S : \A y \in S : ~(<<y, x>> \in OpToRel(<, Nat))
  BY ZenonT(30), NatLessThanWellFounded, WFMin
<1>2. \A y \in S : y \in Nat
  BY Zenon
<1>3. ASSUME NEW y \in S  PROVE x <= y
  <2>1. ~(<<y, x>> \in OpToRel(<, Nat))
    BY ZenonT(30), <1>1
  <2>2. ~(y < x)
    BY <1>2, <2>1 DEF OpToRel
  <2> QED
    BY <1>2, <2>2
<1> QED
  BY <1>3

\* While there is a vring to serve, the loop is at one that polled readable.
LEMMA TurnIs ==
  ASSUME kick_slots \subseteq Queues \X (1 .. MaxStarts), kick_slots # {}
  PROVE  /\ Turn \in kick_slots /\ Turn = <<Current, CurrentFd>>
         /\ Current \in Queues /\ CurrentFd \in 1 .. MaxStarts
<1> DEFINE S == {s[1] : s \in kick_slots}
<1>1. S \in SUBSET Nat /\ S # {}
  BY ZenonT(30), VirtqueueAssumption
<1> HIDE DEF S
<1>2. PICK x \in S : \A y \in S : x <= y
  BY <1>1, Least
<1>3. PICK s \in kick_slots : s[1] = x
  BY DEF S
<1>4. \A t \in kick_slots : s[1] <= t[1]
  BY <1>2, <1>3 DEF S
<1>5. Turn \in kick_slots
  BY <1>4 DEF Turn
<1> QED
  BY <1>5 DEF Current, CurrentFd
-----------------------------------------------------------------------------
(***************************************************************************)
(* The control messages.                                                   *)
(***************************************************************************)

\* The messages about vring q that the server has yet to read.
Pending(q) ==
  {inbox[i] : i \in {j \in DOMAIN inbox : inbox[j].index = q}}
    \cup {script[q][k] : k \in DOMAIN script[q]}

Has(q, req) == \E m \in Pending(q) : m.req = req

\* The two kinds of message that stop a vring, and those that set it up, of
\* which the last enables it.
Off(m) == m.req = "SET_VRING_ENABLE" /\ m.num = 0
Asks(m) == m.req = "GET_VRING_BASE"
SetsUp(m) == ~Off(m) /\ ~Asks(m)
On(m) == m.req = "SET_VRING_ENABLE" /\ m.num # 0

\* A vring is set up, enabled, disabled, and then asked where it stands.
MayFollow(m, n) ==
  /\ ~Asks(m)
  /\ Off(m) => Asks(n)
  /\ On(m) => ~SetsUp(n)

\* What a message about vring q carries.
MessageOK(q, m) ==
  /\ m.index = q
  /\ m.req \in VringRequests \cup {"GET_VRING_BASE"}
  /\ m.req = "SET_VRING_BASE" => m.num \in Indices
  /\ m.req = "SET_VRING_KICK" => m.num \in (1 .. MaxStarts) \cup {Nil}

\* What the doorbell of the n-th start is called in SET_VRING_KICK.
Doorbell(n) == IF KickFds = "none" THEN Nil ELSE n

\* What the front-end sends to configure a vring: it says where the vring
\* stands and which doorbells it has, and enables it last.
Configures(q, n, base, c) ==
  /\ c \in Seq(Messages)
  /\ \A i \in DOMAIN c :
       /\ MessageOK(q, c[i]) /\ SetsUp(c[i])
       /\ c[i].req = "SET_VRING_BASE" => c[i].num = base
       /\ c[i].req = "SET_VRING_KICK" => c[i].num = Doorbell(n)
  /\ \A i, j \in DOMAIN c : i < j => MayFollow(c[i], c[j])
  /\ \A req \in {"SET_VRING_BASE", "SET_VRING_KICK", "SET_VRING_CALL"} :
       \E i \in DOMAIN c : c[i].req = req

\* Configure makes such messages.
LEMMA ConfigureIs ==
  ASSUME NEW q \in Queues, NEW n \in 1 .. MaxStarts, NEW base \in Indices
  PROVE  Configures(q, n, base, Configure(q, n, base))
<1> DEFINE num(req) == CASE req = "SET_VRING_BASE" -> base
                         [] req = "SET_VRING_KICK" -> Doorbell(n)
                         [] OTHER -> 1
           c == Configure(q, n, base)
<1>1. Len(Setup) \in Nat /\ DOMAIN Setup = 1 .. Len(Setup)
  BY SetupAssumption, LenProperties
<1>2. c = [i \in 1 .. Len(Setup) |-> [req |-> Setup[i], index |-> q, num |-> num(Setup[i])]]
  BY <1>1 DEF Configure, Message, Doorbell
<1>3. \A i \in 1 .. Len(Setup) : Setup[i] \in VringRequests
  BY SetupAssumption, ElementOfSeq
<1>4. base \in Nat /\ n \in Nat /\ Nil \notin Nat /\ q # Nil
  BY ServerAssumption, VirtqueueAssumption DEF Indices
<1>5. \A r \in VringRequests :
        /\ num(r) \in Nat \cup {Nil}
        /\ r = "SET_VRING_BASE" => num(r) = base
        /\ r = "SET_VRING_KICK" => num(r) = Doorbell(n) /\ num(r) \in (1 .. MaxStarts) \cup {Nil}
        /\ r = "SET_VRING_ENABLE" => num(r) = 1
  BY <1>4 DEF Doorbell, VringRequests
<1> HIDE DEF num, c
<1>6. \A i \in 1 .. Len(Setup) : c[i] \in Messages
  BY <1>2, <1>3, <1>5 DEF Messages
<1>7. c \in Seq(Messages) /\ DOMAIN c = 1 .. Len(Setup)
  <2>1. DOMAIN c = 1 .. Len(Setup)
    BY <1>2
  <2>2. c \in [1 .. Len(Setup) -> Messages]
    BY <1>2, <1>6, <2>1
  <2> QED
    BY <1>1, <2>1, <2>2, FunctionIsSeq
<1>8. \A i \in 1 .. Len(Setup) :
        c[i].req = Setup[i] /\ c[i].index = q /\ c[i].num = num(Setup[i])
  BY <1>2
<1>9. \A i \in DOMAIN c :
        /\ MessageOK(q, c[i]) /\ SetsUp(c[i])
        /\ c[i].req = "SET_VRING_BASE" => c[i].num = base
        /\ c[i].req = "SET_VRING_KICK" => c[i].num = Doorbell(n)
  BY <1>3, <1>5, <1>7, <1>8 DEF MessageOK, SetsUp, Off, Asks, VringRequests
<1>10. ASSUME NEW i \in DOMAIN c, NEW j \in DOMAIN c, i < j
       PROVE  MayFollow(c[i], c[j])
  <2>1. i # Len(Setup)
    BY <1>1, <1>7, <1>10
  <2>2. c[i].req # "SET_VRING_ENABLE"
    BY <1>1, <1>7, <1>8, <2>1, SetupAssumption
  <2>3. SetsUp(c[i])
    BY <1>9
  <2> QED
    BY <2>2, <2>3 DEF MayFollow, SetsUp, On
<1>11. ASSUME NEW req \in {"SET_VRING_BASE", "SET_VRING_KICK", "SET_VRING_CALL"}
       PROVE  \E i \in DOMAIN c : c[i].req = req
  BY <1>1, <1>7, <1>8, SetupAssumption
<1> QED
  BY <1>7, <1>9, <1>10, <1>11 DEF Configures, c
-----------------------------------------------------------------------------
(***************************************************************************)
(* The types, of the messages under way too.                               *)
(***************************************************************************)
Types ==
  /\ TypeOK
  /\ paused => starts < MaxStarts
  /\ \A i \in DOMAIN inbox :
       IF inbox[i].index = Nil
       THEN inbox[i].req \in {"GET_FEATURES", "SET_MEM_TABLE"}
       ELSE MessageOK(inbox[i].index, inbox[i])
  /\ \A q \in Queues : \A k \in DOMAIN script[q] : MessageOK(q, script[q][k])

\* The vring that is being served has its rings.
ServesBuilt == pc \in {"pop", "push", "publish"} => vrings[Current].vq # Nil

TypeInv == Types /\ ServesBuilt

\* The loop stays where it is while kick_slots does.
LEMMA TurnKept ==
  kick_slots' = kick_slots
    => Turn' = Turn /\ Current' = Current /\ CurrentFd' = CurrentFd
  BY DEF Turn, Current, CurrentFd

\* Updating a function of two arguments at one place.
LEMMA Update2 ==
  ASSUME NEW A, NEW B, NEW C, NEW f \in [A -> [B -> C]],
         NEW a \in A, NEW b \in B, NEW c \in C
  PROVE  /\ [f EXCEPT ![a][b] = c] \in [A -> [B -> C]]
         /\ \A x \in A : x # a => [f EXCEPT ![a][b] = c][x] = f[x]
         /\ [f EXCEPT ![a][b] = c][a] = [f[a] EXCEPT ![b] = c]
  OBVIOUS

\* What a message about a vring does to its slot gives a slot.
LEMMA ConfiguredType ==
  ASSUME NEW q, NEW slot \in VringSlot, NEW m \in Messages, MessageOK(q, m)
  PROVE  Configured(slot, m) \in VringSlot
  BY ZenonT(30) DEF Configured, VringSlot, MessageOK, MaybeBuild, SetBase, Messages

\* The initial state is typed.
LEMMA InitTypeInv == Init => TypeInv
<1> SUFFICES ASSUME Init  PROVE TypeInv
  OBVIOUS
<1> USE DEF Init
<1>1. 0 \in Indices /\ 0 \in Heads /\ 1 \in 1 .. MaxStarts
  BY Sizes, ServerAssumption DEF Indices, Heads
<1>2. RingTypeOK
  BY <1>1, VirtqueueAssumption DEF RingTypeOK, RingInit
<1>3. vrings \in [Queues -> VringSlot]
  BY <1>1 DEF VringSlot
<1>4. /\ inbox \in Seq(Messages)
      /\ \A i \in DOMAIN inbox : inbox[i].index = Nil
                                  /\ inbox[i].req \in {"GET_FEATURES", "SET_MEM_TABLE"}
  BY DEF Message, Messages
<1>5. /\ script \in [Queues -> Seq(Messages)]
      /\ \A q \in Queues : \A k \in DOMAIN script[q] : MessageOK(q, script[q][k])
  <2>1. \A q \in Queues : Configures(q, 1, 0, Configure(q, 1, 0))
    BY ZenonT(30), <1>1, ConfigureIs
  <2> QED
    BY <2>1 DEF Configures
<1>6. kick \in [Queues -> [1 .. MaxStarts -> Nat]]
  OBVIOUS
<1> QED
  BY ZenonT(30), <1>1, <1>2, <1>3, <1>4, <1>5, <1>6 DEF TypeInv, Types, TypeOK, ServesBuilt

\* Every step keeps the types.
LEMMA NextTypes == TypeInv /\ [Next]_vars => Types'
<1> SUFFICES ASSUME Types, ServesBuilt, [Next]_vars  PROVE Types'
  BY DEF TypeInv
<1> USE DEF Types, TypeOK, RingTypeOK
<1>1. ASSUME NEW q \in Queues, NEW h \in Heads, Submit(q, h)
      PROVE  Types'
  <2>1. /\ Slot(avail_idx[q]) \in Heads /\ Succ(avail_idx[q]) \in Indices
        /\ requests[q] + 1 \in 0 .. MaxRequests
    BY <1>1, SuccIs, SlotIs, VirtqueueAssumption DEF Submit, AddAvail
  <2>2. RingTypeOK'
    BY Zenon, <1>1, <2>1 DEF Submit, AddAvail
  <2>3. owed' \in [Queues -> Nat]
    BY <1>1 DEF Submit
  <2> QED
    BY Zenon, <1>1, <2>2, <2>3 DEF Submit, serverVars, frontVars
<1>2. ASSUME NEW q \in Queues, Kick(q)
      PROVE  Types'
  <2>1. kick' \in [Queues -> [1 .. MaxStarts -> Nat]]
    <3>1. kick' = [kick EXCEPT ![q][starts] = kick[q][starts] + 1]
      BY <1>2 DEF Kick
    <3>2. /\ kick \in [Queues -> [1 .. MaxStarts -> Nat]]
          /\ starts \in 1 .. MaxStarts /\ q \in Queues
      OBVIOUS
    <3> HIDE DEF Types
    <3>3. kick[q][starts] \in Nat
      BY ZenonT(30), <3>2
    <3>4. kick[q][starts] + 1 \in Nat
      BY <3>3
    <3> QED
      BY <3>1, <3>2, <3>4, Update2
  <2>2. owed' \in [Queues -> Nat]
    BY <1>2 DEF Kick
  <2> QED
    BY ZenonT(30), <1>2, <2>1, <2>2 DEF Kick, ringVars, driverVars, serverVars, frontVars
<1>3. ASSUME NEW q \in Queues, Interrupt(q)
      PROVE  Types'
  BY Zenon, <1>3 DEF Interrupt, ringVars, driverVars, serverVars, frontVars
<1>4. ASSUME NEW q \in Queues, Reap(q)
      PROVE  Types'
  <2>1. /\ Slot(last_used[q]) \in Heads /\ Succ(last_used[q]) \in Indices
    BY SuccIs, SlotIs
  <2>2. RingTypeOK'
    <3>1. CASE ReadUsed(q)
      BY <2>1, <3>1 DEF ReadUsed, ringVars
    <3> QED
      BY ZenonT(30), <1>4, <3>1 DEF Reap, ringVars, driverVars
  <2>3. reaping' \in [Queues -> BOOLEAN]
    BY ZenonT(30), <1>4 DEF Reap
  <2> QED
    BY ZenonT(30), <1>4, <2>2, <2>3 DEF Reap, serverVars, frontVars
<1>5. ASSUME NEW q \in Queues, Send(q)
      PROVE  Types'
  <2>1. script[q] \in Seq(Messages) /\ script[q] # <<>>
    BY <1>5 DEF Send
  <2>2. /\ Head(script[q]) \in Messages /\ Head(script[q]) = script[q][1]
        /\ 1 \in DOMAIN script[q]
        /\ Tail(script[q]) \in Seq(Messages)
        /\ \A k \in DOMAIN Tail(script[q]) :
             k + 1 \in DOMAIN script[q] /\ Tail(script[q])[k] = script[q][k + 1]
    BY <2>1, HeadTailProperties, LenProperties, EmptySeq
  <2>3. /\ inbox' \in Seq(Messages)
        /\ \A i \in DOMAIN inbox' : \/ i \in DOMAIN inbox /\ inbox'[i] = inbox[i]
                                    \/ inbox'[i] = script[q][1]
    BY <1>5, <2>2, AppendProperties, LenProperties DEF Send
  <2>4. script' \in [Queues -> Seq(Messages)] /\ script'[q] = Tail(script[q])
    BY <1>5, <2>2 DEF Send
  <2>5. \A p \in Queues : \A k \in DOMAIN script'[p] : MessageOK(p, script'[p][k])
    BY <1>5, <2>2, <2>4 DEF Send
  <2>6. MessageOK(q, script[q][1]) /\ script[q][1].index = q /\ q # Nil
    BY <2>2, ServerAssumption, VirtqueueAssumption DEF MessageOK
  <2>7. \A i \in DOMAIN inbox' :
          IF inbox'[i].index = Nil
          THEN inbox'[i].req \in {"GET_FEATURES", "SET_MEM_TABLE"}
          ELSE MessageOK(inbox'[i].index, inbox'[i])
    BY ZenonT(30), <2>3, <2>6
  <2> QED
    BY ZenonT(30), <1>5, <2>3, <2>4, <2>5, <2>7 DEF Send, MessageOK, ringVars, driverVars, serverVars, bellVars
<1>6. CASE Stop
  <2>1. /\ script' \in [Queues -> Seq(Messages)]
        /\ \A q \in Queues : \A k \in DOMAIN script'[q] : MessageOK(q, script'[q][k])
    <3> SUFFICES ASSUME NEW q \in Queues
                 PROVE  /\ <<Message("SET_VRING_ENABLE", q, 0),
                             Message("GET_VRING_BASE", q, 0)>> \in Seq(Messages)
                        /\ MessageOK(q, Message("SET_VRING_ENABLE", q, 0))
                        /\ MessageOK(q, Message("GET_VRING_BASE", q, 0))
      BY <1>6 DEF Stop
    <3> QED
      BY DEF Message, Messages, MessageOK, VringRequests
  <2> QED
    BY ZenonT(30), <1>6, <2>1 DEF Stop, MessageOK, ringVars, driverVars, serverVars, bellVars
<1>7. CASE Restart
  <2>1. starts + 1 \in 1 .. MaxStarts
    BY <1>7, ServerAssumption DEF Restart
  <2>2. /\ script' \in [Queues -> Seq(Messages)]
        /\ \A q \in Queues : \A k \in DOMAIN script'[q] : MessageOK(q, script'[q][k])
    <3> SUFFICES ASSUME NEW q \in Queues
                 PROVE  /\ Configure(q, starts + 1, bases[q]) \in Seq(Messages)
                        /\ \A k \in DOMAIN Configure(q, starts + 1, bases[q]) :
                             MessageOK(q, Configure(q, starts + 1, bases[q])[k])
      BY Zenon, <1>7 DEF Restart
    <3>1. bases[q] \in Indices
      BY Zenon, <1>7 DEF Restart
    <3>2. Configures(q, starts + 1, bases[q], Configure(q, starts + 1, bases[q]))
      BY ZenonT(30), <2>1, <3>1, ConfigureIs
    <3> HIDE DEF Types, TypeOK
    <3> QED
      BY ZenonT(30), <3>2 DEF Configures
  <2>3. kick' \in [Queues -> [1 .. MaxStarts -> Nat]]
    BY Zenon, <1>7, <2>1 DEF Restart
  <2>4. bases' \in [Queues -> Indices \cup {Nil}]
    BY ZenonT(30), <1>7 DEF Restart
  <2> QED
    BY ZenonT(30), <1>7, <2>1, <2>2, <2>3, <2>4 DEF Restart, MessageOK, ringVars, driverVars, serverVars
<1>8. CASE Close
  BY ZenonT(30), <1>8 DEF Close, ringVars, driverVars, serverVars, bellVars
<1>9. CASE Poll
  <2>1. \A q \in Queues : Readable(q) => vrings[q].kick_fd \in 1 .. MaxStarts
    BY Zenon DEF Readable, VringSlot
  <2>2. kick_slots' \subseteq Queues \X (1 .. MaxStarts)
    BY <1>9, <2>1 DEF Poll
  <2>3. pc' \in {"message", "kicks"} /\ hup' \in BOOLEAN
    BY ZenonT(30), <1>9 DEF Poll
  <2> QED
    BY ZenonT(30), <1>9, <2>2, <2>3 DEF Poll, ringVars, driverVars, frontVars, bellVars
<1>10. CASE HandleOneMessage
  <2> DEFINE m == Head(inbox)
  <2>1. /\ m \in Messages /\ m = inbox[1] /\ 1 \in DOMAIN inbox
        /\ Tail(inbox) \in Seq(Messages)
        /\ \A i \in DOMAIN Tail(inbox) :
             i + 1 \in DOMAIN inbox /\ Tail(inbox)[i] = inbox[i + 1]
    BY <1>10, HeadTailProperties, LenProperties, EmptySeq DEF HandleOneMessage
  <2>2. /\ m.index # Nil => MessageOK(m.index, m) /\ m.index \in Queues
        /\ m.index = Nil => m.req # "GET_VRING_BASE"
    BY Zenon, <2>1 DEF Messages
  <2> HIDE DEF m
  <2>3. vrings' \in [Queues -> VringSlot]
    <3> SUFFICES ASSUME NEW q \in Queues, q = m.index
                 PROVE  Configured(vrings[q], m) \in VringSlot
      BY Zenon, <1>10 DEF HandleOneMessage, m
    <3>1. q # Nil
      BY Zenon, ServerAssumption, VirtqueueAssumption
    <3> QED
      BY Zenon, <2>1, <2>2, <3>1, ConfiguredType
  <2>4. bases' \in [Queues -> Indices \cup {Nil}]
    <3>1. CASE m.req = "GET_VRING_BASE"
      <4>1. m.index \in Queues
        BY Zenon, <2>2, <3>1
      <4>2. AvailBase(vrings[m.index]) \in Indices
        BY <4>1, Sizes DEF AvailBase, VringSlot, Indices
      <4> QED
        BY ZenonT(30), <1>10, <3>1, <4>1, <4>2 DEF HandleOneMessage, m
    <3> QED
      BY Zenon, <1>10, <3>1 DEF HandleOneMessage, m
  <2>5. /\ inbox' \in Seq(Messages)
        /\ \A i \in DOMAIN inbox' :
             IF inbox'[i].index = Nil
             THEN inbox'[i].req \in {"GET_FEATURES", "SET_MEM_TABLE"}
             ELSE MessageOK(inbox'[i].index, inbox'[i])
    BY Zenon, <1>10, <2>1 DEF HandleOneMessage
  <2>6. mem' \in BOOLEAN
    BY ZenonT(30), <1>10 DEF HandleOneMessage
  <2> QED
    BY Zenon, <1>10, <2>3, <2>4, <2>5, <2>6 DEF HandleOneMessage, MessageOK, ringVars, driverVars, bellVars
<1>11. CASE Disconnected
  BY ZenonT(30), <1>11 DEF Disconnected, ringVars, driverVars, frontVars, bellVars
<1>12. CASE KicksDone
  BY Zenon, <1>12 DEF KicksDone, ringVars, driverVars, frontVars, bellVars
<1>13. CASE Drain
  <2>1. Current \in Queues /\ CurrentFd \in 1 .. MaxStarts
    BY ZenonT(30), <1>13, TurnIs DEF Drain
  <2>2. /\ Drained(Current, CurrentFd) \in Nat
        /\ Drained(Current, CurrentFd) <= kick[Current][CurrentFd]
    BY <2>1, ServerAssumption DEF Drained
  <2>3. kick' \in [Queues -> [1 .. MaxStarts -> Nat]]
    <3>1. kick' = [kick EXCEPT ![Current][CurrentFd] =
                     kick[Current][CurrentFd] - Drained(Current, CurrentFd)]
      BY ZenonT(30), <1>13 DEF Drain
    <3>2. kick[Current] \in [1 .. MaxStarts -> Nat]
      BY Zenon, <2>1
    <3>3. kick[Current][CurrentFd] - Drained(Current, CurrentFd) \in Nat
      BY <2>1, <2>2, <3>2
    <3> QED
      BY ZenonT(30), <2>1, <3>1, <3>3, Update2
  <2>4. /\ kick_slots' \subseteq Queues \X (1 .. MaxStarts)
        /\ pc' \in {"poll", "message", "kicks", "pop", "push", "publish", "exited"}
        /\ pc' \in {"pop", "push", "publish"} => kick_slots' # {}
    BY Zenon, <1>13 DEF Drain, BeginVring
  <2> QED
    BY ZenonT(30), <1>13, <2>3, <2>4 DEF Drain, MessageOK, ringVars, driverVars, frontVars
<1>14. CASE PopAvail
  <2>1. Current \in Queues
    BY <1>14, TurnIs DEF PopAvail
  <2>2. vrings[Current] \in VringSlot /\ vrings[Current].vq \in Indices
    BY ZenonT(30), <1>14, <2>1 DEF PopAvail, VringSlot, ServesBuilt
  <2>3. Succ(vrings[Current].vq) \in Indices /\ Slot(vrings[Current].vq) \in Heads
    BY Zenon, <2>2, SuccIs, SlotIs
  <2>4. head' \in Heads
    BY <1>14, <2>1, <2>3 DEF PopAvail, HeadAt
  <2>5. vrings' \in [Queues -> VringSlot] /\ vrings'[Current].vq = Succ(vrings[Current].vq)
    BY ZenonT(30), <1>14, <2>1, <2>2, <2>3 DEF PopAvail, VringSlot
  <2> QED
    BY ZenonT(30), <1>14, <2>4, <2>5 DEF PopAvail, MessageOK, ringVars, driverVars, frontVars, bellVars
<1>15. CASE PushUsed
  <2>1. Current \in Queues
    BY ZenonT(30), <1>15, TurnIs DEF PushUsed
  <2>2. Slot(used_idx[Current]) \in Heads /\ Succ(used_idx[Current]) \in Indices
    BY Zenon, <2>1, SuccIs, SlotIs
  <2>3. RingTypeOK'
    <3>1. CASE WriteUsedElem(Current, head)
      <4>1. used_ring' = [used_ring EXCEPT ![Current][Slot(used_idx[Current])] = head]
        BY ZenonT(30), <3>1 DEF WriteUsedElem
      <4>2. used_ring' \in [Queues -> [Heads -> Heads]]
        BY <2>1, <2>2, <4>1, Update2
      <4> QED
        BY ZenonT(30), <1>15, <3>1, <4>2 DEF PushUsed, WriteUsedElem, driverVars
    <3>2. CASE AdvanceUsedIdx(Current)
      BY ZenonT(30), <1>15, <2>1, <2>2, <3>2 DEF PushUsed, AdvanceUsedIdx, driverVars
    <3> QED
      BY ZenonT(30), <1>15, <3>1, <3>2 DEF PushUsed
  <2> QED
    BY ZenonT(30), <1>15, <2>3 DEF PushUsed, MessageOK, frontVars, bellVars
<1>16. CASE FinishVring
  BY ZenonT(30), <1>16, TurnIs DEF FinishVring, ringVars, driverVars, frontVars
<1>17. CASE UNCHANGED vars
  BY ZenonT(30), <1>17 DEF vars, ringVars, driverVars, serverVars, frontVars, bellVars
<1> HIDE DEF Types, TypeOK, RingTypeOK
<1> QED
  BY <1>1, <1>2, <1>3, <1>4, <1>5, <1>6, <1>7, <1>8, <1>9, <1>10, <1>11,
     <1>12, <1>13, <1>14, <1>15, <1>16, <1>17
     DEF Next, Server, FrontEnd, Guest

\* Every step keeps the rings of the vring that is being served.
LEMMA NextServesBuilt == TypeInv /\ [Next]_vars => ServesBuilt'
<1> SUFFICES ASSUME Types, ServesBuilt, [Next]_vars  PROVE ServesBuilt'
  BY DEF TypeInv
<1>1. CASE UNCHANGED <<pc, kick_slots, vrings>>
  BY <1>1, TurnKept DEF ServesBuilt
<1>2. CASE Poll \/ HandleOneMessage \/ Disconnected \/ KicksDone \/ FinishVring
  BY Zenon, <1>2 DEF ServesBuilt, Poll, HandleOneMessage, Disconnected, KicksDone, FinishVring
<1>3. CASE Drain
  BY <1>3, TurnKept DEF ServesBuilt, Drain, BeginVring
<1>4. CASE PopAvail
  <2>1. Current \in Queues /\ Current' = Current
    BY <1>4, TurnIs, TurnKept DEF PopAvail, Types, TypeOK
  <2>2. vrings[Current] \in VringSlot /\ vrings[Current].vq \in Indices
    BY <1>4, <2>1 DEF PopAvail, VringSlot, ServesBuilt, Types, TypeOK
  <2>3. Succ(vrings[Current].vq) # Nil
    BY <2>2, SuccIs, ServerAssumption DEF Indices
  <2>4. vrings'[Current].vq = Succ(vrings[Current].vq)
    BY <1>4, <2>1, <2>2 DEF PopAvail, VringSlot, Types, TypeOK
  <2> QED
    BY <2>1, <2>3, <2>4 DEF ServesBuilt
<1>5. CASE PushUsed
  BY <1>5, TurnKept DEF ServesBuilt, PushUsed
<1>6. ASSUME NEW q \in Queues, Guest(q) \/ Send(q)
      PROVE  UNCHANGED <<pc, kick_slots, vrings>>
  BY Zenon, <1>6 DEF Guest, Submit, Kick, Interrupt, Reap, Send, serverVars
<1>7. CASE Stop \/ Restart \/ Close
  BY <1>1, <1>7 DEF Stop, Restart, Close, serverVars
<1>8. CASE UNCHANGED vars
  BY <1>1, <1>8 DEF vars, serverVars
<1> QED
  BY <1>1, <1>2, <1>3, <1>4, <1>5, <1>6, <1>7, <1>8 DEF Next, Server, FrontEnd

\* Every step keeps the types.
LEMMA NextTypeInv == TypeInv /\ [Next]_vars => TypeInv'
  BY NextTypes, NextServesBuilt DEF TypeInv

\* The state of the event loop, its sockets, rings and doorbells is always
\* well typed, and a vring is only served once its rings have been given.
THEOREM TypeCorrect == Spec => []TypeOK
<1>1. TypeInv => TypeOK
  BY DEF TypeInv, Types
<1> QED
  BY <1>1, InitTypeInv, NextTypeInv, PTL DEF Spec

\* The front-end starts by configuring each vring from 0, with its first
\* doorbell; nothing about a vring has been sent yet.
LEMMA InitConfigures ==
  ASSUME Init, NEW q \in Queues
  PROVE  /\ Configures(q, 1, 0, script[q])
         /\ \A i \in DOMAIN inbox : inbox[i].index # q
<1>1. 0 \in Indices /\ 1 \in 1 .. MaxStarts
  BY Sizes, ServerAssumption DEF Indices
<1>2. script[q] = Configure(q, 1, 0)
  BY DEF Init
<1>3. Configures(q, 1, 0, script[q])
  BY Zenon, <1>1, <1>2, ConfigureIs
<1>4. \A i \in DOMAIN inbox : inbox[i].index # q
  BY ServerAssumption, VirtqueueAssumption DEF Init, Message
<1> QED
  BY Zenon, <1>3, <1>4

\* A restart configures each vring from where it stood, with its next doorbell.
LEMMA RestartConfigures ==
  ASSUME Types, Restart, NEW q \in Queues
  PROVE  /\ starts' = starts + 1 /\ starts' \in 1 .. MaxStarts
         /\ bases[q] # Nil /\ bases'[q] = Nil /\ inbox' = inbox
         /\ Configures(q, starts', bases[q], script'[q])
<1>1. /\ starts' = starts + 1 /\ paused /\ bases[q] # Nil /\ bases'[q] = Nil
      /\ inbox' = inbox /\ script'[q] = Configure(q, starts + 1, bases[q])
  BY ZenonT(30) DEF Restart
<1>2. starts + 1 \in 1 .. MaxStarts /\ bases[q] \in Indices
  BY <1>1, ServerAssumption DEF Types, TypeOK
<1>3. Configures(q, starts + 1, bases[q], script'[q])
  BY Zenon, <1>1, <1>2, ConfigureIs
<1> QED
  BY Zenon, <1>1, <1>2, <1>3
-----------------------------------------------------------------------------
(***************************************************************************)
(* The order of the messages about a vring.                                *)
(***************************************************************************)
InOrder(q) ==
  /\ \A i, j \in DOMAIN inbox :
       i < j /\ inbox[i].index = q /\ inbox[j].index = q
         => MayFollow(inbox[i], inbox[j])
  /\ \A i \in DOMAIN inbox : \A k \in DOMAIN script[q] :
       inbox[i].index = q => MayFollow(inbox[i], script[q][k])
  /\ \A k, l \in DOMAIN script[q] :
       k < l => MayFollow(script[q][k], script[q][l])

\* The messages about a vring come in order, those that stop it are sent only
\* while the guest is paused, and nothing follows the one that asks where it
\* stands until the answer has been used.
OrderInv ==
  \A q \in Queues :
    /\ InOrder(q)
    /\ ~paused => \A m \in Pending(q) : SetsUp(m)
    /\ bases[q] # Nil => paused /\ Pending(q) = {}

\* Sending moves the first message of a script to the end of the inbox.
LEMMA SendMoves ==
  ASSUME Types, NEW q \in Queues, Send(q)
  PROVE  /\ 1 \in DOMAIN script[q] /\ script[q][1].index = q
         /\ Len(inbox) \in Nat
         /\ DOMAIN inbox = 1 .. Len(inbox) /\ DOMAIN inbox' = 1 .. (Len(inbox) + 1)
         /\ \A i \in DOMAIN inbox : inbox'[i] = inbox[i]
         /\ inbox'[Len(inbox) + 1] = script[q][1]
         /\ \A k \in DOMAIN script'[q] :
              k \in Nat /\ k + 1 \in DOMAIN script[q] /\ script'[q][k] = script[q][k + 1]
         /\ \A k \in DOMAIN script[q] :
              k # 1 => k - 1 \in DOMAIN script'[q] /\ script'[q][k - 1] = script[q][k]
         /\ \A r \in Queues : r # q => script'[r] = script[r]
<1>1. /\ script[q] \in Seq(Messages) /\ script[q] # <<>> /\ inbox \in Seq(Messages)
      /\ inbox' = Append(inbox, Head(script[q])) /\ script'[q] = Tail(script[q])
      /\ \A r \in Queues : r # q => script'[r] = script[r]
      /\ \A k \in DOMAIN script[q] : MessageOK(q, script[q][k])
  BY Zenon DEF Types, TypeOK, Send
<1>2. PICK s \in Seq(Messages) : s = script[q]
  BY <1>1
<1>3. /\ Len(s) \in Nat \ {0} /\ DOMAIN s = 1 .. Len(s)
      /\ Head(s) = s[1] /\ Head(s) \in Messages
      /\ DOMAIN Tail(s) = 1 .. (Len(s) - 1)
      /\ \A k \in 1 .. (Len(s) - 1) : Tail(s)[k] = s[k + 1]
  BY <1>1, <1>2, EmptySeq, LenProperties, HeadTailProperties
<1>4. /\ 1 \in DOMAIN s
      /\ \A k \in DOMAIN Tail(s) :
           k \in Nat /\ k + 1 \in DOMAIN s /\ Tail(s)[k] = s[k + 1]
      /\ \A k \in DOMAIN s : k # 1 => k - 1 \in DOMAIN Tail(s) /\ Tail(s)[k - 1] = s[k]
  <2>1. ASSUME NEW k \in DOMAIN s, k # 1
        PROVE  k - 1 \in DOMAIN Tail(s) /\ Tail(s)[k - 1] = s[k]
    <3>1. k - 1 \in 1 .. (Len(s) - 1) /\ (k - 1) + 1 = k
      BY <1>3, <2>1
    <3> QED
      BY <1>3, <3>1
  <2> QED
    BY <1>3, <2>1
<1>5. /\ Len(inbox) \in Nat /\ DOMAIN inbox = 1 .. Len(inbox)
      /\ DOMAIN inbox' = 1 .. (Len(inbox) + 1)
      /\ \A i \in 1 .. Len(inbox) : inbox'[i] = inbox[i]
      /\ inbox'[Len(inbox) + 1] = s[1]
  BY <1>1, <1>2, <1>3, LenProperties, AppendProperties
<1> QED
  BY ZenonT(30), <1>1, <1>2, <1>4, <1>5 DEF MessageOK

\* So it changes nobody's messages under way.
LEMMA SendPending ==
  ASSUME Types, NEW q \in Queues, Send(q), NEW p \in Queues
  PROVE  Pending(p)' = Pending(p)
<1>1. ASSUME NEW m \in Pending(p)  PROVE m \in Pending(p)'
  <2>1. ASSUME NEW i \in DOMAIN inbox, inbox[i].index = p, m = inbox[i]
        PROVE  m \in Pending(p)'
    BY <2>1, SendMoves DEF Pending
  <2>2. ASSUME NEW k \in DOMAIN script[p], m = script[p][k]
        PROVE  m \in Pending(p)'
    <3>1. CASE p # q
      BY <2>2, <3>1, SendMoves DEF Pending
    <3>2. CASE p = q /\ k # 1
      BY <2>2, <3>2, SendMoves DEF Pending
    <3>3. CASE p = q /\ k = 1
      <4>1. Len(inbox) + 1 \in DOMAIN inbox' /\ inbox'[Len(inbox) + 1] = m /\ m.index = p
        BY <2>2, <3>3, SendMoves
      <4> QED
        BY Zenon, <4>1 DEF Pending
    <3> QED
      BY ZenonT(30), <3>1, <3>2, <3>3
  <2> QED
    BY <2>1, <2>2 DEF Pending
<1>2. ASSUME NEW m \in Pending(p)'  PROVE m \in Pending(p)
  <2>1. ASSUME NEW i \in DOMAIN inbox', inbox'[i].index = p, m = inbox'[i]
        PROVE  m \in Pending(p)
    <3>1. CASE i \in DOMAIN inbox
      BY <2>1, <3>1, SendMoves DEF Pending
    <3>2. CASE i = Len(inbox) + 1
      BY <2>1, <3>2, SendMoves DEF Pending
    <3> QED
      BY <3>1, <3>2, SendMoves
  <2>2. ASSUME NEW k \in DOMAIN script'[p], m = script'[p][k]
        PROVE  m \in Pending(p)
    BY <2>2, SendMoves DEF Pending
  <2> QED
    BY Zenon, <2>1, <2>2 DEF Pending
<1> QED
  BY <1>1, <1>2

\* Handling a message takes the first one off the inbox.
LEMMA HandleTakes ==
  ASSUME Types, HandleOneMessage
  PROVE  /\ 1 \in DOMAIN inbox /\ Head(inbox) = inbox[1] /\ inbox[1] \in Messages
         /\ inbox[1].index \in Queues \cup {Nil}
         /\ \A i \in DOMAIN inbox' :
              i \in Nat /\ i + 1 \in DOMAIN inbox /\ inbox'[i] = inbox[i + 1]
         /\ \A i \in DOMAIN inbox :
              i # 1 => i - 1 \in DOMAIN inbox' /\ inbox'[i - 1] = inbox[i] /\ 1 < i
         /\ script' = script
<1>1. /\ inbox \in Seq(Messages) /\ inbox # <<>> /\ inbox' = Tail(inbox)
      /\ script' = script
  BY Zenon DEF Types, TypeOK, HandleOneMessage
<1>2. /\ Len(inbox) \in Nat \ {0} /\ DOMAIN inbox = 1 .. Len(inbox)
      /\ Head(inbox) = inbox[1] /\ Head(inbox) \in Messages
      /\ DOMAIN inbox' = 1 .. (Len(inbox) - 1)
      /\ \A i \in 1 .. (Len(inbox) - 1) : inbox'[i] = inbox[i + 1]
  BY <1>1, EmptySeq, LenProperties, HeadTailProperties
<1>3. ASSUME NEW i \in DOMAIN inbox, i # 1
      PROVE  i - 1 \in DOMAIN inbox' /\ inbox'[i - 1] = inbox[i] /\ 1 < i
  <2>1. i - 1 \in 1 .. (Len(inbox) - 1) /\ (i - 1) + 1 = i /\ 1 < i
    BY <1>2, <1>3
  <2> QED
    BY <1>2, <2>1
<1> QED
  BY <1>1, <1>2, <1>3 DEF Messages

\* So it takes that message from its vring, and the ones left may follow it.
LEMMA HandlePending ==
  ASSUME Types, OrderInv, HandleOneMessage, NEW q \in Queues
  PROVE  LET m == Head(inbox)
         IN /\ Pending(q)' \subseteq Pending(q)
            /\ m.index # q => Pending(q)' = Pending(q)
            /\ m.index = q => /\ m \in Pending(q)
                              /\ Pending(q) \subseteq Pending(q)' \cup {m}
                              /\ \A n \in Pending(q)' : MayFollow(m, n)
<1>1. Pending(q)' \subseteq Pending(q)
  BY HandleTakes DEF Pending
<1>2. Pending(q) \subseteq Pending(q)' \cup {inbox[1]}
  <2> SUFFICES ASSUME NEW m \in Pending(q), m # inbox[1]  PROVE m \in Pending(q)'
    OBVIOUS
  <2>1. ASSUME NEW i \in DOMAIN inbox, inbox[i].index = q, m = inbox[i]
        PROVE  m \in Pending(q)'
    BY <2>1, HandleTakes DEF Pending
  <2>2. ASSUME NEW k \in DOMAIN script[q], m = script[q][k]
        PROVE  m \in Pending(q)'
    BY Zenon, <2>2, HandleTakes DEF Pending
  <2> QED
    BY Zenon, <2>1, <2>2 DEF Pending
<1>3. ASSUME inbox[1].index # q  PROVE Pending(q) \subseteq Pending(q)'
  <2> SUFFICES ASSUME NEW m \in Pending(q)  PROVE m \in Pending(q)'
    OBVIOUS
  <2>1. ASSUME NEW i \in DOMAIN inbox, inbox[i].index = q, m = inbox[i]
        PROVE  m \in Pending(q)'
    BY Zenon, <1>3, <2>1, HandleTakes DEF Pending
  <2>2. ASSUME NEW k \in DOMAIN script[q], m = script[q][k]
        PROVE  m \in Pending(q)'
    BY Zenon, <2>2, HandleTakes DEF Pending
  <2> QED
    BY Zenon, <2>1, <2>2 DEF Pending
<1>4. ASSUME inbox[1].index = q
      PROVE  inbox[1] \in Pending(q) /\ \A n \in Pending(q)' : MayFollow(inbox[1], n)
  <2>1. inbox[1] \in Pending(q)
    BY <1>4, HandleTakes DEF Pending
  <2>2. ASSUME NEW n \in Pending(q)'  PROVE MayFollow(inbox[1], n)
    <3>1. ASSUME NEW i \in DOMAIN inbox', inbox'[i].index = q, n = inbox'[i]
          PROVE  MayFollow(inbox[1], n)
      <4>1. i + 1 \in DOMAIN inbox /\ n = inbox[i + 1] /\ 1 < i + 1 /\ 1 \in DOMAIN inbox
        <5>1. i \in Nat /\ 1 \in DOMAIN inbox /\ i + 1 \in DOMAIN inbox /\ n = inbox[i + 1]
          BY Zenon, <3>1, HandleTakes
        <5>2. i # 0
          <6>1. inbox' \in Seq(Messages)
            BY ZenonT(30), HeadTailProperties DEF HandleOneMessage, Types, TypeOK
          <6> QED
            BY <6>1, LenProperties
        <5> QED
          BY <5>1, <5>2
      <4> QED
        BY Zenon, <1>4, <3>1, <4>1 DEF OrderInv, InOrder
    <3>2. ASSUME NEW k \in DOMAIN script'[q], n = script'[q][k]
          PROVE  MayFollow(inbox[1], n)
      BY Zenon, <1>4, <3>2, HandleTakes DEF OrderInv, InOrder
    <3> QED
      BY ZenonT(30), <3>1, <3>2 DEF Pending
  <2> QED
    BY <2>1, <2>2
<1> QED
  BY ZenonT(30), <1>1, <1>2, <1>3, <1>4, HandleTakes

\* Before anything is sent, a script holds what configures its vring.
LEMMA InitOrderInv == Init => OrderInv
<1> SUFFICES ASSUME Init, NEW q \in Queues
             PROVE  /\ InOrder(q)
                    /\ ~paused => \A m \in Pending(q) : SetsUp(m)
                    /\ bases[q] # Nil => paused /\ Pending(q) = {}
  BY DEF OrderInv
<1>1. /\ Configures(q, 1, 0, script[q])
      /\ \A i \in DOMAIN inbox : inbox[i].index # q
  BY ZenonT(30), InitConfigures
<1>2. InOrder(q)
  BY ZenonT(30), <1>1 DEF InOrder, Configures
<1>3. \A m \in Pending(q) : SetsUp(m)
  BY Zenon, <1>1 DEF Pending, Configures
<1> QED
  BY Zenon, <1>2, <1>3 DEF Init

\* Every step keeps the messages in order.
LEMMA NextOrderInv == Types /\ OrderInv /\ [Next]_vars => OrderInv'
<1> SUFFICES ASSUME Types, OrderInv, [Next]_vars  PROVE OrderInv'
  BY ZenonT(30)
<1>1. CASE UNCHANGED <<inbox, script, bases, paused>>
  BY <1>1 DEF OrderInv, InOrder, Pending
<1>2. ASSUME NEW q \in Queues, Send(q)
      PROVE  OrderInv'
  <2>1. UNCHANGED <<bases, paused>>
    BY ZenonT(30), <1>2 DEF Send
  <2>2. ASSUME NEW p \in Queues  PROVE InOrder(p)'
    <3>1. InOrder(p) /\ InOrder(q)
      BY DEF OrderInv
    <3>2. ASSUME NEW i \in DOMAIN inbox', NEW j \in DOMAIN inbox', i < j,
                 inbox'[i].index = p, inbox'[j].index = p
          PROVE  MayFollow(inbox'[i], inbox'[j])
      <4>1. i \in DOMAIN inbox /\ inbox'[i] = inbox[i]
        BY <1>2, <3>2, SendMoves
      <4>2. CASE j \in DOMAIN inbox
        BY ZenonT(30), <1>2, <3>1, <3>2, <4>1, <4>2, SendMoves DEF InOrder
      <4>3. CASE j = Len(inbox) + 1
        <5>1. p = q /\ 1 \in DOMAIN script[q] /\ inbox'[j] = script[q][1]
          BY ZenonT(30), <1>2, <3>2, <4>3, SendMoves
        <5> QED
          BY Zenon, <3>1, <3>2, <4>1, <5>1 DEF InOrder
      <4> QED
        BY <1>2, <4>2, <4>3, SendMoves
    <3>3. ASSUME NEW i \in DOMAIN inbox', NEW k \in DOMAIN script'[p],
                 inbox'[i].index = p
          PROVE  MayFollow(inbox'[i], script'[p][k])
      <4>1. CASE p # q
        <5>1. i \in DOMAIN inbox /\ inbox'[i] = inbox[i] /\ script'[p] = script[p]
          BY <1>2, <3>3, <4>1, SendMoves
        <5> QED
          BY ZenonT(30), <3>1, <3>3, <5>1 DEF InOrder
      <4>2. CASE p = q
        <5>1. k + 1 \in DOMAIN script[q] /\ script'[q][k] = script[q][k + 1]
          BY ZenonT(30), <1>2, <4>2, SendMoves
        <5>2. CASE i \in DOMAIN inbox
          BY <1>2, <3>1, <3>3, <4>2, <5>1, <5>2, SendMoves DEF InOrder
        <5>3. CASE i = Len(inbox) + 1
          <6>1. inbox'[i] = script[q][1] /\ 1 \in DOMAIN script[q]
            BY Zenon, <1>2, <5>3, SendMoves
          <6>2. 1 < k + 1
            <7>1. script'[q] \in Seq(Messages)
              BY Zenon, <1>2, HeadTailProperties DEF Send, Types, TypeOK
            <7> QED
              BY <4>2, <7>1, LenProperties
          <6> QED
            BY ZenonT(30), <3>1, <4>2, <5>1, <6>1, <6>2 DEF InOrder
        <5> QED
          BY <1>2, <5>2, <5>3, SendMoves
      <4> QED
        BY ZenonT(30), <4>1, <4>2
    <3>4. ASSUME NEW k \in DOMAIN script'[p], NEW l \in DOMAIN script'[p], k < l
          PROVE  MayFollow(script'[p][k], script'[p][l])
      <4>1. CASE p # q
        BY ZenonT(30), <1>2, <3>1, <3>4, <4>1, SendMoves DEF InOrder
      <4>2. CASE p = q
        <5>1. /\ k \in Nat /\ k + 1 \in DOMAIN script[q] /\ script'[q][k] = script[q][k + 1]
              /\ l \in Nat /\ l + 1 \in DOMAIN script[q] /\ script'[q][l] = script[q][l + 1]
          BY Zenon, <1>2, <4>2, SendMoves
        <5>2. k + 1 < l + 1
          BY <3>4, <5>1
        <5> QED
          BY ZenonT(30), <3>1, <4>2, <5>1, <5>2 DEF InOrder
      <4> QED
        BY ZenonT(30), <4>1, <4>2
    <3> QED
      BY Zenon, <3>2, <3>3, <3>4 DEF InOrder
  <2>3. \A p \in Queues : Pending(p)' = Pending(p)
    BY <1>2, SendPending
  <2> QED
    BY <2>1, <2>2, <2>3 DEF OrderInv
<1>3. CASE Stop
  <2> SUFFICES ASSUME NEW q \in Queues
               PROVE  InOrder(q)' /\ bases'[q] = Nil /\ paused'
    BY Zenon DEF OrderInv
  <2>1. /\ ~paused /\ paused' /\ inbox' = inbox /\ bases' = bases
        /\ script'[q] = <<Message("SET_VRING_ENABLE", q, 0), Message("GET_VRING_BASE", q, 0)>>
    BY ZenonT(30), <1>3 DEF Stop
  <2>2. bases[q] = Nil /\ \A m \in Pending(q) : SetsUp(m)
    BY Zenon, <2>1 DEF OrderInv
  <2>3. \A i \in DOMAIN inbox : inbox[i].index = q => SetsUp(inbox[i])
    BY ZenonT(30), <2>2 DEF Pending
  <2>4. /\ DOMAIN script'[q] = {1, 2}
        /\ Off(script'[q][1]) /\ Asks(script'[q][2])
        /\ ~SetsUp(script'[q][1]) /\ ~SetsUp(script'[q][2])
        /\ ~Asks(script'[q][1]) /\ ~On(script'[q][1])
    BY <2>1 DEF Message, Off, Asks, SetsUp, On
  <2>5. InOrder(q)
    BY ZenonT(30) DEF OrderInv
  <2>6. InOrder(q)'
    <3>1. \A i \in DOMAIN inbox' : \A k \in DOMAIN script'[q] :
            inbox'[i].index = q => MayFollow(inbox'[i], script'[q][k])
      BY ZenonT(30), <2>1, <2>3, <2>4 DEF MayFollow, SetsUp
    <3>2. \A k, l \in DOMAIN script'[q] :
            k < l => MayFollow(script'[q][k], script'[q][l])
      BY <2>4 DEF MayFollow
    <3> QED
      BY ZenonT(30), <2>1, <2>5, <3>1, <3>2 DEF InOrder
  <2> QED
    BY ZenonT(30), <2>1, <2>2, <2>6
<1>4. CASE Restart
  <2> SUFFICES ASSUME NEW q \in Queues
               PROVE  InOrder(q)' /\ bases'[q] = Nil /\ \A m \in Pending(q)' : SetsUp(m)
    BY ZenonT(30) DEF OrderInv
  <2>1. /\ bases[q] # Nil /\ inbox' = inbox /\ bases'[q] = Nil
        /\ Configures(q, starts', bases[q], script'[q])
    BY Zenon, <1>4, RestartConfigures
  <2>2. \A i \in DOMAIN inbox : inbox[i].index # q
    BY ZenonT(30), <2>1 DEF OrderInv, Pending
  <2>3. InOrder(q)'
    BY ZenonT(30), <2>1, <2>2 DEF InOrder, Configures
  <2>4. \A m \in Pending(q)' : SetsUp(m)
    BY Zenon, <2>1, <2>2 DEF Pending, Configures
  <2> QED
    BY ZenonT(30), <2>1, <2>3, <2>4
<1>5. CASE HandleOneMessage
  <2> SUFFICES ASSUME NEW q \in Queues
               PROVE  /\ InOrder(q)'
                      /\ ~paused' => \A m \in Pending(q)' : SetsUp(m)
                      /\ bases'[q] # Nil => paused' /\ Pending(q)' = {}
    BY Zenon DEF OrderInv
  <2> DEFINE m == Head(inbox)
  <2>1. paused' = paused
    BY Zenon, <1>5 DEF HandleOneMessage
  <2>2. InOrder(q) /\ (~paused => \A n \in Pending(q) : SetsUp(n))
                   /\ (bases[q] # Nil => paused /\ Pending(q) = {})
    BY ZenonT(30) DEF OrderInv
  <2>3. InOrder(q)'
    <3>1. ASSUME NEW i \in DOMAIN inbox', NEW j \in DOMAIN inbox', i < j,
                 inbox'[i].index = q, inbox'[j].index = q
          PROVE  MayFollow(inbox'[i], inbox'[j])
      <4>1. /\ i \in Nat /\ i + 1 \in DOMAIN inbox /\ inbox'[i] = inbox[i + 1]
            /\ j \in Nat /\ j + 1 \in DOMAIN inbox /\ inbox'[j] = inbox[j + 1]
        BY Zenon, <1>5, HandleTakes
      <4>2. i + 1 < j + 1
        BY <3>1, <4>1
      <4> QED
        BY ZenonT(30), <2>2, <3>1, <4>1, <4>2 DEF InOrder
    <3>2. ASSUME NEW i \in DOMAIN inbox', NEW k \in DOMAIN script'[q],
                 inbox'[i].index = q
          PROVE  MayFollow(inbox'[i], script'[q][k])
      BY ZenonT(30), <1>5, <2>2, <3>2, HandleTakes DEF InOrder
    <3> QED
      BY Zenon, <1>5, <2>2, <3>1, <3>2, HandleTakes DEF InOrder
  <2>4. /\ Pending(q)' \subseteq Pending(q)
        /\ m.index = q => m \in Pending(q) /\ \A n \in Pending(q)' : MayFollow(m, n)
    BY ZenonT(30), <1>5, HandlePending
  <2>5. CASE m.req = "GET_VRING_BASE" /\ m.index = q
    <3>1. Pending(q)' = {}
      BY ZenonT(30), <2>4, <2>5 DEF MayFollow, Asks
    <3>2. paused
      BY ZenonT(30), <2>2, <2>4, <2>5 DEF SetsUp, Asks
    <3> QED
      BY ZenonT(30), <2>1, <2>3, <3>1, <3>2
  <2>6. CASE ~(m.req = "GET_VRING_BASE" /\ m.index = q)
    <3>1. bases'[q] = bases[q]
      BY Zenon, <1>5, <2>6 DEF HandleOneMessage, Types, TypeOK
    <3> QED
      BY ZenonT(30), <2>1, <2>2, <2>3, <2>4, <3>1
  <2> QED
    BY ZenonT(30), <2>5, <2>6
<1>6. ASSUME NEW q \in Queues, Guest(q)
      PROVE  UNCHANGED <<inbox, script, bases, paused>>
  BY ZenonT(30), <1>6 DEF Guest, Submit, Kick, Interrupt, Reap, frontVars
<1>7. CASE Close \/ Poll \/ Disconnected \/ KicksDone \/ Drain
  BY Zenon, <1>1, <1>7 DEF Close, Poll, Disconnected, KicksDone, Drain, frontVars
<1>8. CASE PopAvail \/ PushUsed \/ FinishVring
  BY <1>1, <1>8 DEF PopAvail, PushUsed, FinishVring, frontVars
<1>9. CASE UNCHANGED vars
  BY <1>1, <1>9 DEF vars, frontVars
<1> QED
  BY <1>1, <1>2, <1>3, <1>4, <1>5, <1>6, <1>7, <1>8, <1>9 DEF Next, Server, FrontEnd
-----------------------------------------------------------------------------
(***************************************************************************)
(* Where each vring stands.                                                *)
(***************************************************************************)

\* Nothing can serve vring q before it is enabled again.
Idle(q) == ~vrings[q].enabled /\ \A s \in kick_slots : s[1] # q

\* A request of vring q has been popped and is not yet published.
Midway(q) == pc \in {"push", "publish"} /\ Current = q

\* A vring that is being set up is idle, the base on its way to it is where
\* it stands, and once the base has arrived the server knows it.
VringInv(q) ==
  /\ \A m \in Pending(q) :
       /\ SetsUp(m) => Idle(q)
       /\ m.req = "SET_VRING_BASE" => m.num = used_idx[q]
  /\ Has(q, "GET_VRING_BASE") =>
       \/ \E m \in Pending(q) : Off(m)
       \/ ~vrings[q].enabled /\ \A m \in Pending(q) : Asks(m)
  /\ bases[q] # Nil => Idle(q) /\ bases[q] = used_idx[q]
  /\ ~Has(q, "SET_VRING_BASE") /\ Has(q, "SET_VRING_ADDR")
       => vrings[q].pending_avail_base = used_idx[q]
  /\ ~Has(q, "SET_VRING_BASE") /\ vrings[q].vq # Nil
       => vrings[q].vq = IF Midway(q) THEN Succ(used_idx[q]) ELSE used_idx[q]
  /\ vrings[q].vq = Nil => used_idx[q] = 0

\* A vring is only polled while it is enabled, and the message that the loop
\* handles before it serves a vring is the only one that can disable it.
LoopInv ==
  /\ pc = "poll" => kick_slots = {}
  /\ pc = "message" => \A s \in kick_slots : vrings[s[1]].enabled

ServeInv == LoopInv /\ \A q \in Queues : VringInv(q)

\* A vring that is being served has no message under way that sets it up, so
\* it has been consumed exactly as far as its replies go.
LEMMA Served ==
  ASSUME Types, ServeInv, kick_slots # {}
  PROVE  /\ Current \in Queues /\ bases[Current] = Nil
         /\ \A m \in Pending(Current) : ~SetsUp(m)
         /\ ~Has(Current, "SET_VRING_BASE") /\ ~Has(Current, "SET_VRING_ADDR")
<1>1. Current \in Queues /\ Turn \in kick_slots /\ Turn[1] = Current
  BY Zenon, TurnIs DEF Types, TypeOK, Current
<1>2. ~Idle(Current)
  BY <1>1 DEF Idle
<1>3. VringInv(Current)
  BY <1>1 DEF ServeInv
<1> QED
  BY ZenonT(30), <1>1, <1>2, <1>3 DEF VringInv, Has, SetsUp, Off, Asks

\* At the start nothing has been served and every base is zero.
LEMMA InitServeInv == Init => ServeInv
<1> SUFFICES ASSUME Init  PROVE ServeInv
  OBVIOUS
<1>1. LoopInv
  BY Zenon DEF Init, LoopInv
<1>2. ASSUME NEW q \in Queues  PROVE VringInv(q)
  <2>1. /\ Configures(q, 1, 0, script[q])
        /\ \A i \in DOMAIN inbox : inbox[i].index # q
    BY Zenon, InitConfigures
  <2>2. /\ \A m \in Pending(q) : SetsUp(m) /\ (m.req = "SET_VRING_BASE" => m.num = 0)
        /\ Has(q, "SET_VRING_BASE")
    BY ZenonT(30), <2>1 DEF Pending, Has, Configures
  <2>3. ~Has(q, "GET_VRING_BASE")
    BY ZenonT(30), <2>2 DEF Has, SetsUp, Asks
  <2>4. Idle(q) /\ used_idx[q] = 0 /\ bases[q] = Nil /\ vrings[q].vq = Nil
    BY Zenon DEF Init, RingInit, Idle
  <2> QED
    BY ZenonT(30), <2>2, <2>3, <2>4 DEF VringInv
<1> QED
  BY <1>1, <1>2 DEF ServeInv

\* What a step leaves alone when it is about something else.
LEMMA VringKept ==
  ASSUME NEW q \in Queues, VringInv(q), Pending(q)' = Pending(q),
         bases'[q] = bases[q], used_idx'[q] = used_idx[q],
         vrings'[q] = vrings[q],
         Idle(q) => Idle(q)', Midway(q)' <=> Midway(q)
  PROVE  VringInv(q)'
<1>1. \A req : Has(q, req)' <=> Has(q, req)
  BY ZenonT(30) DEF Has
<1> QED
  BY ZenonT(30), <1>1 DEF VringInv

\* Handling a message keeps the vring it is about where it stands.
LEMMA HandleVringInv ==
  ASSUME TypeInv, OrderInv, ServeInv, HandleOneMessage, NEW q \in Queues
  PROVE  VringInv(q)'
<1> DEFINE m == Head(inbox)
           slot == vrings[q]
<1>1. /\ pc = "message" /\ used_idx' = used_idx /\ kick_slots' = kick_slots
      /\ pc' \in {"exited", "kicks"}
      /\ vrings'[q] = IF q = m.index THEN Configured(slot, m) ELSE slot
      /\ bases'[q] = IF m.req = "GET_VRING_BASE" /\ m.index = q
                     THEN AvailBase(slot) ELSE bases[q]
  BY Zenon DEF HandleOneMessage, ringVars, TypeInv, Types, TypeOK
<1>2. ~Midway(q) /\ ~Midway(q)'
  BY ZenonT(30), <1>1 DEF Midway
<1>3. VringInv(q) /\ slot \in VringSlot /\ (slot.enabled \/ \A s \in kick_slots : s[1] # q)
  BY ZenonT(30), <1>1 DEF ServeInv, LoopInv, TypeInv, Types, TypeOK
<1>4. CASE m.index # q
  <2>1. Pending(q)' = Pending(q)
    BY ZenonT(30), <1>4, HandlePending DEF TypeInv
  <2>2. vrings'[q] = slot /\ bases'[q] = bases[q]
    BY ZenonT(30), <1>1, <1>4
  <2>3. Idle(q) => Idle(q)'
    BY ZenonT(30), <1>1, <2>2 DEF Idle
  <2> QED
    BY ZenonT(30), <1>1, <1>2, <1>3, <2>1, <2>2, <2>3, VringKept
<1>5. CASE m.index = q
  <2>1. /\ Pending(q)' \subseteq Pending(q) /\ m \in Pending(q)
        /\ Pending(q) \subseteq Pending(q)' \cup {m}
        /\ \A n \in Pending(q)' : MayFollow(m, n)
    BY ZenonT(30), <1>5, HandlePending DEF TypeInv
  <2>2. MessageOK(q, m) /\ m \in Messages
    <3>1. m = inbox[1] /\ 1 \in DOMAIN inbox /\ m \in Messages
      BY ZenonT(30), HandleTakes DEF TypeInv
    <3> QED
      BY ZenonT(30), <1>5, <3>1, ServerAssumption, VirtqueueAssumption DEF TypeInv, Types
  <2>3. vrings'[q] = Configured(slot, m)
    BY Zenon, <1>1, <1>5
  <2> HIDE DEF m, slot
  <2>4. CASE m.req = "GET_VRING_BASE"
    <3>1. Pending(q)' = {}
      BY <2>1, <2>4 DEF MayFollow, Asks
    <3>2. vrings'[q] = slot
      BY ZenonT(30), <2>3, <2>4 DEF Configured
    <3>3. ~Has(q, "SET_VRING_BASE") /\ ~slot.enabled
      <4>1. Pending(q) = {m}
        BY <2>1, <3>1
      <4>2. Has(q, "GET_VRING_BASE")
        BY <2>1, <2>4 DEF Has
      <4> QED
        BY ZenonT(30), <1>3, <2>4, <4>1, <4>2 DEF VringInv, Has, Off, slot
    <3>4. AvailBase(slot) = used_idx[q]
      BY ZenonT(30), <1>2, <1>3, <3>3 DEF VringInv, AvailBase, slot
    <3>5. Idle(q)'
      BY Zenon, <1>1, <1>3, <3>2, <3>3 DEF Idle
    <3>6. \A req : ~Has(q, req)'
      BY <3>1 DEF Has
    <3>7. bases'[q] = used_idx'[q]
      BY ZenonT(30), <1>1, <1>5, <2>4, <3>4
    <3>8. /\ slot.vq # Nil => slot.vq = used_idx[q]
          /\ slot.vq = Nil => used_idx[q] = 0
      BY ZenonT(30), <1>2, <1>3, <3>3 DEF VringInv, slot
    <3> QED
      BY ZenonT(30), <1>1, <1>2, <3>1, <3>2, <3>5, <3>6, <3>7, <3>8 DEF VringInv
  <2>5. CASE Off(m)
    <3>1. \A n \in Pending(q)' : Asks(n)
      BY <2>1, <2>5 DEF MayFollow
    <3>2. /\ vrings'[q].enabled = FALSE /\ vrings'[q].vq = slot.vq
          /\ vrings'[q].pending_avail_base = slot.pending_avail_base
      BY ZenonT(30), <1>3, <2>3, <2>5 DEF Configured, Off, VringSlot
    <3>3. bases'[q] = bases[q]
      BY Zenon, <1>1, <2>5 DEF Off
    <3>4. bases[q] = Nil
      BY <2>1 DEF OrderInv
    <3>5. ~Has(q, "SET_VRING_BASE")
      BY <2>1, <2>5, <3>1 DEF Has, Off, Asks
    <3>6. ~Has(q, "SET_VRING_ADDR")' /\ \A n \in Pending(q)' : ~SetsUp(n) /\ n.req # "SET_VRING_BASE"
      BY <3>1 DEF Has, Asks, SetsUp
    <3>7. /\ slot.vq # Nil => slot.vq = used_idx[q]
          /\ slot.vq = Nil => used_idx[q] = 0
      BY ZenonT(30), <1>2, <1>3, <3>5 DEF VringInv, slot
    <3> QED
      BY ZenonT(30), <1>1, <1>2, <3>1, <3>2, <3>3, <3>4, <3>6, <3>7 DEF VringInv
  <2>6. CASE SetsUp(m)
    <3>1. Idle(q) /\ bases[q] = Nil /\ bases'[q] = bases[q]
      BY ZenonT(30), <1>1, <1>3, <2>1, <2>6 DEF VringInv, OrderInv, SetsUp, Asks
    <3>2. /\ \A n \in Pending(q)' : n.req = "SET_VRING_BASE" => n.num = used_idx[q]
          /\ m.req = "SET_VRING_BASE" => m.num = used_idx[q]
      BY ZenonT(30), <1>3, <2>1 DEF VringInv
    <3>3. Has(q, "GET_VRING_BASE")' => \E n \in Pending(q)' : Off(n)
      <4>1. Has(q, "GET_VRING_BASE")' => Has(q, "GET_VRING_BASE")
        BY <2>1 DEF Has
      <4>2. Has(q, "GET_VRING_BASE") => \E n \in Pending(q) : Off(n)
        BY ZenonT(30), <1>3, <2>1, <2>6 DEF VringInv, SetsUp
      <4> QED
        BY <2>1, <2>6, <4>1, <4>2 DEF SetsUp
    <3>4. \A req : Has(q, req)' => Has(q, req)
      BY <2>1 DEF Has
    <3>5. \A req : Has(q, req) => Has(q, req)' \/ m.req = req
      BY <2>1 DEF Has
    <3>6. /\ ~Has(q, "SET_VRING_BASE") /\ Has(q, "SET_VRING_ADDR")
               => slot.pending_avail_base = used_idx[q]
          /\ ~Has(q, "SET_VRING_BASE") /\ slot.vq # Nil => slot.vq = used_idx[q]
          /\ slot.vq = Nil => used_idx[q] = 0
      BY ZenonT(30), <1>2, <1>3 DEF VringInv, slot
    <3>7. CASE m.req = "SET_VRING_ENABLE"
      <4>1. m.num # 0 /\ On(m)
        BY <2>6, <3>7 DEF SetsUp, Off, On
      <4>2. \A n \in Pending(q)' : ~SetsUp(n)
        BY <2>1, <4>1 DEF MayFollow
      <4>3. ~Has(q, "SET_VRING_BASE") /\ ~Has(q, "SET_VRING_BASE")' /\ ~Has(q, "SET_VRING_ADDR")'
        BY <3>4, <3>5, <3>7, <4>2 DEF Has, SetsUp, Off, Asks
      <4>4. vrings'[q].vq = slot.vq
        BY <1>3, <2>3, <3>7 DEF Configured, VringSlot
      <4> QED
        BY ZenonT(30), <1>1, <1>2, <3>1, <3>2, <3>3, <3>6, <4>2, <4>3, <4>4 DEF VringInv
    <3>8. CASE m.req # "SET_VRING_ENABLE"
      <4>1. vrings'[q].enabled = slot.enabled
        BY <1>3, <2>3, <3>8 DEF Configured, VringSlot, MaybeBuild, SetBase
      <4>2. Idle(q)'
        BY ZenonT(30), <1>1, <3>1, <4>1 DEF Idle, slot
      <4>3. ~Has(q, "SET_VRING_BASE")' /\ Has(q, "SET_VRING_ADDR")'
              => vrings'[q].pending_avail_base = used_idx[q]
        <5>1. CASE m.req = "SET_VRING_BASE"
          BY ZenonT(30), <1>3, <2>3, <3>2, <5>1 DEF Configured, SetBase, VringSlot
        <5>2. CASE m.req # "SET_VRING_BASE"
          BY ZenonT(30), <1>3, <2>3, <3>4, <3>5, <3>6, <5>2 DEF Configured, MaybeBuild, VringSlot
        <5> QED
          BY <5>1, <5>2
      <4>4. ~Has(q, "SET_VRING_BASE")' /\ vrings'[q].vq # Nil
              => vrings'[q].vq = used_idx[q]
        <5>1. CASE m.req = "SET_VRING_BASE"
          BY ZenonT(30), <1>3, <2>3, <3>2, <5>1 DEF Configured, SetBase, VringSlot
        <5>2. CASE m.req = "SET_VRING_ADDR"
          <6>1. Has(q, "SET_VRING_ADDR")
            BY <2>1, <5>2 DEF Has
          <6>2. ~Has(q, "SET_VRING_BASE")' => ~Has(q, "SET_VRING_BASE")
            BY <3>5, <5>2
          <6> QED
            BY ZenonT(30), <1>3, <2>3, <3>6, <5>2, <6>1, <6>2 DEF Configured, MaybeBuild, VringSlot
        <5>3. CASE m.req \notin {"SET_VRING_BASE", "SET_VRING_ADDR"}
          BY ZenonT(30), <1>3, <2>3, <3>5, <3>6, <5>3 DEF Configured, VringSlot
        <5> QED
          BY Zenon, <5>1, <5>2, <5>3
      <4>5. vrings'[q].vq = Nil => used_idx[q] = 0
        <5>1. vrings'[q].vq = Nil => slot.vq = Nil
          <6>1. slot.pending_avail_base # Nil /\ (m.req = "SET_VRING_BASE" => m.num # Nil)
            BY <1>3, <2>2, ServerAssumption DEF VringSlot, Indices, MessageOK
          <6> QED
            BY ZenonT(30), <1>3, <2>3, <6>1 DEF Configured, VringSlot, MaybeBuild, SetBase
        <5> QED
          BY <3>6, <5>1
      <4> QED
        BY ZenonT(30), <1>1, <1>2, <3>1, <3>2, <3>3, <4>2, <4>3, <4>4, <4>5 DEF VringInv
    <3> QED
      BY <3>7, <3>8
  <2> QED
    BY ZenonT(30), <2>4, <2>5, <2>6 DEF SetsUp, Asks
<1> QED
  BY ZenonT(30), <1>4, <1>5

\* Only enabled vrings poll readable.
LEMMA PollIs ==
  ASSUME Poll
  PROVE  /\ pc = "poll" /\ pc' \in {"message", "kicks"}
         /\ UNCHANGED <<vrings, used_idx, bases, inbox, script>>
         /\ \A s \in kick_slots' : vrings[s[1]].enabled
<1>1. /\ pc = "poll" /\ pc' \in {"message", "kicks"}
      /\ UNCHANGED <<vrings, used_idx, bases, inbox, script>>
  BY Zenon DEF Poll, ringVars, frontVars
<1>2. \A s \in kick_slots' : vrings[s[1]].enabled
  BY DEF Poll, Readable
<1> QED
  BY Zenon, <1>1, <1>2

\* Every step keeps the loop and the vrings where they should stand.
LEMMA NextServeInv ==
  TypeInv /\ OrderInv /\ ServeInv /\ [Next]_vars => ServeInv'
<1> SUFFICES ASSUME TypeInv, OrderInv, ServeInv, [Next]_vars  PROVE ServeInv'
  OBVIOUS
<1>t. Types
  BY DEF TypeInv
<1>p. ASSUME UNCHANGED <<inbox, script>>  PROVE \A q \in Queues : Pending(q)' = Pending(q)
  BY <1>p DEF Pending
<1>1. ASSUME UNCHANGED <<pc, kick_slots, vrings, used_idx, bases>>,
             \A q \in Queues : Pending(q)' = Pending(q)
      PROVE  ServeInv'
  <2>1. LoopInv'
    BY ZenonT(30), <1>1 DEF ServeInv, LoopInv
  <2>2. ASSUME NEW q \in Queues  PROVE VringInv(q)'
    <3>1. (Idle(q) => Idle(q)') /\ (Midway(q)' <=> Midway(q))
      BY Zenon, <1>1, TurnKept DEF Idle, Midway
    <3>2. VringInv(q)
      BY ZenonT(30) DEF ServeInv
    <3> QED
      BY ZenonT(30), <1>1, <3>1, <3>2, VringKept
  <2> QED
    BY ZenonT(30), <2>1, <2>2 DEF ServeInv
<1>2. ASSUME NEW q \in Queues, Guest(q)
      PROVE  UNCHANGED <<pc, kick_slots, vrings, used_idx, bases, inbox, script>>
  BY ZenonT(30), <1>2 DEF Guest, Submit, Kick, Interrupt, Reap, AddAvail, ReadUsed, ringVars,
              serverVars, frontVars
<1>3. ASSUME NEW q \in Queues, Send(q)
      PROVE  ServeInv'
  <2>1. UNCHANGED <<pc, kick_slots, vrings, used_idx, bases>>
    BY <1>3 DEF Send, ringVars, serverVars
  <2>2. \A p \in Queues : Pending(p)' = Pending(p)
    BY ZenonT(30), <1>3, <1>t, SendPending
  <2> QED
    BY <1>1, <2>1, <2>2
<1>4. CASE Stop
  <2>1. UNCHANGED <<pc, kick_slots, vrings, used_idx, bases, inbox>>
    BY ZenonT(30), <1>4 DEF Stop, ringVars, serverVars
  <2>2. LoopInv'
    BY Zenon, <2>1 DEF ServeInv, LoopInv
  <2>3. ASSUME NEW q \in Queues  PROVE VringInv(q)'
    <3>1. VringInv(q) /\ bases[q] = Nil
      BY ZenonT(30), <1>4 DEF ServeInv, OrderInv, Stop
    <3>2. (Idle(q) => Idle(q)') /\ (Midway(q)' <=> Midway(q))
      BY ZenonT(30), <2>1, TurnKept DEF Idle, Midway
    <3>3. /\ script[q] = <<>>
          /\ script'[q] = <<Message("SET_VRING_ENABLE", q, 0), Message("GET_VRING_BASE", q, 0)>>
      BY Zenon, <1>4 DEF Stop
    <3>4. PICK off, ask :
            /\ Off(off) /\ ask.req = "GET_VRING_BASE" /\ off.req = "SET_VRING_ENABLE"
            /\ Pending(q)' = Pending(q) \cup {off, ask}
      <4>1. {script[q][k] : k \in DOMAIN script[q]} = {}
        BY <3>3
      <4>2. {script'[q][k] : k \in DOMAIN script'[q]}
              = {Message("SET_VRING_ENABLE", q, 0), Message("GET_VRING_BASE", q, 0)}
        BY <3>3
      <4>3. Pending(q)' = Pending(q)
              \cup {Message("SET_VRING_ENABLE", q, 0), Message("GET_VRING_BASE", q, 0)}
        BY ZenonT(30), <2>1, <4>1, <4>2 DEF Pending
      <4> QED
        BY ZenonT(30), <4>3 DEF Message, Off
    <3>5. /\ \A m \in Pending(q)' : SetsUp(m) \/ m.req = "SET_VRING_BASE" => m \in Pending(q)
          /\ \E m \in Pending(q)' : Off(m)
      BY <3>4 DEF SetsUp, Asks
    <3>6. \A req \in {"SET_VRING_BASE", "SET_VRING_ADDR"} : Has(q, req)' <=> Has(q, req)
      BY ZenonT(30), <3>4 DEF Has
    <3> QED
      BY ZenonT(30), <2>1, <3>1, <3>2, <3>5, <3>6 DEF VringInv
  <2> QED
    BY <2>2, <2>3 DEF ServeInv
<1>5. CASE Restart
  <2>1. UNCHANGED <<pc, kick_slots, vrings, used_idx, inbox>>
    BY Zenon, <1>5 DEF Restart, ringVars, serverVars
  <2>2. LoopInv'
    BY <2>1 DEF ServeInv, LoopInv
  <2>3. ASSUME NEW q \in Queues  PROVE VringInv(q)'
    <3>1. /\ bases[q] # Nil /\ bases'[q] = Nil
          /\ Configures(q, starts', bases[q], script'[q])
      BY Zenon, <1>5, <1>t, RestartConfigures
    <3>2. Pending(q) = {} /\ VringInv(q)
      BY ZenonT(30), <3>1 DEF ServeInv, OrderInv
    <3>3. Idle(q) /\ bases[q] = used_idx[q]
      BY ZenonT(30), <3>1, <3>2 DEF VringInv
    <3>4. Idle(q)'
      BY Zenon, <2>1, <3>3 DEF Idle
    <3>5. \A m \in Pending(q)' : SetsUp(m) /\ (m.req = "SET_VRING_BASE" => m.num = bases[q])
      BY ZenonT(60), <2>1, <3>1, <3>2 DEF Pending, Configures
    <3>6. Has(q, "SET_VRING_BASE")'
      BY ZenonT(30), <3>1 DEF Pending, Has, Configures
    <3>7. ~Has(q, "GET_VRING_BASE")'
      BY ZenonT(30), <3>5 DEF Has, SetsUp, Asks
    <3>8. vrings'[q].vq = Nil => used_idx'[q] = 0
      BY ZenonT(30), <2>1, <3>2 DEF VringInv
    <3> QED
      BY ZenonT(30), <2>1, <3>1, <3>3, <3>4, <3>5, <3>6, <3>7, <3>8 DEF VringInv
  <2> QED
    BY <2>2, <2>3 DEF ServeInv
<1>6. CASE Poll
  <2>1. /\ pc = "poll" /\ pc' \in {"message", "kicks"}
        /\ UNCHANGED <<vrings, used_idx, bases, inbox, script>>
        /\ \A s \in kick_slots' : vrings[s[1]].enabled
    BY Zenon, <1>6, PollIs
  <2>2. LoopInv'
    BY <2>1 DEF LoopInv
  <2>3. ASSUME NEW q \in Queues  PROVE VringInv(q)'
    <3>1. (Idle(q) => Idle(q)') /\ (Midway(q)' <=> Midway(q))
      BY Zenon, <2>1 DEF Idle, Midway
    <3>2. VringInv(q)
      BY DEF ServeInv
    <3> QED
      BY ZenonT(30), <1>p, <2>1, <3>1, <3>2, VringKept
  <2> QED
    BY <2>2, <2>3 DEF ServeInv
<1>7. CASE HandleOneMessage
  <2>1. LoopInv'
    BY ZenonT(30), <1>7 DEF HandleOneMessage, LoopInv
  <2> QED
    BY ZenonT(30), <1>7, <2>1, HandleVringInv DEF ServeInv
<1>8. CASE Disconnected \/ KicksDone \/ Drain \/ FinishVring
  <2>1. /\ UNCHANGED <<vrings, used_idx, bases, inbox, script>>
        /\ pc \in {"message", "kicks", "pop"} /\ pc' \in {"exited", "poll", "kicks", "pop"}
        /\ kick_slots' \subseteq kick_slots
        /\ pc' = "poll" => kick_slots' = {}
    BY Zenon, <1>8 DEF Disconnected, KicksDone, Drain, BeginVring, FinishVring, ringVars, frontVars
  <2>2. LoopInv'
    BY <2>1 DEF LoopInv
  <2>3. ASSUME NEW q \in Queues  PROVE VringInv(q)'
    <3>1. (Idle(q) => Idle(q)') /\ (Midway(q)' <=> Midway(q))
      BY ZenonT(30), <2>1 DEF Idle, Midway
    <3>2. VringInv(q)
      BY DEF ServeInv
    <3> QED
      BY ZenonT(30), <1>p, <2>1, <3>1, <3>2, VringKept
  <2> QED
    BY <2>2, <2>3 DEF ServeInv
<1>9. CASE PopAvail
  <2>1. /\ pc = "pop" /\ pc' = "push"
        /\ UNCHANGED <<kick_slots, used_idx, bases, inbox, script>>
        /\ vrings' = [vrings EXCEPT ![Current].vq = Succ(@)]
    BY <1>9 DEF PopAvail, ringVars, frontVars
  <2>2. LoopInv'
    BY <2>1 DEF LoopInv
  <2>3. kick_slots # {}
    BY <1>t, <2>1 DEF Types, TypeOK
  <2>4. /\ Current \in Queues /\ bases[Current] = Nil
        /\ \A m \in Pending(Current) : ~SetsUp(m)
        /\ ~Has(Current, "SET_VRING_BASE") /\ ~Has(Current, "SET_VRING_ADDR")
    BY <1>t, <2>3, Served
  <2>5. Current' = Current
    BY <2>1, TurnKept
  <2>6. ASSUME NEW q \in Queues  PROVE VringInv(q)'
    <3>1. VringInv(q) /\ Pending(q)' = Pending(q) /\ vrings[q] \in VringSlot
      BY <1>p, <1>t, <2>1 DEF ServeInv, Types, TypeOK
    <3>2. CASE q # Current
      <4>1. vrings'[q] = vrings[q]
        BY <1>t, <2>1, <3>2 DEF Types, TypeOK
      <4>2. (Idle(q) => Idle(q)') /\ (Midway(q)' <=> Midway(q))
        BY <2>1, <2>5, <3>2, <4>1 DEF Idle, Midway
      <4> QED
        BY <2>1, <3>1, <4>1, <4>2, VringKept
    <3>3. CASE q = Current
      <4>1. /\ vrings'[q].vq = Succ(vrings[q].vq) /\ vrings'[q].enabled = vrings[q].enabled
            /\ vrings[q].vq # Nil /\ vrings[q].vq \in Indices
        BY ZenonT(30), <1>t, <2>1, <2>4, <3>1, <3>3 DEF Types, TypeOK, VringSlot, TypeInv, ServesBuilt
      <4>2. Succ(vrings[q].vq) # Nil
        BY <4>1, SuccIs, ServerAssumption DEF Indices
      <4>3. Midway(q)' /\ ~Midway(q)
        BY <2>1, <2>5, <3>3 DEF Midway
      <4>4. vrings[q].vq = used_idx[q]
        BY ZenonT(30), <2>4, <3>1, <3>3, <4>1, <4>3 DEF VringInv
      <4>5. \A req : Has(q, req)' <=> Has(q, req)
        BY ZenonT(30), <3>1 DEF Has
      <4> QED
        BY ZenonT(30), <2>1, <2>4, <3>1, <3>3, <4>1, <4>2, <4>3, <4>4, <4>5, Served DEF VringInv, SetsUp, Off, Asks
    <3> QED
      BY <3>2, <3>3
  <2> QED
    BY <2>2, <2>6 DEF ServeInv
<1>10. CASE PushUsed
  <2>1. /\ UNCHANGED <<kick_slots, vrings, bases, inbox, script>>
        /\ \/ pc = "push" /\ pc' = "publish" /\ used_idx' = used_idx
           \/ pc = "publish" /\ pc' = "pop"
              /\ used_idx' = [used_idx EXCEPT ![Current] = Succ(@)]
    BY Zenon, <1>10 DEF PushUsed, WriteUsedElem, AdvanceUsedIdx, frontVars
  <2>2. LoopInv'
    BY ZenonT(30), <2>1 DEF LoopInv
  <2>3. kick_slots # {}
    BY ZenonT(30), <1>t, <2>1 DEF Types, TypeOK
  <2>4. /\ Current \in Queues /\ bases[Current] = Nil
        /\ \A m \in Pending(Current) : ~SetsUp(m)
        /\ ~Has(Current, "SET_VRING_BASE") /\ ~Has(Current, "SET_VRING_ADDR")
    BY <1>t, <2>3, Served
  <2>5. Current' = Current
    BY <2>1, TurnKept
  <2>6. ASSUME NEW q \in Queues  PROVE VringInv(q)'
    <3>1. VringInv(q) /\ Pending(q)' = Pending(q) /\ used_idx \in [Queues -> Indices]
      BY ZenonT(30), <1>p, <1>t, <2>1 DEF ServeInv, Types, TypeOK, RingTypeOK
    <3>2. CASE q # Current \/ pc = "push"
      <4>1. used_idx'[q] = used_idx[q]
        BY ZenonT(30), <2>1, <3>1, <3>2
      <4>2. (Idle(q) => Idle(q)') /\ (Midway(q)' <=> Midway(q))
        BY Zenon, <2>1, <2>5, <3>2 DEF Idle, Midway
      <4> QED
        BY ZenonT(30), <2>1, <3>1, <4>1, <4>2, VringKept
    <3>3. CASE q = Current /\ pc = "publish"
      <4>1. used_idx'[q] = Succ(used_idx[q]) /\ vrings[q].vq # Nil
        BY <2>1, <3>1, <3>3 DEF TypeInv, ServesBuilt
      <4>2. Midway(q) /\ ~Midway(q)'
        BY <2>1, <2>5, <3>3 DEF Midway
      <4>3. vrings[q].vq = Succ(used_idx[q])
        BY ZenonT(30), <2>4, <3>1, <3>3, <4>1, <4>2 DEF VringInv
      <4>4. \A req : Has(q, req)' <=> Has(q, req)
        BY <3>1 DEF Has
      <4> QED
        BY ZenonT(30), <2>1, <2>4, <3>1, <3>3, <4>1, <4>2, <4>3, <4>4 DEF VringInv, SetsUp, Off, Asks
    <3> QED
      BY <2>1, <3>2, <3>3
  <2> QED
    BY <2>2, <2>6 DEF ServeInv
<1>11. CASE Close
  BY <1>1, <1>p, <1>11 DEF Close, ringVars, serverVars
<1>12. CASE UNCHANGED vars
  BY Zenon, <1>1, <1>p, <1>12 DEF vars, ringVars, serverVars, frontVars
<1> QED
  BY ZenonT(30), <1>1, <1>p, <1>2, <1>3, <1>4, <1>5, <1>6, <1>7, <1>8, <1>9, <1>10, <1>11, <1>12
     DEF Next, Server, FrontEnd
-----------------------------------------------------------------------------
(***************************************************************************)
(* The invariant of the event loop, and what a stopped vring answers.      *)
(***************************************************************************)
Inv == TypeInv /\ OrderInv /\ ServeInv

\* Every reachable state satisfies the invariant.
LEMMA Invariant == Spec => []Inv
<1>1. Init => Inv
  BY InitTypeInv, InitOrderInv, InitServeInv DEF Inv
<1>2. Inv /\ [Next]_vars => Inv'
  BY NextTypeInv, NextOrderInv, NextServeInv DEF Inv, TypeInv
<1> QED
  BY <1>1, <1>2, PTL DEF Spec

\* The front-end is told where a vring stands: the answer to GET_VRING_BASE is
\* the used index, so no request before it is unserved and none after it has
\* been started, whatever the loop was doing when the message came.
THEOREM StopsExactly == Spec => []BaseExact
<1>1. Inv => BaseExact
  BY ZenonT(30) DEF Inv, ServeInv, VringInv, BaseExact
<1> QED
  BY <1>1, Invariant, PTL
=============================================================================
