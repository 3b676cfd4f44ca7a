---------------------------- MODULE RequestQueue ----------------------------
(***************************************************************************)
(* What a vring promises to the guest's driver, without rings, indices or  *)
(* doorbells: requests are served once each and in the order in which they *)
(* were made available, and replies are read in that order too.            *)
(***************************************************************************)
EXTENDS Naturals, Sequences

CONSTANTS
  Queues,  \* the vrings
  Heads    \* what identifies a request while it is under way

VARIABLES
  waiting,  \* waiting[q]: available requests not yet served
  done      \* done[q]: served requests whose reply is not yet read

queueVars == <<waiting, done>>

Init ==
  /\ waiting = [q \in Queues |-> <<>>]
  /\ done = [q \in Queues |-> <<>>]

UnderWay(q, h) ==
  \/ \E i \in 1 .. Len(waiting[q]) : waiting[q][i] = h
  \/ \E i \in 1 .. Len(done[q]) : done[q][i] = h

MakeAvailable(q, h) ==
  /\ ~UnderWay(q, h)
  /\ waiting' = [waiting EXCEPT ![q] = Append(@, h)]
  /\ UNCHANGED done

Serve(q) ==
  /\ waiting[q] # <<>>
  /\ waiting' = [waiting EXCEPT ![q] = Tail(@)]
  /\ done' = [done EXCEPT ![q] = Append(@, Head(waiting[q]))]

ReadReply(q) ==
  /\ done[q] # <<>>
  /\ done' = [done EXCEPT ![q] = Tail(@)]
  /\ UNCHANGED waiting

Next ==
  \E q \in Queues :
    \/ \E h \in Heads : MakeAvailable(q, h)
    \/ Serve(q)
    \/ ReadReply(q)

Spec == Init /\ [][Next]_queueVars
=============================================================================
