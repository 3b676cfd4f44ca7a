------------------------------ MODULE Doorbell ------------------------------
(***************************************************************************)
(* A doorbell (doorbell.rs): an fd that is made readable by a write and    *)
(* emptied by reads.  On Linux it is an eventfd, a counter that one read   *)
(* takes as a whole; elsewhere a non-blocking pipe, read a buffer at a     *)
(* time.  Its state is the number of units that are pending.               *)
(***************************************************************************)
EXTENDS Naturals

CONSTANTS
  BellCap,     \* units it can hold: the counter's limit, the pipe's size
  ReadBuf,     \* units that fill the buffer of one read of the pipe
  WordLen      \* bytes of the u64 that an eventfd takes (8 in the code)

ASSUME BellAssumption ==
  /\ BellCap \in Nat \ {0} /\ ReadBuf \in Nat \ {0} /\ WordLen \in Nat \ {0}
  /\ WordLen <= BellCap

BellKinds == {"eventfd", "pipe"}

NewBell == 0

ReadableBell(n) == n > 0

\* A write to a doorbell that is full fails and leaves it readable.
Written(n, units) == IF n + units <= BellCap THEN n + units ELSE n

\* Doorbell::notify: the number one to an eventfd, one byte to a pipe.
Notify(n) == Written(n, 1)

\* server.rs's notify: a word, whichever kind it is.
NotifyWord(kind, n) == Written(n, IF kind = "pipe" THEN WordLen ELSE 1)

\* One read: what it leaves, and whether the reader has to read again.
ReadBell(kind, n) == IF kind = "pipe" /\ n > ReadBuf THEN n - ReadBuf ELSE 0
ReadAgain(kind, n) == kind = "pipe" /\ n >= ReadBuf
=============================================================================
