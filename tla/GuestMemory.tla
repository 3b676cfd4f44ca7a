---------------------------- MODULE GuestMemory -----------------------------
(***************************************************************************)
(* Guest memory as the daemon has it mapped (memory.rs): regions that each *)
(* have an address in two spaces.  "Gpa" is the guest's own, in which the  *)
(* driver gives its buffers; "User" is the front-end's, in which it gives  *)
(* the rings.  Taking one for the other finds other bytes.                 *)
(***************************************************************************)
EXTENDS Integers

\* A region; ptr is where its cells are in the daemon's own address space.
Region(gpa, user_addr, len, ptr) ==
  [gpa |-> gpa, user_addr |-> user_addr, len |-> len, ptr |-> ptr]

BaseFor(r, space) == IF space = "Gpa" THEN r.gpa ELSE r.user_addr

\* The region found holds the whole range; the first one is taken.
Holds(r, space, addr, len) ==
  /\ addr >= BaseFor(r, space) /\ len <= r.len
  /\ addr - BaseFor(r, space) <= r.len - len

Find(regions, space, addr, len) ==
  LET hits == {i \in DOMAIN regions : Holds(regions[i], space, addr, len)}
  IN regions[CHOOSE i \in hits : \A j \in hits : i <= j]

\* Where the cells of a range are (get_slice, get_slice_mut).
Pointer(regions, space, addr, len) ==
  LET r == Find(regions, space, addr, len)
  IN r.ptr + (addr - BaseFor(r, space))

GetSlice(regions, m, space, addr, len) ==
  LET p == Pointer(regions, space, addr, len)
  IN [k \in 1 .. len |-> m[p + k - 1]]
=============================================================================
