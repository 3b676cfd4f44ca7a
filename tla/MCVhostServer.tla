--------------------------- MODULE MCVhostServer ---------------------------
(* Instances of VhostServer for TLC. *)
EXTENDS VhostServer

\* The order in which a virtual machine monitor configures a vring.
BaseThenAddr ==
  <<"SET_VRING_NUM", "SET_VRING_BASE", "SET_VRING_ADDR", "SET_VRING_KICK",
    "SET_VRING_CALL", "SET_VRING_ENABLE">>

\* The order of the daemon's own tests (server.rs).
AddrThenBase ==
  <<"SET_VRING_NUM", "SET_VRING_ADDR", "SET_VRING_BASE", "SET_VRING_KICK",
    "SET_VRING_CALL", "SET_VRING_ENABLE">>

HiprioAndRequest == {0, 1}
RequestOnly == {1}
=============================================================================
