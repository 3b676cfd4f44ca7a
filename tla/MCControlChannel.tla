-------------------------- MODULE MCControlChannel --------------------------
(* Instances of ControlChannel for TLC. *)
EXTENDS ControlChannel

Ask(request, index, num) == [request |-> request, index |-> index, num |-> num]

Start ==
  <<Ask("SET_MEM_TABLE", 0, 1),
    Ask("SET_VRING_KICK", 0, 1), Ask("SET_VRING_ENABLE", 0, 1),
    Ask("SET_VRING_KICK", 1, 1), Ask("SET_VRING_CALL", 1, 1),
    Ask("SET_VRING_ENABLE", 1, 1)>>

\* The vring is disabled while its doorbells are replaced.
Restart ==
  <<Ask("SET_VRING_ENABLE", 1, 0), Ask("SET_VRING_KICK", 1, 1),
    Ask("SET_VRING_ENABLE", 1, 1)>>

\* The vring stays enabled.
Replace == <<Ask("SET_VRING_KICK", 1, 1)>>

Negotiate ==
  <<Ask("GET_FEATURES", 0, 0), Ask("UNKNOWN", 0, 0), Ask("SET_MEM_TABLE", 0, 2),
    Ask("SET_MEM_TABLE", 0, 1), Ask("SET_VRING_ERR", 0, 1), Ask("SET_VRING_ENABLE", 2, 1),
    Ask("SET_VRING_CALL", 0, 1), Ask("SET_VRING_CALL", 0, 1),
    Ask("SET_VRING_KICK", 0, 0), Ask("TOO_LARGE", 0, 0)>>

DisableFirst == {Start \o Restart, Negotiate}
ReplaceEnabled == {Start \o Replace}

ASSUME DisableFirstAssumption ==
  /\ \A s \in DisableFirst : DisablesFirst(s)
  /\ \A s \in ReplaceEnabled : ~DisablesFirst(s)
=============================================================================
