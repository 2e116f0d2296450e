------------------------- MODULE MCAuditedDispatch --------------------------
(***************************************************************************)
(* Instances of AuditedDispatch for TLC.                                   *)
(***************************************************************************)
EXTENDS AuditedDispatch, TLC

CONSTANT e1

\* One dispatcher for all calls.
OneEndpoint == [c \in Calls |-> e1]

\* The audit volume has room for two calls beside the headroom.
RoomForTwo == CHECKPOINT_HEADROOM_BYTES + 2 * CALL_RESERVATION_BYTES

CallSymmetry == Permutations(Calls)

\* Bound: a fault or a crash, not both.
OneDisturbance == faults + crashes <= 1
=============================================================================
