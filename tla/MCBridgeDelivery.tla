-------------------------- MODULE MCBridgeDelivery --------------------------
(* The capture path on instances small enough to enumerate. *)
EXTENDS BridgeDelivery

MCSlots == {1, 2}
=============================================================================
