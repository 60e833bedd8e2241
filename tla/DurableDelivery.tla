-------------------------- MODULE DurableDelivery --------------------------
(***************************************************************************)
(* What the capture path promises from the moment the bridge has taken a    *)
(* frame off the serial port: a spooled capture is resolved by the core     *)
(* (archived or discarded under its save policy) at least once, and the     *)
(* bridge forgets it only afterwards.  Nothing is said about links,         *)
(* sessions, threads or restarts.                                           *)
(***************************************************************************)
CONSTANT Captures       \* the captures a device may produce

VARIABLES
    spooled,    \* captures the bridge has ever made durable
    resolved,   \* captures the core has durably decided
    forgotten   \* captures the bridge has deleted

vars == <<spooled, resolved, forgotten>>

Init == spooled = {} /\ resolved = {} /\ forgotten = {}

Spool(c) ==
    /\ c \notin spooled
    /\ spooled' = spooled \cup {c}
    /\ UNCHANGED <<resolved, forgotten>>

Resolve(c) ==
    /\ c \in spooled \ resolved
    /\ resolved' = resolved \cup {c}
    /\ UNCHANGED <<spooled, forgotten>>

Forget(c) ==
    /\ c \in resolved \ forgotten
    /\ forgotten' = forgotten \cup {c}
    /\ UNCHANGED <<spooled, resolved>>

Next == \E c \in Captures : Spool(c) \/ Resolve(c) \/ Forget(c)

Spec == Init /\ [][Next]_vars
=============================================================================
