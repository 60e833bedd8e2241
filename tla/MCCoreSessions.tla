--------------------------- MODULE MCCoreSessions ---------------------------
(* Core sessions on instances small enough to enumerate. *)
EXTENDS CoreSessions

MCSessions == 1 .. 2
MCCaptures == 1 .. 3
MCBoots    == 1 .. 2
MCMenu     == {[kind |-> "PERIODIC", save |-> "SAVE_LAST", limit |-> 2],
               [kind |-> "SINGLE", save |-> "SAVE_ALL", limit |-> 1]}
=============================================================================
