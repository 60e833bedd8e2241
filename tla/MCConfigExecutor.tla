-------------------------- MODULE MCConfigExecutor --------------------------
(* The executor with two fields of two values, a sweep of two points and a
   configuration that is refused. *)
EXTENDS ConfigExecutor

MCThreads == 1 .. 2
MCValues  == {"A", "B"}
MCDefault == [swept |-> "A", rest |-> "A"]
MCUnsafe  == {[swept |-> "B", rest |-> "B"]}
MCChanges == {[field |-> "rest", value |-> "A"], [field |-> "rest", value |-> "B"],
              [field |-> "swept", value |-> "B"]}
MCPoints  == <<"B", "A">>
=============================================================================
