---------------------------- MODULE Configurator ----------------------------
(***************************************************************************)
(* The register sequences of tuss4470_configurator.c over an SPI bus that  *)
(* may fail at every transfer, and the calls main.c makes of them.  One    *)
(* step is one write_verify or one read.                                   *)
(*                                                                         *)
(* The value of a register is abstracted to what it means: "target", what  *)
(* the profile being applied asks for; "old", a target of an earlier       *)
(* profile or of power-up; "safe", the value of the safe start ("clear"    *)
(* for TOF_CONFIG = 0x00, "off" for VDRV_CTRL = 0x20); "standby" and       *)
(* "sleep", for TOF_CONFIG; "junk", what a disturbed transfer left.        *)
(***************************************************************************)
EXTENDS Integers, Sequences

CONSTANTS
    Operational,    \* the profile's registers but VDRV_CTRL and TOF_CONFIG, in order
    PollLimit,      \* USAC_VDRV_READY_POLL_LIMIT
    MaxFaults       \* bound on the disturbed transfers

Regs == {Operational[i] : i \in DOMAIN Operational} \cup {"VDRV_CTRL", "TOF_CONFIG"}

ASSUME ConfiguratorConstants ==
    /\ Operational \in Seq(STRING)
    /\ {"DEV_CTRL_3", "BURST_PULSE"} \subseteq {Operational[i] : i \in DOMAIN Operational}
    /\ {"VDRV_CTRL", "TOF_CONFIG"} \cap {Operational[i] : i \in DOMAIN Operational} = {}
    /\ PollLimit \in Nat \ {0}
    /\ MaxFaults \in Nat

VARIABLES
    regs,       \* the registers of the chip
    pc,         \* what the running call does next; "idle" between calls
    call,       \* the function main.c called
    step,       \* position in the sequence being written
    ready,      \* requires_vdrv_ready of the profile
    polls,      \* reads of DEV_STAT so far
    sampled,    \* VDRV_READY was seen and no fault bit with it
    result,     \* the code the call will return, or returned last
    closing,    \* the first error of the running force_safe
    closed,     \* force_safe was run since the call began
    misses,     \* transfers disturbed while force_safe ran
    faults      \* disturbed transfers so far

vars == <<regs, pc, call, step, ready, polls, sampled, result, closing, closed, misses, faults>>

Values == {"target", "old", "safe", "clear", "off", "standby", "sleep", "junk"}
Calls == {"none", "configure", "force_safe", "STANDBY", "SLEEP"}
Codes == {"OK", "BUS", "READBACK", "IDENTITY", "DRIVER_FAULT", "VDRV_TIMEOUT", "INVALID_PROFILE"}

-----------------------------------------------------------------------------
(* The sequences: pairs of a register and a value. *)

\* apply_safe_start
SafeStart == << <<"BURST_PULSE", "safe">>, <<"VDRV_CTRL", "off">>,
                <<"TOF_CONFIG", "clear">>, <<"DEV_CTRL_3", "safe">> >>

\* tuss4470_configure_firmware, all its writes
ProgramTriggerFirst ==
    SafeStart \o << <<"VDRV_CTRL", "target">>, <<"TOF_CONFIG", "target">> >>
              \o [i \in DOMAIN Operational |-> <<Operational[i], "target">>]

Program ==
    SafeStart \o [i \in DOMAIN Operational |-> <<Operational[i], "target">>]
              \o << <<"VDRV_CTRL", "target">>, <<"TOF_CONFIG", "target">> >>

\* tuss4470_force_safe
Closing == << <<"TOF_CONFIG", "clear">>, <<"VDRV_CTRL", "off">>, <<"TOF_CONFIG", "standby">> >>

-----------------------------------------------------------------------------
TypeOK ==
    /\ regs \in [Regs -> Values]
    /\ pc \in {"idle", "device_id", "rev_id", "write", "poll", "close", "sleep"}
    /\ call \in Calls
    /\ step \in 1 .. Len(Program)
    /\ ready \in BOOLEAN /\ sampled \in BOOLEAN /\ closed \in BOOLEAN
    /\ polls \in 0 .. PollLimit
    /\ result \in Codes /\ closing \in Codes
    /\ misses \in 0 .. 3
    /\ faults \in 0 .. MaxFaults

Init ==
    /\ regs = [r \in Regs |-> "old"]
    /\ pc = "idle" /\ call = "none" /\ step = 1
    /\ ready = FALSE /\ polls = 0 /\ sampled = FALSE
    /\ result = "OK" /\ closing = "OK" /\ closed = FALSE
    /\ misses = 0 /\ faults = 0

\* write_verify succeeds only when the read-back value is the written one.
Written(reg, v) == regs' = [regs EXCEPT ![reg] = v]

\* A disturbed transfer of write_verify may have changed the register or not.
Disturbed(reg, v) ==
    /\ faults < MaxFaults
    /\ faults' = faults + 1
    /\ \E left \in {regs[reg], v, "junk"} : regs' = [regs EXCEPT ![reg] = left]

Disturb == faults < MaxFaults /\ faults' = faults + 1

-----------------------------------------------------------------------------
(* Calls. *)

\* apply_profile with a profile or a timing that is refused before any transfer.
Refuse ==
    /\ pc = "idle"
    /\ call' = "configure" /\ result' = "INVALID_PROFILE" /\ closed' = FALSE
    /\ UNCHANGED <<regs, pc, step, ready, polls, sampled, closing, misses, faults>>

Configure(needsReady) ==
    /\ pc = "idle"
    /\ pc' = "device_id" /\ call' = "configure"
    /\ regs' = [r \in Regs |-> IF regs[r] = "target" THEN "old" ELSE regs[r]]
    /\ ready' = needsReady /\ step' = 1 /\ polls' = 0 /\ sampled' = FALSE
    /\ result' = "OK" /\ closed' = FALSE /\ misses' = 0
    /\ UNCHANGED <<closing, faults>>

\* tuss4470_force_safe, or tuss4470_enter_low_power with its target state
EnterSafe(kind) ==
    /\ pc = "idle"
    /\ pc' = "close" /\ call' = kind /\ step' = 1
    /\ result' = "OK" /\ closing' = "OK" /\ closed' = TRUE /\ misses' = 0
    /\ UNCHANGED <<regs, ready, polls, sampled, faults>>

-----------------------------------------------------------------------------
(* tuss4470_configure_firmware *)

\* Both identity reads return at once when they fail: nothing was written yet.
ReadIdentity ==
    /\ pc \in {"device_id", "rev_id"}
    /\ pc' = IF pc = "device_id" THEN "rev_id" ELSE "write"
    /\ UNCHANGED <<regs, call, step, ready, polls, sampled, result, closing, closed, misses, faults>>

IdentityFails ==
    /\ pc \in {"device_id", "rev_id"}
    /\ Disturb
    /\ result' \in IF pc = "device_id" THEN {"BUS"} ELSE {"BUS", "IDENTITY"}
    /\ pc' = "idle"
    /\ UNCHANGED <<regs, call, step, ready, polls, sampled, closing, closed, misses>>

\* fail_safe_result
FailSafeSkipped(code) ==
    /\ result' = code
    /\ pc' = "idle"
    /\ UNCHANGED <<step, closing, closed, misses>>

FailSafe(code) ==
    /\ result' = code
    /\ pc' = "close" /\ step' = 1 /\ closing' = "OK" /\ closed' = TRUE /\ misses' = 0

WriteNext ==
    /\ pc = "write"
    /\ Written(Program[step][1], Program[step][2])
    /\ IF step < Len(Program) THEN step' = step + 1 /\ UNCHANGED pc
                              ELSE pc' = "poll" /\ UNCHANGED step
    /\ UNCHANGED <<call, ready, polls, sampled, result, closing, closed, misses, faults>>

WriteFails ==
    /\ pc = "write"
    /\ Disturbed(Program[step][1], Program[step][2])
    /\ \E code \in {"BUS", "READBACK"} : FailSafe(code)
    /\ UNCHANGED <<call, ready, polls, sampled>>

\* The poll that ends the loop with success.
PollSucceeds ==
    /\ pc = "poll"
    /\ polls' = polls + 1
    /\ sampled' = TRUE
    /\ pc' = "idle"
    /\ UNCHANGED <<regs, call, step, ready, result, closing, closed, misses, faults>>

\* VDRV is not ready yet.
PollAgain ==
    /\ pc = "poll" /\ ready
    /\ polls' = polls + 1
    /\ polls + 1 < PollLimit
    /\ UNCHANGED <<regs, pc, call, step, ready, sampled, result, closing, closed, misses, faults>>

PollTimesOut ==
    /\ pc = "poll" /\ ready
    /\ polls' = polls + 1
    /\ polls + 1 = PollLimit
    /\ FailSafe("VDRV_TIMEOUT")
    /\ UNCHANGED <<regs, call, ready, sampled, faults>>

\* The read fails, or a fault bit is set.
PollFails ==
    /\ pc = "poll"
    /\ polls' = polls + 1
    /\ Disturb
    /\ \E code \in {"BUS", "DRIVER_FAULT"} : FailSafe(code)
    /\ UNCHANGED <<regs, call, ready, sampled>>

-----------------------------------------------------------------------------
(* tuss4470_force_safe: all three writes are attempted, the first error wins. *)

\* What the call returns once force_safe has: configure keeps the error it had.
Returned(first) == IF call = "configure" THEN result ELSE first

CloseEndsEarly(first) ==
    IF step < 3 /\ first = "OK" THEN step' = step + 1 /\ closing' = first /\ UNCHANGED <<pc, result>>
    ELSE /\ closing' = first
         /\ result' = Returned(first)
         /\ pc' = IF call \in {"STANDBY", "SLEEP"} /\ first = "OK" THEN "sleep" ELSE "idle"
         /\ UNCHANGED step

CloseEnds(first) ==
    IF step < 3 THEN step' = step + 1 /\ closing' = first /\ UNCHANGED <<pc, result>>
    ELSE /\ closing' = first
         /\ result' = Returned(first)
         /\ pc' = IF call \in {"STANDBY", "SLEEP"} /\ first = "OK" THEN "sleep" ELSE "idle"
         /\ UNCHANGED step

FirstError(code) == IF closing = "OK" THEN code ELSE closing

CloseNext ==
    /\ pc = "close"
    /\ Written(Closing[step][1], Closing[step][2])
    /\ CloseEnds(FirstError("OK"))
    /\ UNCHANGED <<call, ready, polls, sampled, closed, misses, faults>>

CloseMisses ==
    /\ pc = "close"
    /\ Disturbed(Closing[step][1], Closing[step][2])
    /\ misses' = misses + 1
    /\ \E code \in {"BUS", "READBACK"} : CloseEnds(FirstError(code))
    /\ UNCHANGED <<call, ready, polls, sampled, closed>>

\* tuss4470_enter_low_power, its own write
LowPower ==
    /\ pc = "sleep"
    /\ \/ /\ Written("TOF_CONFIG", IF call = "SLEEP" THEN "sleep" ELSE "standby")
          /\ UNCHANGED <<result, faults>>
       \/ /\ Disturbed("TOF_CONFIG", IF call = "SLEEP" THEN "sleep" ELSE "standby")
          /\ result' \in {"BUS", "READBACK"}
    /\ pc' = "idle"
    /\ UNCHANGED <<call, step, ready, polls, sampled, closing, closed, misses>>

-----------------------------------------------------------------------------
Next ==
    \/ Refuse
    \/ \E needsReady \in BOOLEAN : Configure(needsReady)
    \/ \E kind \in {"force_safe", "STANDBY", "SLEEP"} : EnterSafe(kind)
    \/ ReadIdentity \/ IdentityFails
    \/ WriteNext \/ WriteFails
    \/ PollSucceeds \/ PollAgain \/ PollTimesOut \/ PollFails
    \/ CloseNext \/ CloseMisses \/ LowPower

Spec == Init /\ [][Next]_vars

-----------------------------------------------------------------------------
(* Properties.                                                               *)

\* A call of configure has returned.
Configured == pc = "idle" /\ call = "configure"

(* The driver is never triggered half configured: the trigger register takes *)
(* its target only when every other register has its own, and while any      *)
(* register but the two takes its target the driver is off and the trigger   *)
(* clear, also when a transfer is disturbed on the way.                      *)
TriggerLast ==
    [][ \A r \in Regs : regs'[r] = "target" /\ regs[r] # "target" =>
          CASE r = "TOF_CONFIG" -> \A q \in Regs \ {r} : regs[q] = "target"
            [] r = "VDRV_CTRL"  -> regs["TOF_CONFIG"] = "clear"
            [] OTHER            -> regs["TOF_CONFIG"] = "clear" /\ regs["VDRV_CTRL"] = "off" ]_vars

(* One disturbed transfer while the chip is being closed never leaves it     *)
(* armed: the driver supply is off or the chip is in standby, since all      *)
(* three writes are attempted.  And force_safe returns OK only for a chip in *)
(* standby with the supply off: an error of an earlier write is not hidden   *)
(* by the success of a later one.                                            *)
ClosingIsTrue ==
    pc = "idle" =>
      /\ closed /\ misses <= 1 /\ call \in {"configure", "force_safe"}
           => regs["TOF_CONFIG"] = "standby" \/ regs["VDRV_CTRL"] = "off"
      /\ call = "force_safe" /\ result = "OK"
           => regs["TOF_CONFIG"] = "standby" /\ regs["VDRV_CTRL"] = "off"

(* The outcomes FirmwareApp builds on.  OK from configure means that every   *)
(* register holds its verified target and DEV_STAT was sampled without a     *)
(* fault, and ready where the profile needs it.  A failed configure left the *)
(* registers as they were, or ran force_safe, and no trigger at its target   *)
(* survives that without a disturbance in closing.                           *)
OutcomeAsPromised ==
    Configured =>
      \/ result = "OK" /\ ~closed /\ sampled /\ \A r \in Regs : regs[r] = "target"
      \/ result # "OK" /\ ~closed /\ \A r \in Regs : regs[r] # "target" \/ result = "INVALID_PROFILE"
      \/ result # "OK" /\ closed /\ (misses = 0 => regs["TOF_CONFIG"] = "standby"
                                                     /\ regs["VDRV_CTRL"] = "off")
=============================================================================
