-------------------------- MODULE CaptureSchedule --------------------------
(***************************************************************************)
(* The periodic capture scheduler of the firmware, usac_capture_schedule.c, *)
(* as functions from a schedule record and a command to the next record.    *)
(* The C functions mutate a struct and return a result code; here every     *)
(* function F has the new record as its value and F's result code is        *)
(* FResult.  Time is counted in microseconds of the source divided by any   *)
(* common unit; UsPerMs is the number of units in a lease millisecond.      *)
(***************************************************************************)
EXTENDS Integers

CONSTANTS
    ScheduleIds,    \* the nonzero 16-byte schedule ids
    NoId,           \* the all-zero schedule id
    MinPeriod,      \* USAC_CAPTURE_MIN_PERIOD_US
    MinLease,       \* USAC_CAPTURE_MIN_LEASE_MS
    MaxLease,       \* USAC_CAPTURE_MAX_LEASE_MS
    UsPerMs         \* 1000 in the source

ASSUME ScheduleConstants ==
    /\ NoId \notin ScheduleIds
    /\ MinPeriod \in Nat \ {0}
    /\ MinLease \in Nat \ {0}
    /\ MaxLease \in Nat
    /\ MinLease <= MaxLease
    /\ UsPerMs \in Nat \ {0}

Results == {"OK", "INVALID", "CONFLICT", "EXPIRED"}

\* usac_capture_schedule_t
Schedule ==
    [ active : BOOLEAN, due : BOOLEAN, id : ScheduleIds \cup {NoId},
      period : Nat, untilDue : Nat, limit : Nat, completed : Nat, missed : Nat,
      leaseSeq : Nat, lastLease : Nat, leaseLeft : Nat ]

-----------------------------------------------------------------------------
(* usac_capture_schedule_init *)
ScheduleInit ==
    [ active |-> FALSE, due |-> FALSE, id |-> NoId,
      period |-> 0, untilDue |-> 0, limit |-> 0, completed |-> 0, missed |-> 0,
      leaseSeq |-> 0, lastLease |-> 0, leaseLeft |-> 0 ]

LeaseInRange(lease) == lease \in MinLease .. MaxLease

(* usac_capture_schedule_start *)
StartResult(s, id, period, count, lease) ==
    IF s.active THEN "CONFLICT"
    ELSE IF id = NoId \/ period < MinPeriod \/ ~LeaseInRange(lease) THEN "INVALID"
    ELSE "OK"

StartSchedule(s, id, period, count, lease) ==
    IF StartResult(s, id, period, count, lease) # "OK" THEN s
    ELSE [ ScheduleInit EXCEPT
             !.active = TRUE, !.id = id, !.period = period, !.untilDue = period,
             !.limit = count, !.lastLease = lease, !.leaseLeft = lease * UsPerMs ]

(* usac_capture_schedule_renew: repeating the newest renewal is accepted but *)
(* grants nothing.                                                           *)
RenewResult(s, id, seq, lease) ==
    IF ~s.active \/ s.id # id THEN "CONFLICT"
    ELSE IF seq = 0 \/ ~LeaseInRange(lease) THEN "INVALID"
    ELSE IF seq = s.leaseSeq THEN IF lease = s.lastLease THEN "OK" ELSE "INVALID"
    ELSE IF seq < s.leaseSeq THEN "INVALID"
    ELSE "OK"

\* Faulty variants, for the checks that the properties notice them.
RenewScheduleReplayExtends(s, id, seq, lease) ==
    IF RenewResult(s, id, seq, lease) # "OK" THEN s
    ELSE [ s EXCEPT !.leaseSeq = seq, !.lastLease = lease, !.leaseLeft = lease * UsPerMs ]

RenewSchedule(s, id, seq, lease) ==
    IF RenewResult(s, id, seq, lease) # "OK" \/ seq = s.leaseSeq THEN s
    ELSE [ s EXCEPT !.leaseSeq = seq, !.lastLease = lease, !.leaseLeft = lease * UsPerMs ]

(* usac_capture_schedule_advance *)
AdvanceResult(s, elapsed) ==
    IF ~s.active THEN "INVALID" ELSE IF elapsed >= s.leaseLeft THEN "EXPIRED" ELSE "OK"

AdvanceScheduleDropsTicks(s, elapsed) ==
    IF ~s.active THEN s
    ELSE IF elapsed >= s.leaseLeft THEN ScheduleInit
    ELSE IF elapsed < s.untilDue
      THEN [ s EXCEPT !.leaseLeft = @ - elapsed, !.untilDue = @ - elapsed ]
    ELSE LET late == elapsed - s.untilDue IN
         [ s EXCEPT !.leaseLeft = @ - elapsed,
                    !.untilDue = s.period - (late % s.period),
                    !.missed = @ + late \div s.period,
                    !.due = TRUE ]

AdvanceScheduleLateExpiry(s, elapsed) ==
    IF ~s.active THEN s
    ELSE IF elapsed > s.leaseLeft THEN ScheduleInit
    ELSE IF elapsed < s.untilDue
      THEN [ s EXCEPT !.leaseLeft = @ - elapsed, !.untilDue = @ - elapsed ]
    ELSE LET late    == elapsed - s.untilDue
             periods == 1 + (late \div s.period)
         IN  [ s EXCEPT !.leaseLeft = @ - elapsed,
                        !.untilDue = s.period - (late % s.period),
                        !.missed = @ + IF s.due THEN periods ELSE periods - 1,
                        !.due = TRUE ]

AdvanceSchedule(s, elapsed) ==
    IF ~s.active THEN s
    ELSE IF elapsed >= s.leaseLeft THEN ScheduleInit
    ELSE IF elapsed < s.untilDue
      THEN [ s EXCEPT !.leaseLeft = @ - elapsed, !.untilDue = @ - elapsed ]
    ELSE LET late    == elapsed - s.untilDue
             periods == 1 + (late \div s.period)
         IN  [ s EXCEPT !.leaseLeft = @ - elapsed,
                        !.untilDue = s.period - (late % s.period),
                        !.missed = @ + IF s.due THEN periods ELSE periods - 1,
                        !.due = TRUE ]

(* usac_capture_schedule_claim_due, followed by the clearing of the id that  *)
(* usac_firmware_app_run_periodic_capture does once the schedule is over.    *)
ClaimDueOneMore(s) ==
    IF ~s.active \/ ~s.due THEN s
    ELSE LET n == s.completed + 1 IN
         IF s.limit # 0 /\ n > s.limit
         THEN [ s EXCEPT !.due = FALSE, !.completed = n, !.active = FALSE, !.id = NoId,
                         !.leaseSeq = 0, !.lastLease = 0, !.leaseLeft = 0 ]
         ELSE [ s EXCEPT !.due = FALSE, !.completed = n ]

ClaimDue(s) ==
    IF ~s.active \/ ~s.due THEN s
    ELSE LET n == s.completed + 1 IN
         IF s.limit # 0 /\ n >= s.limit
         THEN [ s EXCEPT !.due = FALSE, !.completed = n, !.active = FALSE, !.id = NoId,
                         !.leaseSeq = 0, !.lastLease = 0, !.leaseLeft = 0 ]
         ELSE [ s EXCEPT !.due = FALSE, !.completed = n ]

(* usac_capture_schedule_stop: with no active schedule STOP is acknowledged. *)
StopResult(s, id) == IF s.active /\ s.id # id THEN "CONFLICT" ELSE "OK"

StopSchedule(s, id) == IF StopResult(s, id) = "OK" THEN ScheduleInit ELSE s

(* usac_capture_schedule_lease_remaining_ms *)
LeaseRemainingMs(s) == IF s.active THEN s.leaseLeft \div UsPerMs ELSE 0
=============================================================================
