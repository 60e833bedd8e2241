-------------------------- MODULE ScheduleMachine --------------------------
(***************************************************************************)
(* The firmware's capture schedule driven by an arbitrary host: START,      *)
(* RENEW and STOP arrive with any ids, lease sequences and timeouts, in any *)
(* order and any number of times (a lost reply makes the host repeat a      *)
(* renewal; a stale session may name an old schedule), while the main loop  *)
(* advances time by whatever the timer interrupt accumulated and takes a    *)
(* capture when one is due and the transmitter is free.                     *)
(*                                                                          *)
(* age, deadline, newest and captured are history variables of the current   *)
(* schedule: they record what the host asked for, not what the firmware     *)
(* computed.                                                                *)
(***************************************************************************)
EXTENDS CaptureSchedule

CONSTANTS
    Periods,        \* requested periods, legal and illegal ones
    Counts,         \* requested capture counts; 0 is endless
    Leases,         \* requested lease timeouts, legal and illegal ones
    LeaseSeqs,      \* lease sequence numbers of renewals
    Elapsed,        \* microseconds one main-loop pass may have accumulated
    MaxAge          \* bound on the age of a schedule

ASSUME MachineConstants ==
    /\ Periods \subseteq Nat
    /\ Counts \subseteq Nat
    /\ Leases \subseteq Nat
    /\ LeaseSeqs \subseteq Nat
    /\ Elapsed \subseteq Nat
    /\ MaxAge \in Nat

VARIABLES
    schedule,       \* app->periodic
    age,            \* time since the schedule in force was started
    deadline,       \* age at which the newest accepted grant runs out
    newest,         \* highest lease sequence the host used for this schedule
    captured        \* captures taken for this schedule

vars == <<schedule, age, deadline, newest, captured>>
history == <<age, deadline, newest, captured>>

Ids == ScheduleIds \cup {NoId}

TypeOK ==
    /\ schedule \in Schedule
    /\ age \in Nat
    /\ deadline \in Nat
    /\ newest \in Nat
    /\ captured \in Nat

Init ==
    /\ schedule = ScheduleInit
    /\ age = 0
    /\ deadline = 0
    /\ newest = 0
    /\ captured = 0

-----------------------------------------------------------------------------
\* START_PERIODIC reaches the scheduler (handle_start_periodic).
Start(id, period, count, lease) ==
    /\ schedule' = StartSchedule(schedule, id, period, count, lease)
    /\ IF StartResult(schedule, id, period, count, lease) = "OK"
       THEN /\ age' = 0
            /\ deadline' = lease * UsPerMs
            /\ newest' = 0
            /\ captured' = 0
       ELSE UNCHANGED history

\* RENEW_PERIODIC_LEASE reaches the scheduler (handle_renew_periodic).
Renew(id, seq, lease) ==
    /\ schedule' = RenewSchedule(schedule, id, seq, lease)
    /\ IF RenewResult(schedule, id, seq, lease) = "OK" /\ seq > newest
       THEN /\ newest' = seq
            /\ deadline' = age + lease * UsPerMs
       ELSE UNCHANGED <<newest, deadline>>
    /\ UNCHANGED <<age, captured>>

\* STOP reaches the scheduler (handle_stop).
Stop(id) ==
    /\ schedule' = StopSchedule(schedule, id)
    /\ UNCHANGED history

\* usac_firmware_app_advance_time, called only while a schedule is active.
Advance(elapsed) ==
    /\ schedule.active
    /\ age + elapsed <= MaxAge
    /\ schedule' = AdvanceSchedule(schedule, elapsed)
    /\ age' = age + elapsed
    /\ UNCHANGED <<deadline, newest, captured>>

\* usac_firmware_app_run_periodic_capture, the capture succeeding.
Capture ==
    /\ schedule.active /\ schedule.due
    /\ schedule' = ClaimDue(schedule)
    /\ captured' = captured + 1
    /\ UNCHANGED <<age, deadline, newest>>

\* usac_firmware_app_run_periodic_capture, configuration or ADC failing: the
\* schedule is stopped under its own id.
CaptureFails ==
    /\ schedule.active /\ schedule.due
    /\ schedule' = StopSchedule(schedule, schedule.id)
    /\ UNCHANGED history

Next ==
    \/ \E id \in Ids, p \in Periods, n \in Counts, l \in Leases : Start(id, p, n, l)
    \/ \E id \in Ids, q \in LeaseSeqs, l \in Leases : Renew(id, q, l)
    \/ \E id \in Ids : Stop(id)
    \/ \E e \in Elapsed : Advance(e)
    \/ Capture
    \/ CaptureFails

Spec == Init /\ [][Next]_vars

-----------------------------------------------------------------------------
\* The capture grid never drifts and no grid point is forgotten: since the
\* schedule started, every multiple of the period that has passed was
\* captured, is due now, or was counted in missed_count, however the elapsed
\* time was cut into main-loop passes.
NoTickForgotten ==
    schedule.active =>
      age + schedule.untilDue =
        schedule.period * (1 + schedule.completed + schedule.missed
                             + IF schedule.due THEN 1 ELSE 0)

\* The lease runs out exactly when the newest accepted grant says: repeating a
\* renewal, an old sequence number, a foreign schedule id or a rejected
\* renewal neither extends nor shortens it, so an abandoned schedule is over
\* at most one lease after the last renewal the host really made.
LeaseIsExact ==
    schedule.active =>
      /\ age < deadline
      /\ schedule.leaseLeft = deadline - age
      /\ schedule.leaseSeq = newest

\* A finite schedule takes at most the requested number of captures and is
\* over with the last one.
FiniteScheduleStops ==
    /\ schedule.active => schedule.completed = captured
    /\ schedule.active /\ schedule.limit # 0 => captured < schedule.limit

\* What GET_STATUS reports when no schedule is active is what the host's
\* decoder accepts: no schedule id, lease sequence 0 and 0 ms remaining
\* (decode_status raises "inactive schedule must report zero lease state").
InactiveReportsNoLease ==
    ~schedule.active =>
      schedule.id = NoId /\ schedule.leaseSeq = 0 /\ schedule.leaseLeft = 0

\* The strengthening that makes the properties above inductive: an active
\* schedule has a legal period and its next capture time lies within one
\* period, so the division in the scheduler is by a positive number.
ActiveIsSane ==
    schedule.active =>
      /\ schedule.period >= MinPeriod
      /\ schedule.untilDue \in 1 .. schedule.period

\* All of it together, in every state: an exact grid and an exact lease, a finite
\* schedule that stops at its last capture, and cleared lease fields whichever of
\* stop, expiry or claim_due ended the schedule.
IInv ==
    /\ TypeOK
    /\ NoTickForgotten
    /\ LeaseIsExact
    /\ FiniteScheduleStops
    /\ InactiveReportsNoLease
    /\ ActiveIsSane

\* A capture is only ever taken strictly inside the lease and never beyond the
\* requested number: the fail-safe promise of the periodic mode.
CaptureInsideLease ==
    [][captured' > captured =>
         /\ age < deadline
         /\ schedule.limit # 0 => captured' <= schedule.limit]_vars
=============================================================================
