----------------------- MODULE ScheduleMachineProofs -----------------------
(***************************************************************************)
(* The properties of ScheduleMachine, proved for every set of ids, periods, *)
(* counts, leases, lease sequences and elapsed times.                       *)
(***************************************************************************)
EXTENDS ScheduleMachine, TLAPS

\* Division with remainder by a positive period, as the scheduler uses it.
LEMMA DivMod ==
    ASSUME NEW a \in Nat, NEW p \in Nat, p > 0
    PROVE  /\ a \div p \in Nat
           /\ a % p \in 0 .. (p - 1)
           /\ a = p * (a \div p) + (a % p)
  BY SMT

\* The initial record is a schedule record.
LEMMA ScheduleInitType == ScheduleInit \in Schedule
  BY DEF ScheduleInit, Schedule

\* An empty schedule satisfies the invariant whatever the history says.
LEMMA EmptyScheduleInv ==
    ASSUME TypeOK, UNCHANGED <<deadline, newest, captured>>, age' \in Nat,
           schedule' = ScheduleInit
    PROVE  IInv'
  BY ScheduleInitType
     DEF IInv, TypeOK, NoTickForgotten, LeaseIsExact, FiniteScheduleStops,
         InactiveReportsNoLease, ActiveIsSane, ScheduleInit

\* START either leaves everything alone or begins a fresh schedule.
LEMMA StartInv ==
    ASSUME IInv, NEW id \in Ids, NEW p \in Periods, NEW n \in Counts, NEW l \in Leases,
           Start(id, p, n, l)
    PROVE  IInv'
  <1> USE ScheduleConstants, MachineConstants
  <1>1. CASE StartResult(schedule, id, p, n, l) = "OK"
    <2>1. /\ ~schedule.active /\ id \in ScheduleIds
          /\ p \in Nat /\ p >= MinPeriod /\ n \in Nat /\ l \in Nat /\ l >= MinLease
      BY <1>1 DEF StartResult, LeaseInRange, Ids
    <2>2. l * UsPerMs \in Nat /\ l * UsPerMs > 0
      BY <2>1
    <2>3. schedule' = [ active |-> TRUE, due |-> FALSE, id |-> id, period |-> p,
                        untilDue |-> p, limit |-> n, completed |-> 0, missed |-> 0,
                        leaseSeq |-> 0, lastLease |-> l, leaseLeft |-> l * UsPerMs ]
      BY <1>1 DEF Start, StartSchedule, ScheduleInit
    <2>4. age' = 0 /\ deadline' = l * UsPerMs /\ newest' = 0 /\ captured' = 0
      BY <1>1 DEF Start
    <2>5. TypeOK'
      BY <2>1, <2>2, <2>3, <2>4 DEF TypeOK, Schedule
    <2>6. QED
      BY <2>1, <2>2, <2>3, <2>4, <2>5
         DEF IInv, NoTickForgotten, LeaseIsExact, FiniteScheduleStops,
             InactiveReportsNoLease, ActiveIsSane
  <1>2. CASE StartResult(schedule, id, p, n, l) # "OK"
    <2>1. UNCHANGED vars
      BY <1>2 DEF Start, StartSchedule, history, vars
    <2>2. QED
      BY <2>1 DEF IInv, TypeOK, NoTickForgotten, LeaseIsExact, FiniteScheduleStops,
                  InactiveReportsNoLease, ActiveIsSane, vars
  <1>3. QED
    BY <1>1, <1>2

\* RENEW extends the lease only under a sequence number never used before.
LEMMA RenewInv ==
    ASSUME IInv, NEW id \in Ids, NEW q \in LeaseSeqs, NEW l \in Leases, Renew(id, q, l)
    PROVE  IInv'
  <1> USE ScheduleConstants, MachineConstants
  <1>1. q \in Nat /\ l \in Nat
    OBVIOUS
  <1>2. CASE RenewResult(schedule, id, q, l) = "OK" /\ q # schedule.leaseSeq
    <2>1. schedule.active /\ q > schedule.leaseSeq /\ l >= MinLease
      BY <1>1, <1>2 DEF RenewResult, LeaseInRange, IInv, TypeOK, Schedule
    <2>2. l * UsPerMs \in Nat /\ l * UsPerMs > 0
      BY <1>1, <2>1
    <2>3. schedule' =
            [ active |-> schedule.active, due |-> schedule.due, id |-> schedule.id,
              period |-> schedule.period, untilDue |-> schedule.untilDue,
              limit |-> schedule.limit, completed |-> schedule.completed,
              missed |-> schedule.missed, leaseSeq |-> q, lastLease |-> l,
              leaseLeft |-> l * UsPerMs ]
      BY <1>2 DEF Renew, RenewSchedule, IInv, TypeOK, Schedule
    <2>4. newest' = q /\ deadline' = age + l * UsPerMs /\ age' = age /\ captured' = captured
      BY <1>2, <2>1 DEF Renew, IInv, LeaseIsExact
    <2>5. TypeOK'
      BY <1>1, <2>2, <2>3, <2>4 DEF IInv, TypeOK, Schedule
    <2>6. QED
      BY <1>1, <2>1, <2>2, <2>3, <2>4, <2>5
         DEF IInv, TypeOK, Schedule, NoTickForgotten, LeaseIsExact, FiniteScheduleStops,
             InactiveReportsNoLease, ActiveIsSane
  <1>3. CASE ~(RenewResult(schedule, id, q, l) = "OK" /\ q # schedule.leaseSeq)
    <2>1. ~(RenewResult(schedule, id, q, l) = "OK" /\ q > newest)
      BY <1>1, <1>3 DEF RenewResult, IInv, TypeOK, LeaseIsExact
    <2>2. UNCHANGED vars
      BY <1>3, <2>1 DEF Renew, RenewSchedule, vars
    <2>3. QED
      BY <2>2 DEF IInv, TypeOK, NoTickForgotten, LeaseIsExact, FiniteScheduleStops,
                  InactiveReportsNoLease, ActiveIsSane, vars
  <1>4. QED
    BY <1>2, <1>3

\* The main loop's clock: the lease shrinks with the age, and the capture grid
\* moves by whole periods that are all accounted for.
LEMMA AdvanceInv ==
    ASSUME IInv, NEW e \in Elapsed, Advance(e)
    PROVE  IInv'
  <1> USE ScheduleConstants, MachineConstants
  <1> DEFINE s == schedule
  <1>0. /\ e \in Nat /\ s \in Schedule /\ s.active /\ age \in Nat /\ deadline \in Nat
        /\ age' = age + e /\ UNCHANGED <<deadline, newest, captured>>
        /\ newest \in Nat /\ captured \in Nat
    BY DEF Advance, IInv, TypeOK
  <1>1. CASE e >= s.leaseLeft
    BY <1>0, <1>1, EmptyScheduleInv DEF Advance, AdvanceSchedule, IInv
  <1>2. CASE e < s.leaseLeft /\ e < s.untilDue
    <2>1. schedule' =
            [ active |-> s.active, due |-> s.due, id |-> s.id, period |-> s.period,
              untilDue |-> s.untilDue - e, limit |-> s.limit, completed |-> s.completed,
              missed |-> s.missed, leaseSeq |-> s.leaseSeq, lastLease |-> s.lastLease,
              leaseLeft |-> s.leaseLeft - e ]
      <3>1. ~(e >= s.leaseLeft)
        BY <1>0, <1>2 DEF Schedule
      <3>2. schedule' = [ s EXCEPT !.leaseLeft = s.leaseLeft - e,
                                   !.untilDue = s.untilDue - e ]
        BY <1>0, <1>2, <3>1 DEF Advance, AdvanceSchedule
      <3>3. QED
        BY <1>0, <3>2 DEF Schedule
    <2>2. TypeOK'
      BY <1>0, <1>2, <2>1 DEF TypeOK, Schedule
    <2>3. QED
      BY <1>0, <1>2, <2>1, <2>2
         DEF IInv, TypeOK, Schedule, NoTickForgotten, LeaseIsExact, FiniteScheduleStops,
             InactiveReportsNoLease, ActiveIsSane
  <1>3. CASE e < s.leaseLeft /\ e >= s.untilDue
    <2> DEFINE late == e - s.untilDue
               q == late \div s.period
               r == late % s.period
               extra == IF s.due THEN 1 + q ELSE q
    <2>1. late \in Nat /\ s.period \in Nat /\ s.period > 0
      BY <1>0, <1>3 DEF Schedule, IInv, ActiveIsSane
    <2>2. q \in Nat /\ r \in 0 .. (s.period - 1) /\ late = s.period * q + r
      BY <2>1, DivMod
    <2> HIDE DEF q, r
    <2>3. schedule' =
            [ active |-> s.active, due |-> TRUE, id |-> s.id, period |-> s.period,
              untilDue |-> s.period - r, limit |-> s.limit, completed |-> s.completed,
              missed |-> s.missed + extra, leaseSeq |-> s.leaseSeq, lastLease |-> s.lastLease,
              leaseLeft |-> s.leaseLeft - e ]
      <3>1. (IF s.due THEN 1 + q ELSE (1 + q) - 1) = extra
        BY <2>2
      <3>2. ~(e >= s.leaseLeft) /\ ~(e < s.untilDue)
        BY <1>0, <1>3 DEF Schedule
      <3>3. schedule' = [ s EXCEPT !.leaseLeft = s.leaseLeft - e,
                                   !.untilDue = s.period - r,
                                   !.missed = s.missed + extra, !.due = TRUE ]
        BY <1>0, <3>1, <3>2 DEF Advance, AdvanceSchedule, q, r
      <3>4. QED
        BY <1>0, <3>3 DEF Schedule
    <2>4. extra \in Nat
      BY <2>2
    <2>5. TypeOK'
      BY <1>0, <1>3, <2>1, <2>2, <2>3, <2>4 DEF TypeOK, Schedule
    <2>6. NoTickForgotten'
      <3> DEFINE k == 1 + s.completed + s.missed + (IF s.due THEN 1 ELSE 0)
      <3>1. k \in Nat /\ age + s.untilDue = s.period * k
        BY <1>0 DEF IInv, NoTickForgotten, Schedule
      <3>2. 1 + s.completed + (s.missed + extra) + 1 = k + (q + 1)
        BY <1>0, <2>2 DEF Schedule
      <3>3. (age + e) + (s.period - r) = s.period * (k + (q + 1))
        <4> HIDE DEF k
        <4>1. (age + e) + (s.period - r) = s.period * k + s.period * q + s.period
          BY <1>0, <2>1, <2>2, <3>1 DEF Schedule
        <4>2. s.period * (k + (q + 1)) = s.period * k + s.period * q + s.period
          BY <2>1, <2>2, <3>1
        <4>3. QED BY <4>1, <4>2
      <3>4. /\ schedule'.untilDue = s.period - r /\ schedule'.period = s.period
            /\ schedule'.completed = s.completed /\ schedule'.missed = s.missed + extra
            /\ schedule'.due = TRUE
        BY <1>0, <2>3 DEF Schedule
      <3>5. QED
        BY <1>0, <3>2, <3>3, <3>4 DEF NoTickForgotten
    <2>7. LeaseIsExact' /\ FiniteScheduleStops' /\ InactiveReportsNoLease'
      BY <1>0, <1>3, <2>3
         DEF IInv, Schedule, LeaseIsExact, FiniteScheduleStops, InactiveReportsNoLease
    <2>8. ActiveIsSane'
      BY <1>0, <2>1, <2>2, <2>3 DEF IInv, Schedule, ActiveIsSane
    <2>9. QED
      BY <2>5, <2>6, <2>7, <2>8 DEF IInv
  <1>4. QED
    BY <1>0, <1>1, <1>2, <1>3 DEF Schedule

\* A capture turns the due grid point into a completed one.
LEMMA CaptureInv == ASSUME IInv, Capture PROVE IInv'
  <1> USE ScheduleConstants
  <1> DEFINE s == schedule
  <1>0. /\ s \in Schedule /\ s.active /\ s.due
        /\ age \in Nat /\ deadline \in Nat /\ newest \in Nat /\ captured \in Nat
        /\ captured' = captured + 1 /\ UNCHANGED <<age, deadline, newest>>
    BY DEF Capture, IInv, TypeOK
  <1>1. CASE s.limit # 0 /\ s.completed + 1 >= s.limit
    <2>1. schedule' =
            [ active |-> FALSE, due |-> FALSE, id |-> NoId, period |-> s.period,
              untilDue |-> s.untilDue, limit |-> s.limit, completed |-> s.completed + 1,
              missed |-> s.missed,
              leaseSeq |-> 0, lastLease |-> 0, leaseLeft |-> 0 ]
      BY <1>0, <1>1 DEF Capture, ClaimDue, Schedule
    <2>2. QED
      BY <1>0, <2>1
         DEF IInv, TypeOK, Schedule, NoTickForgotten, LeaseIsExact, FiniteScheduleStops,
             InactiveReportsNoLease, ActiveIsSane
  <1>2. CASE ~(s.limit # 0 /\ s.completed + 1 >= s.limit)
    <2>1. schedule' =
            [ active |-> s.active, due |-> FALSE, id |-> s.id, period |-> s.period,
              untilDue |-> s.untilDue, limit |-> s.limit, completed |-> s.completed + 1,
              missed |-> s.missed,
              leaseSeq |-> s.leaseSeq, lastLease |-> s.lastLease, leaseLeft |-> s.leaseLeft ]
      BY <1>0, <1>2 DEF Capture, ClaimDue, Schedule
    <2>2. TypeOK'
      BY <1>0, <2>1 DEF TypeOK, Schedule
    <2>3. 1 + (s.completed + 1) + s.missed + 0 = 1 + s.completed + s.missed + 1
      BY <1>0 DEF Schedule
    <2>4. NoTickForgotten'
      BY <1>0, <2>1, <2>3 DEF IInv, NoTickForgotten, Schedule
    <2>5. QED
      BY <1>0, <1>2, <2>1, <2>2, <2>4
         DEF IInv, Schedule, LeaseIsExact, FiniteScheduleStops, InactiveReportsNoLease,
             ActiveIsSane
  <1>3. QED
    BY <1>1, <1>2

\* STOP, honoured or refused, keeps the invariant.
LEMMA StopInv == ASSUME IInv, NEW id, Stop(id) PROVE IInv'
  <1>1. UNCHANGED history /\ (schedule' = ScheduleInit \/ schedule' = schedule)
    BY DEF Stop, StopSchedule
  <1>2. CASE schedule' = ScheduleInit
    BY <1>1, <1>2, EmptyScheduleInv DEF IInv, TypeOK, history
  <1>3. CASE schedule' = schedule
    BY <1>1, <1>3 DEF IInv, TypeOK, NoTickForgotten, LeaseIsExact, FiniteScheduleStops,
                      InactiveReportsNoLease, ActiveIsSane, history
  <1>4. QED
    BY <1>1, <1>2, <1>3

\* The conjunction of the scheduler's properties holds in every reachable
\* state of the firmware schedule, whatever the host sends and however the
\* time is cut into main-loop passes.
THEOREM ScheduleInvariant == Spec => []IInv
  <1>1. Init => IInv
    BY ScheduleInitType
       DEF Init, IInv, TypeOK, NoTickForgotten, LeaseIsExact, FiniteScheduleStops,
           InactiveReportsNoLease, ActiveIsSane, ScheduleInit
  <1>2. IInv /\ [Next]_vars => IInv'
    <2> SUFFICES ASSUME IInv, [Next]_vars PROVE IInv'
      OBVIOUS
    <2>1. ASSUME NEW id \in Ids, NEW p \in Periods, NEW n \in Counts, NEW l \in Leases,
                 Start(id, p, n, l)
          PROVE  IInv'
      BY <2>1, StartInv
    <2>2. ASSUME NEW id \in Ids, NEW q \in LeaseSeqs, NEW l \in Leases, Renew(id, q, l)
          PROVE  IInv'
      BY <2>2, RenewInv
    <2>3. ASSUME NEW id \in Ids, Stop(id) PROVE IInv'
      BY <2>3, StopInv
    <2>4. ASSUME NEW e \in Elapsed, Advance(e) PROVE IInv'
      BY <2>4, AdvanceInv
    <2>5. CASE Capture
      BY <2>5, CaptureInv
    <2>6. CASE CaptureFails
      <3>1. Stop(schedule.id)
        BY <2>6 DEF CaptureFails, Stop
      <3>2. QED
        BY <3>1, StopInv
    <2>7. CASE UNCHANGED vars
      BY <2>7 DEF IInv, TypeOK, NoTickForgotten, LeaseIsExact, FiniteScheduleStops,
                  InactiveReportsNoLease, ActiveIsSane, vars
    <2>8. QED
      BY <2>1, <2>2, <2>3, <2>4, <2>5, <2>6, <2>7 DEF Next
  <1>3. QED
    BY <1>1, <1>2, PTL DEF Spec

\* No capture time is lost or drifts.
THEOREM NoTickForgottenAlways == Spec => []NoTickForgotten
  BY ScheduleInvariant, PTL DEF IInv

\* The lease in force is exactly the newest one the host was granted.
THEOREM LeaseIsExactAlways == Spec => []LeaseIsExact
  BY ScheduleInvariant, PTL DEF IInv

\* Every capture falls strictly inside the lease and within the requested
\* count: what an abandoned or finite schedule may still transmit.
THEOREM CaptureInsideLeaseAlways == Spec => CaptureInsideLease
  <1>1. IInv /\ [Next]_vars =>
          [captured' > captured =>
             /\ age < deadline
             /\ schedule.limit # 0 => captured' <= schedule.limit]_vars
    <2> SUFFICES ASSUME IInv, [Next]_vars, captured' > captured
                 PROVE  /\ age < deadline
                        /\ schedule.limit # 0 => captured' <= schedule.limit
      OBVIOUS
    <2>1. captured \in Nat
      BY DEF IInv, TypeOK
    <2>2. Capture
      BY <2>1 DEF Next, Start, Renew, Stop, Advance, CaptureFails, vars, history
    <2>3. QED
      BY <2>1, <2>2
         DEF Capture, IInv, TypeOK, Schedule, LeaseIsExact, FiniteScheduleStops
  <1>2. QED
    BY <1>1, ScheduleInvariant, PTL DEF Spec, CaptureInsideLease
=============================================================================
