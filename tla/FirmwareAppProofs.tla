-------------------------- MODULE FirmwareAppProofs --------------------------
(***************************************************************************)
(* The invariant of FirmwareApp, proved for every set of nonces, requests,  *)
(* configurations and schedule parameters, and every number of segments and *)
(* captures.                                                                *)
(*                                                                         *)
(* The struct is separated from the rest: AppGood says what holds of it     *)
(* alone, so that a handler is shown to preserve it before its response is  *)
(* sent, and the end of a session that a failed response brings is shown    *)
(* once, for all handlers.                                                  *)
(***************************************************************************)
EXTENDS FirmwareApp, TLAPS

AppGood(a) ==
    /\ a \in Apps
    /\ a.periodic.active => /\ a.hello /\ a.nonce # NoNonce /\ ~a.clock
                            /\ a.periodic.period > 0 /\ a.periodic.untilDue > 0
    /\ a.state = "FAULT" <=> ~a.valid
    /\ ~a.hello => ~a.pending /\ a.capCache = NoRun
    /\ a.hello => a.nonce \in Nonces
    /\ a.pending \/ a.capCache # NoRun => a.cap.config = a.config /\ a.cap.boot = a.nonce

ChipGood(a, c) ==
    /\ c \in {"active", "standby", "unknown"}
    /\ ~a.hello /\ ~a.active /\ ~a.clock => c = "standby" \/ a.state = "FAULT"

\* The part of TypeOK about everything but the struct and the chip.
RestType ==
    /\ shots \in Nat
    /\ wave \in Nat
    /\ line \in {"fresh", "low", "ready"}
    /\ prev \in BOOLEAN
    /\ gate \in BOOLEAN /\ usb \in BOOLEAN /\ sendDone \in BOOLEAN /\ dropped \in BOOLEAN
    /\ tx \in {"none", "READY", "IN_FLIGHT"}
    /\ left \in 0 .. Segments
    /\ frame \in Captures
    /\ pc \in {"time", "sent", "capture", "io"}

\* The invariant in the terms of this module.
LEMMA InvParts ==
    AppInv <=> /\ AppGood(app) /\ ChipGood(app, chip) /\ RestType
               /\ FrameIsTrue /\ GateMatchesUsb /\ OneTransmission
  BY DEF AppInv, AppGood, ChipGood, RestType, TypeOK, ScheduleIsAuthorised, FaultMeansNoConfig,
         ClosedSessionIsSafe, NothingWithoutSession, CaptureIsCurrent, ScheduleIsSane

LEMMA InvPartsNext ==
    AppInv' <=> /\ AppGood(app') /\ ChipGood(app', chip') /\ RestType'
                /\ FrameIsTrue' /\ GateMatchesUsb' /\ OneTransmission'
  BY DEF AppInv, AppGood, ChipGood, RestType, TypeOK, ScheduleIsAuthorised, FaultMeansNoConfig,
         ClosedSessionIsSafe, NothingWithoutSession, CaptureIsCurrent, ScheduleIsSane

-----------------------------------------------------------------------------
(* Records that stand for nothing, and the schedule's operators. *)

LEMMA Constant ==
    /\ ScheduleInit \in Schedule /\ ~ScheduleInit.active
    /\ NoCapture \in Captures
    /\ NoRun \in RunRequests
    /\ "none" \in Ids
  BY FirmwareConstants
     DEF ScheduleInit, Schedule, NoCapture, Captures, NoRun, RunRequests, Ids, Hashes, Boots

\* What the operators of CaptureSchedule make of a schedule that can be advanced.
Sane(s) == s \in Schedule /\ (s.active => s.period > 0 /\ s.untilDue > 0)

LEMMA AdvanceSane ==
    ASSUME NEW s, Sane(s), NEW e \in Nat
    PROVE  /\ Sane(AdvanceSchedule(s, e))
           /\ AdvanceSchedule(s, e).active => s.active
  <1>1. CASE ~s.active
    BY <1>1 DEF AdvanceSchedule, Sane
  <1>2. CASE s.active /\ e >= s.leaseLeft
    BY <1>2, Constant DEF AdvanceSchedule, Sane
  <1>3. CASE s.active /\ ~(e >= s.leaseLeft) /\ e < s.untilDue
    <2>1. AdvanceSchedule(s, e) = [s EXCEPT !.leaseLeft = @ - e, !.untilDue = @ - e]
      BY <1>3 DEF AdvanceSchedule
    <2>2. s.leaseLeft - e \in Nat /\ s.untilDue - e \in Nat /\ s.untilDue - e > 0
      BY <1>3 DEF Sane, Schedule
    <2>3. QED
      BY <1>3, <2>1, <2>2 DEF Sane, Schedule
  <1>4. CASE s.active /\ ~(e >= s.leaseLeft) /\ ~(e < s.untilDue)
    <2> DEFINE late == e - s.untilDue
               periods == 1 + (late \div s.period)
               q == IF s.due THEN periods ELSE periods - 1
               r == s.period - (late % s.period)
    <2>1. late \in Nat /\ s.period \in Nat /\ s.period > 0 /\ s.leaseLeft - e \in Nat
      BY <1>4 DEF Sane, Schedule
    <2>2. late \div s.period \in Nat /\ late % s.period \in 0 .. (s.period - 1)
      <3> HIDE DEF late
      <3>1. QED
        BY <2>1, SMT
    <2>3. s.missed \in Nat
      BY DEF Sane, Schedule
    <2>4. s.missed + q \in Nat /\ r \in Nat /\ r > 0
      <3> HIDE DEF late
      <3>1. QED
        BY <2>1, <2>2, <2>3
    <2>5. AdvanceSchedule(s, e) =
            [ s EXCEPT !.leaseLeft = @ - e, !.untilDue = r, !.missed = @ + q, !.due = TRUE ]
      BY <1>4 DEF AdvanceSchedule
    <2>6. QED
      <3> HIDE DEF q, r
      <3>1. QED
        BY <1>4, <2>1, <2>4, <2>5 DEF Sane, Schedule
  <1>5. QED
    BY <1>1, <1>2, <1>3, <1>4

LEMMA ClaimSane ==
    ASSUME NEW s, Sane(s)
    PROVE  Sane(ClaimDue(s)) /\ (ClaimDue(s).active => s.active)
  <1>0. s.completed + 1 \in Nat /\ NoId \in ScheduleIds \cup {NoId}
    BY DEF Sane, Schedule
  <1>1. CASE ~s.active \/ ~s.due
    BY <1>1 DEF ClaimDue, Sane
  <1>2. CASE s.active /\ s.due /\ s.limit # 0 /\ s.completed + 1 >= s.limit
    <2> DEFINE c == [ s EXCEPT !.due = FALSE, !.completed = s.completed + 1, !.active = FALSE,
                               !.id = NoId, !.leaseSeq = 0, !.lastLease = 0, !.leaseLeft = 0 ]
    <2>1. ClaimDue(s) = c
      BY <1>2 DEF ClaimDue
    <2>2. c \in Schedule
      BY <1>0 DEF Sane, Schedule
    <2>3. c.active = FALSE
      BY DEF Sane, Schedule
    <2>4. QED
      BY <2>1, <2>2, <2>3 DEF Sane
  <1>3. CASE s.active /\ s.due /\ ~(s.limit # 0 /\ s.completed + 1 >= s.limit)
    <2>1. ClaimDue(s) = [s EXCEPT !.due = FALSE, !.completed = s.completed + 1]
      BY <1>3 DEF ClaimDue
    <2>2. QED
      BY <1>0, <1>3, <2>1 DEF Sane, Schedule
  <1>4. QED
    BY <1>1, <1>2, <1>3

LEMMA StartSane ==
    ASSUME NEW s, Sane(s), NEW id \in ScheduleIds \cup {NoId}, NEW p \in Nat, NEW n \in Nat,
           NEW l \in Nat
    PROVE  Sane(StartSchedule(s, id, p, n, l))
  <1>1. l * UsPerMs \in Nat
    BY ScheduleConstants
  <1>2. CASE StartResult(s, id, p, n, l) # "OK"
    BY <1>2 DEF StartSchedule
  <1>3. CASE StartResult(s, id, p, n, l) = "OK"
    <2>1. p > 0
      BY <1>3, ScheduleConstants DEF StartResult
    <2>2. StartSchedule(s, id, p, n, l) =
            [ active |-> TRUE, due |-> FALSE, id |-> id, period |-> p,
              untilDue |-> p, limit |-> n, completed |-> 0, missed |-> 0,
              leaseSeq |-> 0, lastLease |-> l, leaseLeft |-> l * UsPerMs ]
      BY <1>3 DEF StartSchedule, ScheduleInit
    <2>3. QED
      BY <1>1, <2>1, <2>2 DEF Sane, Schedule
  <1>4. QED
    BY <1>2, <1>3

LEMMA RenewSane ==
    ASSUME NEW s, Sane(s), NEW id, NEW q \in Nat, NEW l \in Nat
    PROVE  Sane(RenewSchedule(s, id, q, l)) /\ (RenewSchedule(s, id, q, l).active => s.active)
  <1>1. l * UsPerMs \in Nat
    BY ScheduleConstants
  <1>2. QED
    BY <1>1 DEF RenewSchedule, Sane, Schedule

LEMMA StopSane ==
    ASSUME NEW s, Sane(s), NEW id
    PROVE  Sane(StopSchedule(s, id)) /\ (StopSchedule(s, id).active => s.active)
  BY Constant DEF StopSchedule, Sane

\* A good struct holds a schedule that can be advanced.
LEMMA GoodIsSane == ASSUME NEW a, AppGood(a) PROVE Sane(a.periodic)
  BY DEF AppGood, Apps, Sane

-----------------------------------------------------------------------------
(* The end of a session. *)

LEMMA EndSessionGood ==
    ASSUME NEW a, AppGood(a), NEW s \in ForceSafe
    PROVE  /\ AppGood(EndSession(a, s.ok))
           /\ ChipGood(EndSession(a, s.ok), s.chip)
           /\ ~EndSession(a, s.ok).pending /\ ~EndSession(a, s.ok).hello
  <1> DEFINE b == EndSession(a, s.ok)
  <1>0. s.ok \in BOOLEAN /\ s.chip \in {"standby", "unknown"} /\ (s.ok => s.chip = "standby")
    <2>1. CASE s = [ok |-> TRUE, chip |-> "standby"]
      BY <2>1
    <2>2. CASE s = [ok |-> FALSE, chip |-> "unknown"]
      BY <2>2
    <2>3. QED
      BY <2>1, <2>2 DEF ForceSafe
  <1>1. /\ b.hello = FALSE /\ b.nonce = NoNonce /\ b.setCache = "none" /\ b.loopCache = "none"
        /\ b.capCache = NoRun /\ b.pending = FALSE /\ b.active = FALSE
        /\ b.periodic = ScheduleInit /\ b.valid = (a.valid /\ s.ok)
        /\ b.state = IF s.ok /\ a.state # "FAULT" THEN "SESSION_WAIT" ELSE "FAULT"
    BY DEF EndSession, AppGood, Apps
  <1>2. b \in Apps
    BY <1>0, Constant DEF EndSession, AppGood, Apps, Boots, States
  <1>3. b.state = "FAULT" <=> ~b.valid
    <2>1. CASE s.ok = TRUE
      BY <1>1, <2>1 DEF AppGood, Apps
    <2>2. CASE s.ok = FALSE
      BY <1>1, <2>2 DEF AppGood, Apps
    <2>3. QED
      BY <1>0, <2>1, <2>2
  <1>4. AppGood(b)
    BY <1>1, <1>2, <1>3, Constant DEF AppGood
  <1>5. ChipGood(b, s.chip)
    BY <1>0, <1>1 DEF ChipGood
  <1>6. QED
    BY <1>1, <1>4, <1>5

\* A response is sent, or the session ends because it cannot be.
LEMMA RespondInv ==
    ASSUME AppInv, Input, NEW a, NEW c, AppGood(a), ChipGood(a, c), Respond(a, c),
           shots' \in Nat, wave' \in Nat
    PROVE  AppInv'
  <1>0. RestType /\ FrameIsTrue /\ GateMatchesUsb /\ OneTransmission /\ tx = "none" /\ ~gate
    BY InvParts DEF Input, FrameIsTrue
  <1>1. /\ sendDone' = FALSE /\ pc' = "time"
        /\ UNCHANGED <<line, prev, dropped, tx, left, frame>>
    BY DEF Respond, stream
  <1>2. FrameIsTrue'
    BY <1>0, <1>1 DEF FrameIsTrue
  <1>3. CASE app' = a /\ chip' = c /\ gate' = TRUE /\ usb' = TRUE
    <2>1. RestType' /\ GateMatchesUsb' /\ OneTransmission'
      BY <1>0, <1>1, <1>3 DEF RestType, GateMatchesUsb, OneTransmission
    <2>2. QED
      BY <1>2, <1>3, <2>1, InvPartsNext
  <1>4. CASE /\ \E s \in ForceSafe : app' = EndSession(a, s.ok) /\ chip' = s.chip
             /\ UNCHANGED <<gate, usb>>
    <2>1. RestType' /\ GateMatchesUsb' /\ OneTransmission'
      BY <1>0, <1>1, <1>4 DEF RestType, GateMatchesUsb, OneTransmission
    <2>2. AppGood(app') /\ ChipGood(app', chip')
      BY <1>4, EndSessionGood
    <2>3. QED
      BY <1>2, <2>1, <2>2, InvPartsNext
  <1>5. QED
    BY <1>3, <1>4 DEF Respond
-----------------------------------------------------------------------------
(* The head of the loop. *)

\* Time and clock faults leave a good struct, and end a schedule where they call
\* force_safe; without a session they leave the chip alone or latch the fault.
LEMMA HeadGood ==
    ASSUME NEW a, AppGood(a), NEW e \in Nat, NEW fault \in BOOLEAN
    PROVE  LET b == AfterClock(AfterTime(a, e), fault) IN
           /\ AppGood(b)
           /\ b.pending = a.pending /\ b.cap = a.cap /\ b.hello = a.hello
           /\ b.active = a.active /\ b.state = a.state /\ b.nonce = a.nonce
           /\ ~b.clock => ~(fault /\ ~a.clock) /\ ~a.clock
  <1> DEFINE t == AfterTime(a, e)
             b == AfterClock(t, fault)
             p == AdvanceSchedule(a.periodic, e)
             x == a.periodic.active /\ AdvanceResult(a.periodic, e) = "EXPIRED"
  <1> SUFFICES /\ AppGood(b)
               /\ b.pending = a.pending /\ b.cap = a.cap /\ b.hello = a.hello
               /\ b.active = a.active /\ b.state = a.state /\ b.nonce = a.nonce
               /\ ~b.clock => ~(fault /\ ~a.clock) /\ ~a.clock
    OBVIOUS
  <1>0. Sane(p) /\ (p.active => a.periodic.active)
    BY GoodIsSane, AdvanceSane
  <1>1. t = [a EXCEPT !.periodic = p, !.error = IF x THEN "LEASE_EXPIRED" ELSE @]
    BY DEF AfterTime
  <1>2. /\ AppGood(t)
        /\ t.pending = a.pending /\ t.cap = a.cap /\ t.hello = a.hello /\ t.active = a.active
        /\ t.state = a.state /\ t.nonce = a.nonce /\ t.clock = a.clock
    <2> HIDE DEF t, p, x
    <2>1. t \in Apps
      BY <1>0, <1>1 DEF AppGood, Apps, Sane, Errors
    <2>2. /\ t.periodic = p /\ t.hello = a.hello /\ t.nonce = a.nonce /\ t.clock = a.clock
          /\ t.state = a.state /\ t.valid = a.valid /\ t.pending = a.pending
          /\ t.capCache = a.capCache /\ t.cap = a.cap /\ t.config = a.config
          /\ t.active = a.active
      BY <1>1 DEF AppGood, Apps
    <2>3. QED
      BY <1>0, <2>1, <2>2 DEF AppGood, Sane
  <1>3. CASE ~fault \/ t.clock
    <2>1. b = t
      BY <1>3 DEF AfterClock
    <2> HIDE DEF b, t
    <2>2. QED
      BY <1>2, <1>3, <2>1
  <1>4. CASE ~(~fault \/ t.clock)
    <2> DEFINE q == IF t.periodic.active THEN ScheduleInit ELSE t.periodic
    <2>1. b = [t EXCEPT !.clock = TRUE, !.error = "TIMING_UNCALIBRATED", !.periodic = q]
      BY <1>4 DEF AfterClock
    <2>2. q \in Schedule /\ ~q.active
      BY <1>2, Constant DEF AppGood, Apps
    <2> HIDE DEF b, t, q
    <2>3. b \in Apps
      BY <1>2, <2>1, <2>2 DEF AppGood, Apps, Errors
    <2>4. /\ b.periodic = q /\ b.hello = t.hello /\ b.nonce = t.nonce /\ b.clock = TRUE
          /\ b.state = t.state /\ b.valid = t.valid /\ b.pending = t.pending
          /\ b.capCache = t.capCache /\ b.cap = t.cap /\ b.config = t.config
          /\ b.active = t.active
      BY <1>2, <2>1 DEF AppGood, Apps
    <2>5. QED
      BY <1>2, <2>2, <2>3, <2>4 DEF AppGood
  <1>5. QED
    BY <1>3, <1>4

LEMMA HeadInv == AppInv /\ Head => AppInv'
  <1> SUFFICES ASSUME AppInv, Head PROVE AppInv'
    OBVIOUS
  <1>0. AppGood(app) /\ ChipGood(app, chip) /\ RestType /\ FrameIsTrue /\ GateMatchesUsb
        /\ OneTransmission
    BY InvParts
  <1>1. PICK e \in Elapsed \cup {0}, fault \in BOOLEAN, s \in ForceSafe :
          /\ app' = AfterClock(AfterTime(app, e), fault)
          /\ chip' = ChipAfterHead(app, e, fault, s)
    BY DEF Head
  <1>2. e \in Nat
    BY FirmwareConstants
  <1>3. /\ AppGood(app')
        /\ app'.pending = app.pending /\ app'.cap = app.cap /\ app'.hello = app.hello
        /\ app'.active = app.active /\ app'.state = app.state
        /\ ~app'.clock => ~(fault /\ ~app.clock) /\ ~app.clock
    BY <1>0, <1>1, <1>2, HeadGood
  <1>4. s.chip \in {"standby", "unknown"}
    BY DEF ForceSafe
  <1>5. ChipGood(app', chip')
    <2>1. chip' \in {"active", "standby", "unknown"}
      BY <1>0, <1>1, <1>4 DEF ChipGood, ChipAfterHead
    <2>2. ASSUME ~app'.hello, ~app'.active, ~app'.clock
          PROVE  chip' = "standby" \/ app'.state = "FAULT"
      <3>1. ~app.periodic.active
        BY <1>0, <1>3, <2>2 DEF AppGood
      <3>2. chip' = chip
        BY <1>1, <1>3, <2>2, <3>1 DEF ChipAfterHead
      <3>3. QED
        BY <1>0, <1>3, <2>2, <3>2 DEF ChipGood
    <2>3. QED
      BY <2>1, <2>2 DEF ChipGood
  <1>6. RestType' /\ FrameIsTrue' /\ GateMatchesUsb' /\ OneTransmission'
    <2>1. /\ prev' = dtr /\ pc' = "sent"
          /\ UNCHANGED <<shots, wave, line, gate, usb, sendDone, dropped, tx, left, frame>>
      BY DEF Head, link, stream
    <2>2. QED
      BY <1>0, <1>3, <2>1 DEF RestType, FrameIsTrue, GateMatchesUsb, OneTransmission, dtr
  <1>7. QED
    BY <1>3, <1>5, <1>6, InvPartsNext

LEMMA StreamEnds ==
    ASSUME NoStream
    PROVE  tx' = "none" /\ left' \in 0 .. Segments /\ frame' \in Captures /\ FrameIsTrue'
  <1>1. tx' = "none" /\ left' = 0 /\ frame' = NoCapture
    BY DEF NoStream
  <1>2. 0 \in 0 .. Segments
    BY FirmwareConstants
  <1>3. QED
    BY <1>1, <1>2, Constant DEF FrameIsTrue

LEMMA HeadEndsSessionInv == AppInv /\ HeadEndsSession => AppInv'
  <1> SUFFICES ASSUME AppInv, HeadEndsSession PROVE AppInv'
    OBVIOUS
  <1>0. AppGood(app) /\ RestType
    BY InvParts
  <1>1. PICK e \in Elapsed \cup {0}, fault \in BOOLEAN, s \in ForceSafe :
          app' = EndSession(AfterClock(AfterTime(app, e), fault), s.ok) /\ chip' = s.chip
    BY DEF HeadEndsSession
  <1>2. e \in Nat
    BY FirmwareConstants
  <1>3. AppGood(AfterClock(AfterTime(app, e), fault))
    BY <1>0, <1>2, HeadGood
  <1>4. AppGood(app') /\ ChipGood(app', chip')
    BY <1>1, <1>3, EndSessionGood
  <1>5. RestType' /\ FrameIsTrue' /\ GateMatchesUsb' /\ OneTransmission'
    BY <1>0, StreamEnds DEF HeadEndsSession, RestType, GateMatchesUsb, OneTransmission
  <1>6. QED
    BY <1>4, <1>5, InvPartsNext

-----------------------------------------------------------------------------
(* Transmission. *)

\* The struct and the chip are left alone, or the struct only stops pending.
LEMMA SentInv == AppInv /\ Sent => AppInv'
  <1> SUFFICES ASSUME AppInv, Sent PROVE AppInv'
    OBVIOUS
  <1>0. AppGood(app) /\ ChipGood(app, chip) /\ RestType /\ FrameIsTrue /\ GateMatchesUsb
        /\ OneTransmission
    BY InvParts
  <1>1. sendDone /\ sendDone' = FALSE /\ gate' = FALSE /\ pc' = "capture"
        /\ UNCHANGED <<chip, shots, wave, line, prev, usb, dropped>>
    BY DEF Sent
  <1>2. GateMatchesUsb' /\ OneTransmission'
    BY <1>0, <1>1 DEF GateMatchesUsb, OneTransmission
  <1>3. CASE UNCHANGED <<app, stream>>
    BY <1>0, <1>1, <1>2, <1>3, InvPartsNext DEF stream, RestType, FrameIsTrue
  <1>4. CASE tx = "IN_FLIGHT" /\ left > 1 /\ Commit /\ UNCHANGED app
    <2>1. left - 1 \in 0 .. Segments
      BY <1>0, <1>4, FirmwareConstants DEF RestType
    <2>2. RestType' /\ FrameIsTrue'
      BY <1>0, <1>1, <1>4, <2>1 DEF Commit, RestType, FrameIsTrue
    <2>3. QED
      BY <1>0, <1>1, <1>2, <1>4, <2>2, InvPartsNext
  <1>5. CASE NoStream /\ app' = [app EXCEPT !.pending = FALSE]
    <2>1. RestType' /\ FrameIsTrue'
      BY <1>0, <1>1, <1>5, StreamEnds DEF RestType
    <2>2. AppGood(app')
      BY <1>0, <1>5 DEF AppGood, Apps
    <2>3. ChipGood(app', chip')
      BY <1>0, <1>1, <1>5 DEF AppGood, Apps, ChipGood
    <2>4. QED
      BY <1>2, <2>1, <2>2, <2>3, InvPartsNext
  <1>6. QED
    BY <1>3, <1>4, <1>5 DEF Sent

\* Steps that only move the loop on.
LEMMA IdleInv == AppInv /\ (NothingSent \/ NoPeriodicCapture \/ IoIdle) => AppInv'
  <1> SUFFICES ASSUME AppInv, NothingSent \/ NoPeriodicCapture \/ IoIdle PROVE AppInv'
    OBVIOUS
  <1>0. AppGood(app) /\ ChipGood(app, chip) /\ RestType /\ FrameIsTrue /\ GateMatchesUsb
        /\ OneTransmission
    BY InvParts
  <1>1. /\ pc' \in {"capture", "io", "time"}
        /\ UNCHANGED <<app, chip, shots, wave, line, prev, gate, usb, sendDone, dropped>>
        /\ UNCHANGED <<tx, left, frame>>
    BY DEF NothingSent, NoPeriodicCapture, IoIdle, link, stream
  <1>2. QED
    BY <1>0, <1>1, InvPartsNext DEF RestType, FrameIsTrue, GateMatchesUsb, OneTransmission

LEMMA TransmitInv == AppInv /\ Transmit => AppInv'
  <1> SUFFICES ASSUME AppInv, Transmit PROVE AppInv'
    OBVIOUS
  <1>0. AppGood(app) /\ ChipGood(app, chip) /\ RestType /\ FrameIsTrue /\ GateMatchesUsb
        /\ OneTransmission
    BY InvParts
  <1>1. Output
    BY DEF Transmit, SendSegment, SegmentBusy, SegmentFails
  <1>2. Descriptor = app.cap
    BY <1>0, <1>1 DEF Output, Descriptor, AppGood, Apps, Captures
  <1>3. ASSUME StreamReady
        PROVE  left' \in 0 .. Segments /\ frame' = app.cap
    BY <1>0, <1>2, <1>3, FirmwareConstants DEF StreamReady, RestType, FrameIsTrue
  <1>4. app.cap \in Captures
    BY <1>0 DEF AppGood, Apps
  <1>5. CASE SendSegment
    <2>1. RestType' /\ FrameIsTrue' /\ GateMatchesUsb' /\ OneTransmission'
      BY <1>0, <1>1, <1>3, <1>4, <1>5
         DEF SendSegment, Output, RestType, FrameIsTrue, GateMatchesUsb, OneTransmission
    <2>2. QED
      BY <1>0, <1>5, <2>1, InvPartsNext DEF SendSegment
  <1>6. CASE SegmentBusy
    <2>1. RestType' /\ FrameIsTrue' /\ GateMatchesUsb' /\ OneTransmission'
      BY <1>0, <1>1, <1>3, <1>4, <1>6
         DEF SegmentBusy, Output, RestType, FrameIsTrue, GateMatchesUsb, OneTransmission
    <2>2. QED
      BY <1>0, <1>6, <2>1, InvPartsNext DEF SegmentBusy
  <1>7. CASE SegmentFails
    <2>1. RestType' /\ FrameIsTrue' /\ GateMatchesUsb' /\ OneTransmission'
      BY <1>0, <1>1, <1>7, StreamEnds
         DEF SegmentFails, Output, RestType, GateMatchesUsb, OneTransmission
    <2>2. AppGood(app') /\ ChipGood(app', chip')
      BY <1>0, <1>7, EndSessionGood DEF SegmentFails
    <2>3. QED
      BY <2>1, <2>2, InvPartsNext
  <1>8. QED
    BY <1>5, <1>6, <1>7 DEF Transmit

LEMMA InterruptInv == AppInv /\ (DtrRises \/ DtrFalls \/ UsbReset \/ SendCompletes) => AppInv'
  <1> SUFFICES ASSUME AppInv, DtrRises \/ DtrFalls \/ UsbReset \/ SendCompletes PROVE AppInv'
    OBVIOUS
  <1>0. AppGood(app) /\ ChipGood(app, chip) /\ RestType /\ FrameIsTrue /\ GateMatchesUsb
        /\ OneTransmission
    BY InvParts
  <1>1. UNCHANGED <<app, chip, shots, wave, prev, gate, tx, left, frame, pc>>
    BY DEF DtrRises, DtrFalls, UsbReset, SendCompletes, link, stream
  <1>2. /\ line' \in {"fresh", "low", "ready"}
        /\ usb' \in BOOLEAN /\ sendDone' \in BOOLEAN /\ dropped' \in BOOLEAN
    BY <1>0 DEF RestType, DtrRises, DtrFalls, UsbReset, SendCompletes, link
  <1>3. GateMatchesUsb' /\ OneTransmission'
    BY <1>0 DEF DtrRises, DtrFalls, UsbReset, SendCompletes, link, GateMatchesUsb,
                OneTransmission, RestType
  <1>4. QED
    BY <1>0, <1>1, <1>2, <1>3, InvPartsNext DEF RestType, FrameIsTrue

-----------------------------------------------------------------------------
(* The periodic capture. *)

\* A capture is due only in a session, with nothing pending and no stream.
LEMMA DueMeansSession ==
    ASSUME AppInv, PeriodicDue(app)
    PROVE  app.hello /\ ~app.pending /\ app.nonce \in Nonces /\ tx = "none"
  BY InvParts DEF PeriodicDue, AppGood, FrameIsTrue

\* run_periodic_capture gives up, before or after the capture.
LEMMA PeriodicFailsInv == AppInv /\ (PeriodicApplyFails \/ PeriodicCaptureFails) => AppInv'
  <1> SUFFICES ASSUME AppInv, PeriodicApplyFails \/ PeriodicCaptureFails PROVE AppInv'
    OBVIOUS
  <1>0. AppGood(app) /\ ChipGood(app, chip) /\ RestType /\ FrameIsTrue /\ GateMatchesUsb
        /\ OneTransmission /\ app.hello /\ tx = "none"
    BY InvParts, DueMeansSession DEF PeriodicApplyFails, PeriodicCaptureFails
  <1>1. PICK err \in Errors : app' = [app EXCEPT !.error = err, !.periodic = ScheduleInit]
    BY DEF PeriodicApplyFails, PeriodicCaptureFails, Errors
  <1>2. /\ app' \in Apps /\ app'.periodic = ScheduleInit /\ app'.hello = app.hello
        /\ app'.state = app.state /\ app'.valid = app.valid /\ app'.pending = app.pending
        /\ app'.capCache = app.capCache /\ app'.cap = app.cap /\ app'.config = app.config
        /\ app'.nonce = app.nonce
    BY <1>0, <1>1, Constant DEF AppGood, Apps
  <1>3. AppGood(app')
    BY <1>0, <1>2, Constant DEF AppGood
  <1>4. PICK s \in ForceSafe : chip' = s.chip
    BY DEF PeriodicApplyFails, PeriodicCaptureFails
  <1>5. ChipGood(app', chip')
    <2>1. s.chip \in {"standby", "unknown"}
      BY DEF ForceSafe
    <2>2. QED
      BY <1>0, <1>2, <1>4, <2>1 DEF ChipGood
  <1>6. /\ shots' \in Nat /\ wave' \in Nat /\ pc' = "io"
        /\ UNCHANGED <<line, prev, gate, usb, sendDone, dropped, tx, left, frame>>
    BY <1>0 DEF RestType, PeriodicApplyFails, PeriodicCaptureFails, link, stream
  <1>7. RestType' /\ FrameIsTrue' /\ GateMatchesUsb' /\ OneTransmission'
    BY <1>0, <1>6 DEF RestType, FrameIsTrue, GateMatchesUsb, OneTransmission
  <1>8. QED
    BY <1>3, <1>5, <1>7, InvPartsNext

LEMMA PeriodicCaptureInv == AppInv /\ PeriodicCapture => AppInv'
  <1> SUFFICES ASSUME AppInv, PeriodicCapture PROVE AppInv'
    OBVIOUS
  <1>0. AppGood(app) /\ ChipGood(app, chip) /\ RestType /\ FrameIsTrue /\ GateMatchesUsb
        /\ OneTransmission /\ app.hello /\ app.nonce \in Nonces /\ tx = "none"
    BY InvParts, DueMeansSession DEF PeriodicCapture
  <1> DEFINE c == [ request |-> app.periodicRequest, schedule |-> app.periodic.id,
                    async |-> TRUE, shot |-> shots + 1,
                    config |-> app.config, boot |-> app.nonce ]
             p == ClaimDue(app.periodic)
  <1>1. app' = [app EXCEPT !.cap = c, !.pending = TRUE, !.error = "none", !.periodic = p]
    BY DEF PeriodicCapture
  <1>2. c \in Captures /\ c.config = app.config /\ c.boot = app.nonce
    BY <1>0 DEF AppGood, Apps, Captures, Schedule, Hashes, RestType
  <1>3. Sane(p) /\ (p.active => app.periodic.active)
    BY <1>0, GoodIsSane, ClaimSane
  <1> HIDE DEF c, p
  <1>4. app' \in Apps
    BY <1>0, <1>1, <1>2, <1>3 DEF AppGood, Apps, Sane, Errors
  <1>5. /\ app'.periodic = p /\ app'.cap = c /\ app'.hello = app.hello
        /\ app'.state = app.state /\ app'.valid = app.valid /\ app'.config = app.config
        /\ app'.nonce = app.nonce /\ app'.clock = app.clock
    BY <1>0, <1>1 DEF AppGood, Apps
  <1>6. AppGood(app')
    BY <1>0, <1>2, <1>3, <1>4, <1>5 DEF AppGood, Sane
  <1>7. PICK s \in ForceSafe : chip' = s.chip
    BY DEF PeriodicCapture
  <1>8. ChipGood(app', chip')
    <2>1. s.chip \in {"standby", "unknown"}
      BY DEF ForceSafe
    <2>2. QED
      BY <1>0, <1>5, <1>7, <2>1 DEF ChipGood
  <1>9. /\ shots' \in Nat /\ wave' \in Nat /\ pc' = "io"
        /\ UNCHANGED <<line, prev, gate, usb, sendDone, dropped, tx, left, frame>>
    BY <1>0 DEF RestType, PeriodicCapture, link, stream
  <1>10. RestType' /\ FrameIsTrue' /\ GateMatchesUsb' /\ OneTransmission'
    BY <1>0, <1>9 DEF RestType, FrameIsTrue, GateMatchesUsb, OneTransmission
  <1>11. QED
    BY <1>6, <1>8, <1>10, InvPartsNext

-----------------------------------------------------------------------------
(* The handlers.  Each leaves a struct that is good with a chip that is; its *)
(* response is RespondInv's.                                                 *)

LEMMA AnswerInv == AppInv /\ Answer => AppInv'
  <1> SUFFICES ASSUME AppInv, Answer PROVE AppInv'
    OBVIOUS
  <1>1. AppGood(app) /\ ChipGood(app, chip) /\ RestType
    BY InvParts
  <1>2. QED
    BY <1>1, RespondInv DEF Answer, RestType

\* The greeting itself, in a struct that has no session or has one of this nonce.
LEMMA GreetGood ==
    ASSUME NEW a, AppGood(a), NEW n \in Nonces, a.hello => a.nonce = n
    PROVE  AppGood(Greet(a, n)) /\ Greet(a, n).hello
  <1> DEFINE b == Greet(a, n)
  <1>1. /\ b \in Apps /\ b.hello = TRUE /\ b.nonce = n /\ b.valid = a.valid
        /\ b.state = IF a.state = "SESSION_WAIT" THEN "IDLE_SAFE" ELSE a.state
        /\ b.periodic = a.periodic /\ b.clock = a.clock /\ b.pending = a.pending
        /\ b.capCache = a.capCache /\ b.cap = a.cap /\ b.config = a.config
    BY DEF AppGood, Apps, Greet, Boots, States
  <1> HIDE DEF b
  <1>2. AppGood(b)
    BY <1>1, FirmwareConstants DEF AppGood
  <1>3. QED
    BY <1>1, <1>2 DEF b

LEMMA HelloInv == ASSUME AppInv, NEW n \in Nonces, Hello(n) PROVE AppInv'
  <1>0. AppGood(app) /\ ChipGood(app, chip) /\ RestType /\ Input
    BY InvParts DEF Hello
  <1>1. shots' \in Nat /\ wave' \in Nat
    BY <1>0 DEF Hello, RestType
  <1>2. CASE app.hello /\ app.nonce # n
    <2>1. PICK s \in ForceSafe : Respond(Greet(EndSession(app, s.ok), n), s.chip)
      BY <1>2 DEF Hello
    <2>2. AppGood(EndSession(app, s.ok)) /\ ~EndSession(app, s.ok).hello
      BY <1>0, EndSessionGood
    <2>3. /\ AppGood(Greet(EndSession(app, s.ok), n))
          /\ Greet(EndSession(app, s.ok), n).hello
      BY <2>2, GreetGood
    <2>4. s.chip \in {"standby", "unknown"}
      BY DEF ForceSafe
    <2>5. QED
      BY <1>0, <1>1, <2>1, <2>3, <2>4, RespondInv DEF ChipGood
  <1>3. CASE ~(app.hello /\ app.nonce # n)
    <2>1. Respond(Greet(app, n), chip)
      BY <1>3 DEF Hello
    <2>2. AppGood(Greet(app, n)) /\ Greet(app, n).hello
      BY <1>0, <1>3, GreetGood
    <2>3. QED
      BY <1>0, <1>1, <2>1, <2>2, RespondInv DEF ChipGood
  <1>4. QED
    BY <1>2, <1>3

\* The chip states that apply_profile and the loopback test may leave.
LEMMA OutcomeChip ==
    ASSUME NEW c \in {"active", "standby", "unknown"}, NEW q \in ApplyProfile(c) \cup RunLoopback
    PROVE  q.chip \in {"active", "standby", "unknown"} /\ q.ok \in BOOLEAN
  <1>1. CASE q \in [ok : {FALSE}, chip : {c, "standby", "unknown"}]
    BY <1>1
  <1>2. CASE \E o \in BOOLEAN, d \in {"active", "standby", "unknown"} : q = [ok |-> o, chip |-> d]
    BY <1>2
  <1>3. QED
    BY <1>1, <1>2 DEF ApplyProfile, RunLoopback

LEMMA SetConfigInv ==
    ASSUME AppInv, NEW id \in Requests, NEW expected \in Hashes, NEW candidate \in Hashes,
           SetConfig(id, expected, candidate)
    PROVE  AppInv'
  <1>0. AppGood(app) /\ ChipGood(app, chip) /\ RestType /\ Input /\ app.hello /\ ~app.pending
    BY InvParts DEF SetConfig, Input
  <1>1. shots' \in Nat /\ wave' \in Nat /\ id \in Ids
    BY <1>0 DEF SetConfig, RestType, Ids
  <1>2. CASE Respond([app EXCEPT !.setCache = id], chip)
    <2> DEFINE a == [app EXCEPT !.setCache = id]
    <2>1. AppGood(a) /\ ChipGood(a, chip)
      BY <1>0, <1>1 DEF AppGood, Apps, ChipGood
    <2>2. QED
      BY <1>0, <1>1, <1>2, <2>1, RespondInv
  <1>3. CASE candidate # NoConfig /\ \E q \in ApplyProfile(chip) : q.ok
               /\ Respond(Configured(app, id, candidate), q.chip)
    <2>1. PICK q \in ApplyProfile(chip) : Respond(Configured(app, id, candidate), q.chip)
      BY <1>3
    <2> DEFINE a == Configured(app, id, candidate)
    <2>2. candidate \in Configs
      BY <1>3 DEF Hashes
    <2>3. /\ a \in Apps /\ a.config = candidate /\ a.valid = TRUE /\ a.active = TRUE
          /\ a.capCache = NoRun /\ a.state = "IDLE_SAFE" /\ a.pending = app.pending
          /\ a.hello = app.hello /\ a.nonce = app.nonce /\ a.periodic = app.periodic
          /\ a.clock = app.clock
      BY <1>0, <1>1, <2>2, Constant DEF Configured, AppGood, Apps, States
    <2> HIDE DEF a
    <2>4. AppGood(a)
      BY <1>0, <2>3 DEF AppGood
    <2>5. q.chip \in {"active", "standby", "unknown"}
      BY <1>0, OutcomeChip DEF ChipGood
    <2>6. ChipGood(a, q.chip)
      BY <1>0, <2>3, <2>5 DEF ChipGood
    <2>7. Respond(a, q.chip)
      BY <2>1 DEF a
    <2>8. QED
      BY <1>0, <1>1, <2>4, <2>6, <2>7, RespondInv
  <1>4. CASE \E q \in ApplyProfile(chip) : Respond(ConfigFailed(app, id), q.chip)
    <2>1. PICK q \in ApplyProfile(chip) : Respond(ConfigFailed(app, id), q.chip)
      BY <1>4
    <2> DEFINE a == ConfigFailed(app, id)
    <2>2. /\ a \in Apps /\ a.config = app.config /\ a.valid = FALSE
          /\ a.capCache = app.capCache /\ a.state = "FAULT" /\ a.pending = app.pending
          /\ a.hello = app.hello /\ a.nonce = app.nonce /\ a.periodic = app.periodic
          /\ a.clock = app.clock /\ a.cap = app.cap
      BY <1>0, <1>1 DEF ConfigFailed, AppGood, Apps, States
    <2> HIDE DEF a
    <2>3. AppGood(a)
      BY <1>0, <2>2 DEF AppGood
    <2>4. q.chip \in {"active", "standby", "unknown"}
      BY <1>0, OutcomeChip DEF ChipGood
    <2>5. ChipGood(a, q.chip)
      BY <1>0, <2>2, <2>4 DEF ChipGood
    <2>6. Respond(a, q.chip)
      BY <2>1 DEF a
    <2>7. QED
      BY <1>0, <1>1, <2>3, <2>5, <2>6, RespondInv
  <1>5. QED
    BY <1>2, <1>3, <1>4 DEF SetConfig


LEMMA Io2LoopbackInv ==
    ASSUME AppInv, NEW r, r.id \in Requests, Io2Loopback(r)
    PROVE  AppInv'
  <1>0. AppGood(app) /\ ChipGood(app, chip) /\ RestType /\ Input /\ app.hello
    BY InvParts DEF Io2Loopback
  <1>1. shots' \in Nat /\ wave' \in Nat /\ r.id \in Ids
    BY <1>0 DEF Io2Loopback, RestType, Ids
  <1>2. PICK q \in RunLoopback :
          Respond([app EXCEPT !.active = FALSE, !.loopCache = IF q.ok THEN r.id ELSE @], q.chip)
    BY DEF Io2Loopback
  <1> DEFINE a == [app EXCEPT !.active = FALSE, !.loopCache = IF q.ok THEN r.id ELSE @]
  <1>3. q.chip \in {"active", "standby", "unknown"}
    BY OutcomeChip
  <1>4. AppGood(a) /\ a.hello
    BY <1>0, <1>1 DEF AppGood, Apps
  <1>5. ChipGood(a, q.chip)
    BY <1>3, <1>4 DEF ChipGood
  <1>6. QED
    BY <1>0, <1>1, <1>2, <1>4, <1>5, RespondInv

LEMMA CaptureRepeatedInv ==
    ASSUME AppInv, NEW r, r.id \in Requests, CaptureRepeated(r)
    PROVE  AppInv'
  <1>0. AppGood(app) /\ RestType /\ Input /\ app.hello /\ chip \in {"active", "standby", "unknown"}
    BY InvParts DEF CaptureRepeated, ChipGood
  <1>1. shots' \in Nat /\ wave' \in Nat
    BY <1>0 DEF CaptureRepeated, RestType
  <1>2. app.capCache # NoRun
    BY FirmwareConstants DEF CaptureRepeated, NoRun
  <1> DEFINE a == [app EXCEPT !.pending = TRUE]
  <1>3. AppGood(a) /\ a.hello
    BY <1>0, <1>2 DEF AppGood, Apps
  <1>4. ChipGood(a, chip)
    BY <1>0, <1>3 DEF ChipGood
  <1>5. QED
    BY <1>0, <1>1, <1>3, <1>4, RespondInv DEF CaptureRepeated

LEMMA CaptureFailsInv ==
    ASSUME AppInv, NEW r, CaptureApplyFails(r) \/ CaptureFails(r)
    PROVE  AppInv'
  <1>0. AppGood(app) /\ RestType /\ Input /\ app.hello
    BY InvParts DEF CaptureApplyFails, CaptureFails, CaptureGuard
  <1>1. shots' \in Nat /\ wave' \in Nat
    BY <1>0 DEF CaptureApplyFails, CaptureFails, RestType
  <1>2. PICK s \in ForceSafe : Respond([app EXCEPT !.active = FALSE], s.chip)
    BY DEF CaptureApplyFails, CaptureFails
  <1> DEFINE a == [app EXCEPT !.active = FALSE]
  <1>3. AppGood(a) /\ a.hello
    BY <1>0 DEF AppGood, Apps
  <1>4. s.chip \in {"standby", "unknown"}
    BY DEF ForceSafe
  <1>5. ChipGood(a, s.chip)
    BY <1>3, <1>4 DEF ChipGood
  <1>6. QED
    BY <1>0, <1>1, <1>2, <1>3, <1>5, RespondInv

LEMMA CaptureOnceInv ==
    ASSUME AppInv, NEW r \in [id : Requests, hash : Configs], CaptureOnce(r)
    PROVE  AppInv'
  <1>0. AppGood(app) /\ RestType /\ Input /\ app.hello
    BY InvParts DEF CaptureOnce, CaptureGuard
  <1>1. shots' \in Nat /\ wave' \in Nat /\ shots + 1 \in Nat
    BY <1>0 DEF CaptureOnce, RestType
  <1> DEFINE c == [ request |-> r.id, schedule |-> NoId, async |-> FALSE,
                    shot |-> shots + 1, config |-> app.config, boot |-> app.nonce ]
             a == [app EXCEPT !.active = FALSE, !.pending = TRUE, !.capCache = r, !.cap = c]
  <1>2. Respond(a, "standby")
    BY DEF CaptureOnce
  <1>3. c \in Captures /\ c.config = app.config /\ c.boot = app.nonce
    BY <1>0, <1>1 DEF AppGood, Apps, Captures, Hashes, Ids
  <1>4. r \in RunRequests
    BY DEF RunRequests, Ids, Hashes
  <1> HIDE DEF c
  <1>5. a \in Apps
    BY <1>0, <1>3, <1>4 DEF AppGood, Apps
  <1>6. /\ a.cap = c /\ a.hello = app.hello /\ a.nonce = app.nonce /\ a.clock = app.clock
        /\ a.periodic = app.periodic /\ a.state = app.state /\ a.valid = app.valid
        /\ a.config = app.config
    BY <1>0 DEF AppGood, Apps
  <1> HIDE DEF a
  <1>7. AppGood(a) /\ ChipGood(a, "standby")
    BY <1>0, <1>3, <1>5, <1>6 DEF AppGood, ChipGood
  <1>8. QED
    BY <1>0, <1>1, <1>2, <1>7, RespondInv

\* A handler that only replaces the schedule, its request and the error code.
LEMMA ScheduleHandlerGood ==
    ASSUME NEW a, AppGood(a), a.hello, NEW p, Sane(p), p.active => a.periodic.active \/ ~a.clock,
           NEW request \in Ids, NEW err \in Errors
    PROVE  LET b == [a EXCEPT !.periodicRequest = request, !.error = err, !.periodic = p] IN
           AppGood(b) /\ b.hello
  <1> DEFINE b == [a EXCEPT !.periodicRequest = request, !.error = err, !.periodic = p]
  <1>1. b \in Apps
    BY DEF AppGood, Apps, Sane
  <1>2. /\ b.periodic = p /\ b.hello = a.hello /\ b.nonce = a.nonce /\ b.clock = a.clock
        /\ b.state = a.state /\ b.valid = a.valid /\ b.pending = a.pending
        /\ b.capCache = a.capCache /\ b.cap = a.cap /\ b.config = a.config
    BY DEF AppGood, Apps
  <1> SUFFICES AppGood(b) /\ b.hello
    OBVIOUS
  <1> HIDE DEF b
  <1>3. QED
    BY <1>1, <1>2, FirmwareConstants DEF AppGood, Sane

LEMMA ScheduleHandlerInv ==
    ASSUME AppInv, Input, app.hello, UNCHANGED <<shots, wave>>,
           NEW p, Sane(p), p.active => app.periodic.active \/ ~app.clock,
           NEW request \in Ids, NEW err \in Errors, NEW c \in {"active", "standby", "unknown"},
           Respond([app EXCEPT !.periodicRequest = request, !.error = err, !.periodic = p], c)
    PROVE  AppInv'
  <1> DEFINE b == [app EXCEPT !.periodicRequest = request, !.error = err, !.periodic = p]
  <1>1. AppGood(app) /\ RestType
    BY InvParts
  <1>2. AppGood(b) /\ b.hello
    BY <1>1, ScheduleHandlerGood
  <1>3. ChipGood(b, c)
    BY <1>2 DEF ChipGood
  <1>4. shots' \in Nat /\ wave' \in Nat
    BY <1>1 DEF RestType
  <1>5. QED
    BY <1>2, <1>3, <1>4, RespondInv

LEMMA StartPeriodicInv ==
    ASSUME AppInv, NEW request \in Requests, NEW hash, NEW id \in ScheduleIds \cup {NoId},
           NEW period \in Periods, NEW count \in Counts, NEW lease \in Leases,
           StartPeriodic(request, hash, id, period, count, lease)
    PROVE  AppInv'
  <1> DEFINE p == StartSchedule(app.periodic, id, period, count, lease % LeaseMod)
  <1>1. /\ period \in Nat /\ count \in Nat /\ lease \in Nat
        /\ LeaseMod \in Nat /\ LeaseMod > 0
    BY FirmwareConstants
  <1>2. lease % LeaseMod \in Nat
    BY <1>1, SMT
  <1>3. AppGood(app) /\ chip \in {"active", "standby", "unknown"} /\ request \in Ids
    BY InvParts DEF ChipGood, Ids
  <1>4. Sane(p)
    BY <1>1, <1>2, <1>3, GoodIsSane, StartSane
  <1>5. /\ ~app.clock /\ Input /\ app.hello /\ UNCHANGED <<shots, wave>>
        /\ Respond([app EXCEPT !.periodicRequest = request, !.error = "none", !.periodic = p], chip)
    BY DEF StartPeriodic, StartGuard
  <1>6. "none" \in Errors
    BY DEF Errors
  <1> HIDE DEF p
  <1>7. QED
    BY <1>3, <1>4, <1>5, <1>6, ScheduleHandlerInv

LEMMA RenewPeriodicInv ==
    ASSUME AppInv, NEW boot, NEW id, NEW seq \in Sequences, NEW lease \in Leases,
           RenewPeriodic(boot, id, seq, lease)
    PROVE  AppInv'
  <1> DEFINE p == RenewSchedule(app.periodic, id, seq, lease % LeaseMod)
  <1>1. seq \in Nat /\ lease \in Nat /\ LeaseMod \in Nat /\ LeaseMod > 0
    BY FirmwareConstants
  <1>2. lease % LeaseMod \in Nat
    BY <1>1, SMT
  <1>3. AppGood(app) /\ chip \in {"active", "standby", "unknown"}
    BY InvParts DEF ChipGood
  <1>4. Sane(p) /\ (p.active => app.periodic.active)
    BY <1>1, <1>2, <1>3, GoodIsSane, RenewSane
  <1>5. /\ Input /\ app.hello /\ UNCHANGED <<shots, wave>>
        /\ Respond([app EXCEPT !.periodic = p], chip)
    BY DEF RenewPeriodic
  <1> HIDE DEF p
  <1>6. /\ [app EXCEPT !.periodic = p] =
             [app EXCEPT !.periodicRequest = app.periodicRequest, !.error = app.error, !.periodic = p]
        /\ app.periodicRequest \in Ids /\ app.error \in Errors
    BY <1>3 DEF AppGood, Apps
  <1>7. QED
    BY <1>3, <1>4, <1>5, <1>6, ScheduleHandlerInv

LEMMA StopInv ==
    ASSUME AppInv, NEW id, Stop(id)
    PROVE  AppInv'
  <1> DEFINE p == StopSchedule(app.periodic, id)
  <1>1. AppGood(app)
    BY InvParts
  <1>2. Sane(p) /\ (p.active => app.periodic.active)
    BY <1>1, GoodIsSane, StopSane
  <1>3. Input /\ app.hello /\ UNCHANGED <<shots, wave>>
    BY DEF Stop
  <1>4. PICK s \in ForceSafe : Respond([app EXCEPT !.error = "none", !.periodic = p], s.chip)
    BY DEF Stop
  <1> HIDE DEF p
  <1>5. /\ [app EXCEPT !.error = "none", !.periodic = p] =
             [app EXCEPT !.periodicRequest = app.periodicRequest, !.error = "none", !.periodic = p]
        /\ app.periodicRequest \in Ids /\ "none" \in Errors
    BY <1>1 DEF AppGood, Apps, Errors
  <1>6. s.chip \in {"active", "standby", "unknown"}
    BY DEF ForceSafe
  <1>7. Respond([app EXCEPT !.periodicRequest = app.periodicRequest, !.error = "none",
                            !.periodic = p], s.chip)
    BY <1>4, <1>5
  <1>8. app.periodicRequest \in Ids /\ "none" \in Errors
    BY <1>5
  <1>9. QED
    BY <1>2, <1>3, <1>6, <1>7, <1>8, ScheduleHandlerInv

LEMMA HandleInv == AppInv /\ Handle => AppInv'
  <1> SUFFICES ASSUME AppInv, Handle PROVE AppInv'
    OBVIOUS
  <1>1. CASE Answer
    BY <1>1, AnswerInv
  <1>2. CASE \E n \in Nonces : Hello(n)
    BY <1>2, HelloInv
  <1>3. CASE \E id \in Requests, expected \in Hashes, candidate \in Hashes :
               SetConfig(id, expected, candidate)
    BY <1>3, SetConfigInv
  <1>4. CASE \E id \in Requests, hash \in Configs :
               LET r == [id |-> id, hash |-> hash] IN
               \/ Io2Loopback(r) \/ CaptureRepeated(r) \/ CaptureApplyFails(r)
               \/ CaptureFails(r) \/ CaptureOnce(r)
    <2>1. PICK r \in [id : Requests, hash : Configs] :
               \/ Io2Loopback(r) \/ CaptureRepeated(r) \/ CaptureApplyFails(r)
               \/ CaptureFails(r) \/ CaptureOnce(r)
      BY <1>4
    <2>2. r.id \in Requests
      OBVIOUS
    <2>3. QED
      BY <2>1, <2>2, Io2LoopbackInv, CaptureRepeatedInv, CaptureFailsInv, CaptureOnceInv
  <1>5. CASE \E request \in Requests, hash \in Configs, id \in ScheduleIds \cup {NoId},
               period \in Periods, count \in Counts, lease \in Leases :
               StartPeriodic(request, hash, id, period, count, lease)
    BY <1>5, StartPeriodicInv
  <1>6. CASE \E boot \in Nonces, id \in ScheduleIds, seq \in Sequences, lease \in Leases :
               RenewPeriodic(boot, id, seq, lease)
    BY <1>6, RenewPeriodicInv
  <1>7. CASE \E id \in ScheduleIds \cup {NoId} : Stop(id)
    BY <1>7, StopInv
  <1>8. QED
    BY <1>1, <1>2, <1>3, <1>4, <1>5, <1>6, <1>7 DEF Handle

-----------------------------------------------------------------------------
(* The theorems. *)

LEMMA InitInv == Init => AppInv
  <1> SUFFICES ASSUME Init PROVE AppInv
    OBVIOUS
  <1>1. PICK ok \in BOOLEAN :
          app = AppInit(ok) /\ chip \in IF ok THEN {"active"} ELSE {"standby", "unknown"}
    BY DEF Init
  <1>2. AppGood(app)
    <2>1. app \in Apps
      BY <1>1, Constant, FirmwareConstants DEF AppInit, Apps, Boots, States, Errors
    <2>2. /\ app.periodic = ScheduleInit /\ app.state = (IF ok THEN "SESSION_WAIT" ELSE "FAULT")
          /\ app.valid = ok /\ app.pending = FALSE /\ app.capCache = NoRun /\ app.hello = FALSE
      BY <1>1 DEF AppInit
    <2>3. QED
      BY <2>1, <2>2, Constant DEF AppGood
  <1>3. ChipGood(app, chip)
    <2>1. CASE ok = TRUE
      BY <1>1, <2>1 DEF AppInit, ChipGood
    <2>2. CASE ok = FALSE
      BY <1>1, <2>2 DEF AppInit, ChipGood
    <2>3. QED
      BY <2>1, <2>2
  <1>4. RestType /\ FrameIsTrue /\ GateMatchesUsb /\ OneTransmission
    <2>1. 0 \in 0 .. Segments
      BY FirmwareConstants
    <2>2. QED
      BY <2>1, Constant DEF Init, RestType, FrameIsTrue, GateMatchesUsb, OneTransmission
  <1>5. QED
    BY <1>2, <1>3, <1>4, InvParts

LEMMA StepInv == AppInv /\ [Next]_vars => AppInv'
  <1> SUFFICES ASSUME AppInv, [Next]_vars PROVE AppInv'
    OBVIOUS
  <1>1. CASE MainLoop
    BY <1>1, HeadInv, HeadEndsSessionInv, SentInv, IdleInv, PeriodicFailsInv,
       PeriodicCaptureInv, TransmitInv, HandleInv DEF MainLoop
  <1>2. CASE DtrRises \/ DtrFalls \/ UsbReset \/ SendCompletes
    BY <1>2, InterruptInv
  <1>3. CASE UNCHANGED vars
    <2>1. AppGood(app) /\ ChipGood(app, chip) /\ RestType /\ FrameIsTrue /\ GateMatchesUsb
          /\ OneTransmission
      BY InvParts
    <2>2. QED
      BY <1>3, <2>1, InvPartsNext
         DEF vars, RestType, FrameIsTrue, GateMatchesUsb, OneTransmission
  <1>4. QED
    BY <1>1, <1>2, <1>3 DEF Next

(* The invariant of the firmware application: no handler, no pass of the main *)
(* loop and no interrupt breaks what the others rely on.                      *)
THEOREM AppInvariant == Spec => []AppInv
  BY InitInv, StepInv, PTL DEF Spec

(* Every frame carries the configuration and the boot id its capture was      *)
(* taken under, though initialize_pending_capture_stream reads both from the  *)
(* struct when the transmission starts.                                       *)
THEOREM FrameIsTrueAlways == Spec => []FrameIsTrue
  <1>1. AppInv => FrameIsTrue
    BY DEF AppInv
  <1>2. QED
    BY AppInvariant, <1>1, PTL

(* No periodic schedule outlives the session that started it, nor a clock     *)
(* fault.                                                                     *)
THEOREM ScheduleIsAuthorisedAlways == Spec => []ScheduleIsAuthorised
  <1>1. AppInv => ScheduleIsAuthorised
    BY DEF AppInv
  <1>2. QED
    BY AppInvariant, <1>1, PTL

(* The transmit gate is closed exactly while a transmission is under way,     *)
(* completed and not yet noticed, or forgotten by the driver.                 *)
THEOREM GateMatchesUsbAlways == Spec => []GateMatchesUsb
  <1>1. AppInv => GateMatchesUsb
    BY DEF AppInv
  <1>2. QED
    BY AppInvariant, <1>1, PTL

(* After a session the chip is in standby or the device reports FAULT.        *)
THEOREM ClosedSessionIsSafeAlways == Spec => []ClosedSessionIsSafe
  <1>1. AppInv => ClosedSessionIsSafe
    BY DEF AppInv
  <1>2. QED
    BY AppInvariant, <1>1, PTL

(* FAULT and an invalid configuration are reported together, by every handler *)
(* and by the end of a session.                                               *)
THEOREM FaultMeansNoConfigAlways == Spec => []FaultMeansNoConfig
  <1>1. AppInv => FaultMeansNoConfig
    BY DEF AppInv
  <1>2. QED
    BY AppInvariant, <1>1, PTL

(* While a capture is pending no step of the loop fires into the sample       *)
(* buffer: the periodic capture and the handlers are both held back.          *)
THEOREM BufferIsKeptAlways == Spec => BufferIsKept
  <1>1. [Next]_vars => [app.pending => wave' = wave]_vars
    <2> SUFFICES ASSUME [Next]_vars, app.pending PROVE wave' = wave
      OBVIOUS
    <2>1. CASE MainLoop
      <3>1. CASE Handle
        BY <3>1 DEF Handle, Answer, Hello, SetConfig, Io2Loopback, CaptureRepeated,
                    CaptureApplyFails, CaptureFails, CaptureOnce, CaptureGuard, StartPeriodic,
                    RenewPeriodic, Stop, Input
      <3>2. CASE PeriodicApplyFails \/ PeriodicCaptureFails \/ PeriodicCapture
        BY <3>2 DEF PeriodicApplyFails, PeriodicCaptureFails, PeriodicCapture, PeriodicDue
      <3>3. CASE Transmit
        BY <3>3 DEF Transmit, SendSegment, SegmentBusy, SegmentFails
      <3>4. CASE Head \/ HeadEndsSession \/ Sent \/ NothingSent \/ NoPeriodicCapture \/ IoIdle
        BY <3>4 DEF Head, HeadEndsSession, Sent, NothingSent, NoPeriodicCapture, IoIdle
      <3>5. QED
        BY <2>1, <3>1, <3>2, <3>3, <3>4 DEF MainLoop
    <2>2. CASE DtrRises \/ DtrFalls \/ UsbReset \/ SendCompletes
      BY <2>2 DEF DtrRises, DtrFalls, UsbReset, SendCompletes
    <2>3. CASE UNCHANGED vars
      BY <2>3 DEF vars
    <2>4. QED
      BY <2>1, <2>2, <2>3 DEF Next
  <1>2. QED
    BY <1>1, PTL DEF Spec, BufferIsKept

\* A schedule that time has ended has run out of its lease.
LEMMA AdvanceEndsByLease ==
    ASSUME NEW s \in Schedule, s.active, NEW e \in Nat, ~AdvanceSchedule(s, e).active
    PROVE  AdvanceResult(s, e) = "EXPIRED"
  BY DEF AdvanceSchedule, AdvanceResult, Schedule

\* The head of a pass ends a schedule only with a reason for GET_STATUS.
LEMMA HeadReports ==
    ASSUME NEW a, AppGood(a), a.periodic.active, NEW e \in Nat, NEW fault \in BOOLEAN,
           ~AfterClock(AfterTime(a, e), fault).periodic.active
    PROVE  AfterClock(AfterTime(a, e), fault).error # "none"
  <1> DEFINE t == AfterTime(a, e)
             x == a.periodic.active /\ AdvanceResult(a.periodic, e) = "EXPIRED"
  <1>1. t = [a EXCEPT !.periodic = AdvanceSchedule(@, e),
                      !.error = IF x THEN "LEASE_EXPIRED" ELSE @]
    BY DEF AfterTime
  <1>2. a \in Apps /\ a.periodic \in Schedule
    BY DEF AppGood, Apps
  <1>3. t.periodic = AdvanceSchedule(a.periodic, e) /\ (x => t.error = "LEASE_EXPIRED")
    BY <1>1, <1>2 DEF Apps
  <1>4. DOMAIN t = DOMAIN a
    BY <1>1, <1>2
  <1> HIDE DEF t, x
  <1>5. CASE ~fault \/ t.clock
    <2>1. AfterClock(t, fault) = t
      BY <1>5 DEF AfterClock
    <2>2. ~AdvanceSchedule(a.periodic, e).active
      BY <1>3, <2>1 DEF t
    <2>3. x
      BY <1>2, <2>2, AdvanceEndsByLease DEF x
    <2>4. QED
      BY <1>3, <2>1, <2>3 DEF t
  <1>6. CASE ~(~fault \/ t.clock)
    <2>1. AfterClock(t, fault).error = "TIMING_UNCALIBRATED"
      BY <1>2, <1>4, <1>6 DEF AfterClock, Apps
    <2>2. QED
      BY <2>1 DEF t
  <1>7. QED
    BY <1>5, <1>6

(* A schedule that ends inside a living session, without STOP and not with    *)
(* its last capture, leaves its reason for GET_STATUS: an expired lease, a    *)
(* clock fault, a profile or a capture that failed.                           *)
THEOREM UnaskedEndIsReportedAlways == Spec => UnaskedEndIsReported
  <1>1. ASSUME AppInv, [Next]_vars,
               pc # "io", app.periodic.active, ~app'.periodic.active, app'.hello
        PROVE  app'.error # "none" \/ app'.pending
    <2>1. AppGood(app) /\ app \in Apps
      BY <1>1, InvParts DEF AppGood
    <2>2. CASE Head
      <3>1. PICK e \in Elapsed \cup {0}, fault \in BOOLEAN :
              app' = AfterClock(AfterTime(app, e), fault)
        BY <2>2 DEF Head
      <3>2. e \in Nat
        BY FirmwareConstants
      <3>3. QED
        BY <1>1, <2>1, <3>1, <3>2, HeadReports
    <2>3. CASE HeadEndsSession
      <3>1. PICK e \in Elapsed \cup {0}, fault \in BOOLEAN, s \in ForceSafe :
              app' = EndSession(AfterClock(AfterTime(app, e), fault), s.ok)
        BY <2>3 DEF HeadEndsSession
      <3>2. e \in Nat
        BY FirmwareConstants
      <3>3. ~app'.hello
        BY <2>1, <3>1, <3>2, HeadGood, EndSessionGood
      <3>4. QED
        BY <1>1, <3>3
    <2>4. CASE Sent
      <3>1. app'.periodic = app.periodic
        BY <2>1, <2>4 DEF Sent, Apps
      <3>2. QED
        BY <1>1, <3>1
    <2>5. CASE PeriodicApplyFails \/ PeriodicCaptureFails
      BY <2>1, <2>5 DEF PeriodicApplyFails, PeriodicCaptureFails, Apps
    <2>6. CASE PeriodicCapture
      BY <2>1, <2>6 DEF PeriodicCapture, Apps
    <2>7. CASE app' = app
      BY <1>1, <2>7
    <2>8. CASE Handle \/ Transmit \/ IoIdle
      BY <1>1, <2>8 DEF Handle, Answer, Hello, SetConfig, Io2Loopback, CaptureRepeated,
                        CaptureApplyFails, CaptureFails, CaptureOnce, CaptureGuard, StartPeriodic,
                        RenewPeriodic, Stop, Input, Transmit, SendSegment, SegmentBusy,
                        SegmentFails, Output, IoIdle
    <2>9. QED
      BY <1>1, <2>2, <2>3, <2>4, <2>5, <2>6, <2>7, <2>8
         DEF Next, MainLoop, NothingSent, NoPeriodicCapture, DtrRises, DtrFalls, UsbReset,
             SendCompletes, vars
  <1>2. AppInv /\ [Next]_vars =>
          [ pc # "io" /\ app.periodic.active /\ ~app'.periodic.active /\ app'.hello
              => app'.error # "none" \/ app'.pending ]_vars
    BY <1>1
  <1>3. QED
    BY <1>2, AppInvariant, PTL DEF Spec, UnaskedEndIsReported

=============================================================================
