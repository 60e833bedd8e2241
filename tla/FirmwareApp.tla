----------------------------- MODULE FirmwareApp -----------------------------
(***************************************************************************)
(* The firmware application and the main loop that drives it:              *)
(* usac_firmware_app.c, the loop of main.c, usac_tx_gate.c,                *)
(* usac_capture_tx.c and usac_dtr_gate.c, as built for production          *)
(* (USAC_ENABLE_ACQUISITION).                                              *)
(*                                                                         *)
(* app is the struct usac_firmware_app_t; a handler is an action of the    *)
(* loop's last phase.  The loop runs in four phases (pc): the passage of   *)
(* time with clock faults and DTR, the completion of a transmission, the   *)
(* periodic capture, and input or output.  Interrupts (DTR, the end of a   *)
(* transmission) come between any two phases.  A request is known by its   *)
(* id and its payload; a configuration by its name, which stands for its   *)
(* hash.  app.cap, the capture that can be sent, remembers the             *)
(* configuration and the session it was taken under, which the struct does *)
(* not: a frame takes them from app when its transmission starts.          *)
(***************************************************************************)
EXTENDS CaptureSchedule

CONSTANTS
    Nonces,         \* host nonces; the boot id of a session is derived from one
    NoNonce,        \* the cleared nonce and boot id
    Requests,       \* request ids
    Configs,        \* decodable configurations, by hash
    Baseline,       \* d10x4_v1
    NoConfig,       \* the zero hash; as a candidate, one that does not decode
    Periods, Counts, Leases, Sequences,   \* what the host may ask of a schedule
    LeaseMod,       \* 2^16: the handlers cast lease_timeout_ms to uint16_t
    Elapsed,        \* time that may pass before a pass of the loop
    Segments,       \* parts a CAPTURE_DATA frame is sent in
    MaxShots        \* bound on the captures attempted

ASSUME FirmwareConstants ==
    /\ NoNonce \notin Nonces
    /\ NoConfig \notin Configs
    /\ Baseline \in Configs
    /\ "none" \notin Requests
    /\ Periods \subseteq Nat /\ Counts \subseteq Nat
    /\ Leases \subseteq Nat /\ Sequences \subseteq Nat
    /\ Elapsed \subseteq Nat
    /\ LeaseMod \in Nat \ {0}
    /\ Segments \in Nat \ {0}
    /\ MaxShots \in Nat

VARIABLES
    app,        \* the struct
    chip,       \* the TUSS4470: "active", "standby" or "unknown"
    shots,      \* calls of app->capture so far
    wave,       \* the shot whose samples are in g_usac_capture_waveform
    line,       \* the DTR gate: "fresh", "low" or "ready"
    prev,       \* previous_session_ready
    gate,       \* tx_gate.in_flight
    usb,        \* the CDC driver holds a transmission
    sendDone,   \* g_usac_usb_send_complete
    dropped,    \* history: the driver forgot the transmission the gate waits for
    tx,         \* capture_stream_started and capture_tx.state
    left,       \* segments of the stream not yet committed
    frame,      \* the descriptor the stream was started with
    pc          \* the next phase of the main loop

vars == <<app, chip, shots, wave, line, prev, gate, usb, sendDone, dropped, tx, left, frame, pc>>
link == <<gate, usb, sendDone, dropped>>
stream == <<tx, left, frame>>

\* g_usac_dtr_session_ready
dtr == line = "ready"

States == {"SESSION_WAIT", "IDLE_SAFE", "FAULT"}
Errors == {"none", "LEASE_EXPIRED", "TIMING_UNCALIBRATED", "TUSS_DRIVER_FAULT", "ADC_DMA_TIMEOUT"}

Ids == Requests \cup {"none"}
Hashes == Configs \cup {NoConfig}
RunRequests == [id : Ids, hash : Hashes]
Boots == Nonces \cup {NoNonce}
Captures == [ request : Ids, schedule : ScheduleIds \cup {NoId}, async : BOOLEAN,
              shot : Nat, config : Hashes, boot : Boots ]

NoRun == [id |-> "none", hash |-> NoConfig]
NoCapture == [ request |-> "none", schedule |-> NoId, async |-> FALSE,
               shot |-> 0, config |-> NoConfig, boot |-> NoNonce ]

Apps == [ hello : BOOLEAN, nonce : Boots, state : States, config : Configs, valid : BOOLEAN,
          active : BOOLEAN, setCache : Ids, loopCache : Ids,
          capCache : RunRequests, pending : BOOLEAN, cap : Captures,
          periodic : Schedule, periodicRequest : Ids, clock : BOOLEAN, error : Errors ]

TypeOK ==
    /\ app \in Apps
    /\ chip \in {"active", "standby", "unknown"}
    /\ shots \in Nat
    /\ wave \in Nat
    /\ line \in {"fresh", "low", "ready"}
    /\ prev \in BOOLEAN
    /\ gate \in BOOLEAN /\ usb \in BOOLEAN /\ sendDone \in BOOLEAN /\ dropped \in BOOLEAN
    /\ tx \in {"none", "READY", "IN_FLIGHT"}
    /\ left \in 0 .. Segments
    /\ frame \in Captures
    /\ pc \in {"time", "sent", "capture", "io"}

-----------------------------------------------------------------------------
(* The chip, seen from the application.                                     *)

\* What tuss4470_force_safe may return, with the state it leaves.
ForceSafe == {[ok |-> TRUE, chip |-> "standby"], [ok |-> FALSE, chip |-> "unknown"]}

\* What apply_profile may return: an error before the first write leaves the chip
\* as it was, a later one has been closed by an attempt at force_safe.
ApplyProfile(c) ==
    {[ok |-> TRUE, chip |-> "active"]} \cup [ok : {FALSE}, chip : {c, "standby", "unknown"}]

\* What usac_platform_run_io2_loopback may return, and whether it ran the test.
RunLoopback ==
    {[ok |-> TRUE, chip |-> "standby"], [ok |-> TRUE, chip |-> "unknown"],
     [ok |-> FALSE, chip |-> "standby"], [ok |-> FALSE, chip |-> "unknown"]}

-----------------------------------------------------------------------------
(* usac_firmware_app_init, after the boot configuration returned ok. *)
AppInit(ok) ==
    [ hello |-> FALSE, nonce |-> NoNonce, state |-> IF ok THEN "SESSION_WAIT" ELSE "FAULT",
      config |-> Baseline, valid |-> ok, active |-> ok, setCache |-> "none",
      loopCache |-> "none", capCache |-> NoRun, pending |-> FALSE, cap |-> NoCapture,
      periodic |-> ScheduleInit, periodicRequest |-> "none", clock |-> FALSE,
      error |-> IF ok THEN "none" ELSE "TUSS_DRIVER_FAULT" ]

(* usac_firmware_app_end_session, when force_safe returned safe. *)
EndSessionKeepsSchedule(a, safe) ==
    [ a EXCEPT !.hello = FALSE, !.nonce = NoNonce, !.setCache = "none", !.loopCache = "none",
               !.capCache = NoRun, !.pending = FALSE, !.active = FALSE,
               !.valid = @ /\ safe,
               !.state = IF safe /\ @ # "FAULT" THEN "SESSION_WAIT" ELSE "FAULT" ]

EndSessionKeepsCache(a, safe) ==
    [ a EXCEPT !.hello = FALSE, !.nonce = NoNonce, !.setCache = "none", !.loopCache = "none",
               !.pending = FALSE, !.active = FALSE,
               !.periodic = ScheduleInit,
               !.valid = @ /\ safe,
               !.state = IF safe /\ @ # "FAULT" THEN "SESSION_WAIT" ELSE "FAULT" ]

EndSessionIgnoresUnsafe(a, safe) ==
    [ a EXCEPT !.hello = FALSE, !.nonce = NoNonce, !.setCache = "none", !.loopCache = "none",
               !.capCache = NoRun, !.pending = FALSE, !.active = FALSE,
               !.periodic = ScheduleInit,
               !.state = IF @ # "FAULT" THEN "SESSION_WAIT" ELSE "FAULT" ]

EndSession(a, safe) ==
    [ a EXCEPT !.hello = FALSE, !.nonce = NoNonce, !.setCache = "none", !.loopCache = "none",
               !.capCache = NoRun, !.pending = FALSE, !.active = FALSE,
               !.periodic = ScheduleInit,
               !.valid = @ /\ safe,
               !.state = IF safe /\ @ # "FAULT" THEN "SESSION_WAIT" ELSE "FAULT" ]

Init ==
    /\ \E ok \in BOOLEAN : 
         /\ app = AppInit(ok)
         /\ chip \in IF ok THEN {"active"} ELSE {"standby", "unknown"}
    /\ shots = 0 /\ wave = 0
    /\ line = "fresh" /\ prev = FALSE
    /\ gate = FALSE /\ usb = FALSE /\ sendDone = FALSE /\ dropped = FALSE
    /\ tx = "none" /\ left = 0 /\ frame = NoCapture
    /\ pc = "time"

\* capture_stream_started = 0
NoStream == tx' = "none" /\ left' = 0 /\ frame' = NoCapture

-----------------------------------------------------------------------------
(* Interrupts: the DTR gate opens only on a rise after a low it has seen; a  *)
(* fall closes it at once.                                                   *)
DtrRises ==
    /\ line = "low"
    /\ line' = "ready"
    /\ UNCHANGED <<app, chip, shots, wave, prev, link, stream, pc>>

DtrFalls ==
    /\ line # "low"
    /\ line' = "low"
    /\ UNCHANGED <<app, chip, shots, wave, prev, link, stream, pc>>

\* reset_dtr_session, on a bus reset, an enumeration or the loss of VBUS; the
\* driver forgets what it was sending, and a completion not yet noticed is erased.
UsbReset ==
    /\ line' = "fresh"
    /\ usb' = FALSE /\ sendDone' = FALSE
    /\ dropped' = gate
    /\ UNCHANGED <<app, chip, shots, wave, prev, gate, stream, pc>>

\* USBCDC_handleSendCompleted
SendCompletes ==
    /\ usb
    /\ usb' = FALSE /\ sendDone' = TRUE
    /\ UNCHANGED <<app, chip, shots, wave, line, prev, gate, dropped, stream, pc>>

-----------------------------------------------------------------------------
(* The head of the loop: usac_firmware_app_advance_time, then                *)
(* usac_firmware_app_update_clock_faults, then the end of a session whose    *)
(* DTR has fallen since the last pass.                                       *)

AfterTime(a, e) ==
    LET expired == a.periodic.active /\ AdvanceResult(a.periodic, e) = "EXPIRED"
    IN  [ a EXCEPT !.periodic = AdvanceSchedule(@, e),
                   !.error = IF expired THEN "LEASE_EXPIRED" ELSE @ ]

\* Clock faults stay latched: only the first one acts.
AfterClockKeepsSchedule(a, fault) ==
    IF ~fault \/ a.clock THEN a
    ELSE [ a EXCEPT !.clock = TRUE, !.error = "TIMING_UNCALIBRATED" ]

AfterClockSilent(a, fault) ==
    IF ~fault \/ a.clock THEN a
    ELSE [ a EXCEPT !.clock = TRUE, !.periodic = IF @.active THEN ScheduleInit ELSE @ ]

AfterClock(a, fault) ==
    IF ~fault \/ a.clock THEN a
    ELSE [ a EXCEPT !.clock = TRUE, !.error = "TIMING_UNCALIBRATED",
                    !.periodic = IF @.active THEN ScheduleInit ELSE @ ]

\* Which of the two steps called force_safe, and what the chip is left in.
ChipAfterHead(a, e, fault, s) ==
    IF \/ a.periodic.active /\ AdvanceResult(a.periodic, e) = "EXPIRED"
       \/ fault /\ ~a.clock
    THEN s.chip ELSE chip

Head ==
    /\ pc = "time"
    /\ dtr \/ ~prev
    /\ \E e \in Elapsed \cup {0}, fault \in BOOLEAN, s \in ForceSafe :
         /\ app' = AfterClock(AfterTime(app, e), fault)
         /\ chip' = ChipAfterHead(app, e, fault, s)
    /\ prev' = dtr
    /\ pc' = "sent"
    /\ UNCHANGED <<shots, wave, line, link, stream>>

\* abort_usb_response, the parser's reset and usac_firmware_app_end_session.
HeadEndsSessionLeaksGate ==
    /\ pc = "time"
    /\ ~dtr /\ prev
    /\ \E e \in Elapsed \cup {0}, fault \in BOOLEAN, s \in ForceSafe :
         /\ app' = EndSession(AfterClock(AfterTime(app, e), fault), s.ok)
         /\ chip' = s.chip
    /\ prev' = FALSE
    /\ usb' = FALSE /\ sendDone' = FALSE /\ dropped' = FALSE
    /\ NoStream
    /\ pc' = "sent"
    /\ UNCHANGED <<shots, wave, line, gate>>

HeadEndsSession ==
    /\ pc = "time"
    /\ ~dtr /\ prev
    /\ \E e \in Elapsed \cup {0}, fault \in BOOLEAN, s \in ForceSafe :
         /\ app' = EndSession(AfterClock(AfterTime(app, e), fault), s.ok)
         /\ chip' = s.chip
    /\ prev' = FALSE
    /\ gate' = FALSE /\ usb' = FALSE /\ sendDone' = FALSE /\ dropped' = FALSE
    /\ NoStream
    /\ pc' = "sent"
    /\ UNCHANGED <<shots, wave, line>>

-----------------------------------------------------------------------------
(* The completion of a transmission: usac_capture_tx_on_send_completed for a *)
(* segment, then usac_tx_gate_completed.                                     *)
CommitForgotten == tx' = "READY" /\ UNCHANGED <<left, frame>>

\* usac_capture_stream_commit, with more to send
Commit == tx' = "READY" /\ left' = left - 1 /\ UNCHANGED frame

Sent ==
    /\ pc = "sent" /\ sendDone
    /\ sendDone' = FALSE
    /\ gate' = FALSE
    /\ \/ tx # "IN_FLIGHT" /\ UNCHANGED <<app, stream>>
       \/ tx = "IN_FLIGHT" /\ left > 1 /\ Commit /\ UNCHANGED app
       \/ tx = "IN_FLIGHT" /\ left = 1 /\ NoStream /\ app' = [app EXCEPT !.pending = FALSE]
    /\ pc' = "capture"
    /\ UNCHANGED <<chip, shots, wave, line, prev, usb, dropped>>

NothingSent ==
    /\ pc = "sent" /\ ~sendDone
    /\ pc' = "capture"
    /\ UNCHANGED <<app, chip, shots, wave, line, prev, link, stream>>

-----------------------------------------------------------------------------
(* The periodic capture. *)

PeriodicDueWhilePending(a) == a.periodic.active /\ a.periodic.due /\ ~a.clock

PeriodicDue(a) == a.periodic.active /\ a.periodic.due /\ ~a.clock /\ ~a.pending

NoPeriodicCapture ==
    /\ pc = "capture"
    /\ ~(dtr /\ PeriodicDue(app))
    /\ pc' = "io"
    /\ UNCHANGED <<app, chip, shots, wave, line, prev, link, stream>>

\* run_periodic_capture gives up: the profile cannot be applied.
PeriodicApplyFails ==
    /\ pc = "capture"
    /\ dtr /\ PeriodicDue(app)
    /\ app' = [app EXCEPT !.error = "TUSS_DRIVER_FAULT", !.periodic = ScheduleInit]
    /\ \E s \in ForceSafe : chip' = s.chip
    /\ pc' = "io"
    /\ UNCHANGED <<shots, wave, line, prev, link, stream>>

\* run_periodic_capture gives up after the capture: it timed out, or the chip
\* reported a fault; what reached the buffer stays there.
PeriodicCaptureFails ==
    /\ pc = "capture"
    /\ dtr /\ PeriodicDue(app)
    /\ shots < MaxShots
    /\ shots' = shots + 1 /\ wave' = shots + 1
    /\ \E err \in {"TUSS_DRIVER_FAULT", "ADC_DMA_TIMEOUT"} :
         app' = [app EXCEPT !.error = err, !.periodic = ScheduleInit]
    /\ \E s \in ForceSafe : chip' = s.chip
    /\ pc' = "io"
    /\ UNCHANGED <<line, prev, link, stream>>

PeriodicCapture ==
    /\ pc = "capture"
    /\ dtr /\ PeriodicDue(app)
    /\ shots < MaxShots
    /\ shots' = shots + 1 /\ wave' = shots + 1
    /\ app' = [ app EXCEPT
                 !.cap = [ request |-> app.periodicRequest, schedule |-> app.periodic.id,
                           async |-> TRUE, shot |-> shots + 1,
                           config |-> app.config, boot |-> app.nonce ],
                 !.pending = TRUE, !.error = "none", !.periodic = ClaimDue(@) ]
    /\ \E s \in ForceSafe : chip' = s.chip
    /\ pc' = "io"
    /\ UNCHANGED <<line, prev, link, stream>>

-----------------------------------------------------------------------------
(* Output: send_next_capture_segment, when the gate is free and a capture is *)
(* pending.                                                                  *)

Output == pc = "io" /\ dtr /\ ~gate /\ app.pending

\* initialize_pending_capture_stream: the descriptor is read from app now.
Descriptor ==
    [ request |-> app.cap.request, schedule |-> app.cap.schedule, async |-> app.cap.async,
      shot |-> app.cap.shot, config |-> app.config, boot |-> app.nonce ]

StreamReady ==
    IF tx = "none" THEN left' = Segments /\ frame' = Descriptor
                   ELSE UNCHANGED <<left, frame>>

SendSegment ==
    /\ Output
    /\ StreamReady
    /\ tx' = "IN_FLIGHT" /\ gate' = TRUE /\ usb' = TRUE /\ sendDone' = FALSE
    /\ pc' = "time"
    /\ UNCHANGED <<app, chip, shots, wave, line, prev, dropped>>

SegmentBusy ==
    /\ Output
    /\ StreamReady
    /\ tx' = "READY" /\ sendDone' = FALSE
    /\ pc' = "time"
    /\ UNCHANGED <<app, chip, shots, wave, line, prev, gate, usb, dropped>>

SegmentFails ==
    /\ Output
    /\ NoStream /\ sendDone' = FALSE
    /\ \E s \in ForceSafe : app' = EndSession(app, s.ok) /\ chip' = s.chip
    /\ pc' = "time"
    /\ UNCHANGED <<shots, wave, line, prev, gate, usb, dropped>>

\* Nothing to send or to read, the gate is taken, or USB is not active.
IoIdle ==
    /\ pc = "io"
    /\ pc' = "time"
    /\ UNCHANGED <<app, chip, shots, wave, line, prev, link, stream>>

-----------------------------------------------------------------------------
(* Input: process_usb_input takes one frame and sends its response; a send   *)
(* that cannot be started ends the session.                                  *)

Input == pc = "io" /\ dtr /\ ~gate /\ ~app.pending

\* The handler has left the struct as a and the chip as c.
Respond(a, c) ==
    /\ \/ /\ app' = a /\ chip' = c
          /\ gate' = TRUE /\ usb' = TRUE
       \/ /\ \E s \in ForceSafe : app' = EndSession(a, s.ok) /\ chip' = s.chip
          /\ UNCHANGED <<gate, usb>>
    /\ sendDone' = FALSE
    /\ pc' = "time"
    /\ UNCHANGED <<line, prev, dropped, stream>>

\* GET_CONFIG, GET_STATUS, GET_CAPABILITIES, unknown types, and every request
\* that is refused before it has an effect.
Answer ==
    /\ Input
    /\ Respond(app, chip)
    /\ UNCHANGED <<shots, wave>>

(* handle_hello *)
Greet(a, n) ==
    [ a EXCEPT !.hello = TRUE, !.nonce = n,
               !.state = IF @ = "SESSION_WAIT" THEN "IDLE_SAFE" ELSE @ ]

Hello(n) ==
    /\ Input
    /\ IF app.hello /\ app.nonce # n
       THEN \E s \in ForceSafe : Respond(Greet(EndSession(app, s.ok), n), s.chip)
       ELSE Respond(Greet(app, n), chip)
    /\ UNCHANGED <<shots, wave>>

(* handle_set_config and execute_set_config.  A response, be it an error, is *)
(* remembered with its request: the same request is answered from the cache, *)
(* the same id with another payload is refused, and neither has an effect.   *)
ConfiguredKeepsCache(a, id, candidate) ==
    [ a EXCEPT !.config = candidate, !.valid = TRUE, !.active = TRUE, !.loopCache = "none",
               !.state = "IDLE_SAFE", !.setCache = id ]

Configured(a, id, candidate) ==
    [ a EXCEPT !.config = candidate, !.valid = TRUE, !.active = TRUE, !.loopCache = "none",
               !.capCache = NoRun, !.state = "IDLE_SAFE", !.setCache = id ]

ConfigFailed(a, id) ==
    [ a EXCEPT !.valid = FALSE, !.active = FALSE, !.state = "FAULT", !.setCache = id ]

SetConfig(id, expected, candidate) ==
    /\ Input /\ app.hello
    /\ app.setCache # id
    /\ IF expected # (IF app.valid THEN app.config ELSE NoConfig) \/ candidate = NoConfig
       THEN Respond([app EXCEPT !.setCache = id], chip)
       ELSE \E p \in ApplyProfile(chip) :
              Respond(IF p.ok THEN Configured(app, id, candidate) ELSE ConfigFailed(app, id),
                      p.chip)
    /\ UNCHANGED <<shots, wave>>

(* handle_io2_loopback, once the guards have passed *)
Io2Loopback(r) ==
    /\ Input /\ app.hello
    /\ app.loopCache # r.id
    /\ app.state = "IDLE_SAFE" /\ app.valid /\ ~app.clock
    /\ r.hash = app.config /\ app.config = Baseline
    /\ \E p \in RunLoopback :
         Respond([app EXCEPT !.active = FALSE, !.loopCache = IF p.ok THEN r.id ELSE @], p.chip)
    /\ UNCHANGED <<shots, wave>>

(* handle_capture_once *)
CaptureGuard(r) ==
    /\ Input /\ app.hello
    /\ app.capCache.id # r.id
    /\ app.state = "IDLE_SAFE" /\ app.valid /\ ~app.clock
    /\ r.hash = app.config

\* The request of the cached acknowledgement again: its frame is sent again.
CaptureRepeated(r) ==
    /\ Input /\ app.hello
    /\ app.capCache = r
    /\ Respond([app EXCEPT !.pending = TRUE], chip)
    /\ UNCHANGED <<shots, wave>>

CaptureApplyFails(r) ==
    /\ CaptureGuard(r)
    /\ \E s \in ForceSafe : Respond([app EXCEPT !.active = FALSE], s.chip)
    /\ UNCHANGED <<shots, wave>>

\* The capture or the force_safe after it failed.
CaptureFails(r) ==
    /\ CaptureGuard(r)
    /\ shots < MaxShots
    /\ shots' = shots + 1 /\ wave' = shots + 1
    /\ \E s \in ForceSafe : Respond([app EXCEPT !.active = FALSE], s.chip)

CaptureOnce(r) ==
    /\ CaptureGuard(r)
    /\ shots < MaxShots
    /\ shots' = shots + 1 /\ wave' = shots + 1
    /\ Respond([ app EXCEPT
                  !.active = FALSE, !.pending = TRUE, !.capCache = r,
                  !.cap = [ request |-> r.id, schedule |-> NoId, async |-> FALSE,
                            shot |-> shots + 1, config |-> app.config, boot |-> app.nonce ] ],
               "standby")

(* handle_start_periodic *)
StartGuard(hash) ==
    /\ app.state = "IDLE_SAFE" /\ app.valid /\ ~app.clock
    /\ hash = app.config

StartPeriodic(request, hash, id, period, count, lease) ==
    /\ Input /\ app.hello
    /\ StartGuard(hash)
    /\ StartResult(app.periodic, id, period, count, lease % LeaseMod) = "OK"
    /\ Respond([ app EXCEPT !.periodicRequest = request, !.error = "none",
                            !.periodic = StartSchedule(@, id, period, count, lease % LeaseMod) ],
               chip)
    /\ UNCHANGED <<shots, wave>>

(* handle_renew_periodic *)
RenewPeriodic(boot, id, seq, lease) ==
    /\ Input /\ app.hello
    /\ boot = app.nonce
    /\ RenewResult(app.periodic, id, seq, lease % LeaseMod) = "OK"
    /\ Respond([app EXCEPT !.periodic = RenewSchedule(@, id, seq, lease % LeaseMod)], chip)
    /\ UNCHANGED <<shots, wave>>

(* handle_stop *)
Stop(id) ==
    /\ Input /\ app.hello
    /\ StopResult(app.periodic, id) = "OK"
    /\ \E s \in ForceSafe :
         Respond([app EXCEPT !.error = "none", !.periodic = StopSchedule(@, id)], s.chip)
    /\ UNCHANGED <<shots, wave>>

-----------------------------------------------------------------------------
Handle ==
    \/ Answer
    \/ \E n \in Nonces : Hello(n)
    \/ \E id \in Requests, expected \in Hashes, candidate \in Hashes :
         SetConfig(id, expected, candidate)
    \/ \E id \in Requests, hash \in Configs :
         LET r == [id |-> id, hash |-> hash] IN
         \/ Io2Loopback(r)
         \/ CaptureRepeated(r)
         \/ CaptureApplyFails(r)
         \/ CaptureFails(r)
         \/ CaptureOnce(r)
    \/ \E request \in Requests, hash \in Configs, id \in ScheduleIds \cup {NoId},
          period \in Periods, count \in Counts, lease \in Leases :
         StartPeriodic(request, hash, id, period, count, lease)
    \/ \E boot \in Nonces, id \in ScheduleIds, seq \in Sequences, lease \in Leases :
         RenewPeriodic(boot, id, seq, lease)
    \/ \E id \in ScheduleIds \cup {NoId} : Stop(id)

Transmit == SendSegment \/ SegmentBusy \/ SegmentFails

MainLoop ==
    \/ Head \/ HeadEndsSession
    \/ Sent \/ NothingSent
    \/ NoPeriodicCapture \/ PeriodicApplyFails \/ PeriodicCaptureFails \/ PeriodicCapture
    \/ Transmit \/ IoIdle \/ Handle

Next == MainLoop \/ DtrRises \/ DtrFalls \/ UsbReset \/ SendCompletes

Spec == Init /\ [][Next]_vars

(* The loop never stops, the USB host takes what is under way as long as the *)
(* port is open, and a segment that is offered again and again is accepted.  *)
FairSpec == Spec /\ WF_vars(MainLoop) /\ WF_vars(SendCompletes) /\ SF_vars(SendSegment)

-----------------------------------------------------------------------------
(* Properties.                                                               *)

(* A schedule runs only inside the session that started it and with clocks   *)
(* that never failed: whatever ends a session (DTR, a new nonce, a failed    *)
(* transmission) or latches a clock fault also ends the schedule.            *)
ScheduleIsAuthorised ==
    app.periodic.active => app.hello /\ app.nonce # NoNonce /\ ~app.clock

(* FAULT and an invalid configuration are the same thing, whichever handler  *)
(* failed: the host can tell from the state alone which hash a SET_CONFIG    *)
(* must expect, and no capture request is accepted in FAULT.                 *)
FaultMeansNoConfig == app.state = "FAULT" <=> ~app.valid

(* A frame is assembled from the struct long after its capture.  Still its   *)
(* configuration and its boot id are those the capture was taken under, also *)
(* when an acknowledged request is repeated and its frame is sent again.     *)
FrameIsTrue == tx # "none" => app.pending /\ frame = app.cap

(* Nothing fires into the only sample buffer while a capture waits to be     *)
(* sent or is being sent.                                                    *)
BufferIsKept == [][app.pending => wave' = wave]_vars

(* The gate is closed exactly while the driver holds a transmission, its     *)
(* completion waits to be noticed, or a bus reset has made the driver forget *)
(* it: no aborted or failed transmission leaves it closed for another reason.*)
GateMatchesUsb == gate <=> (usb \/ sendDone \/ dropped)

(* Once a session is over and no profile is claimed to be active the chip is *)
(* in standby or the device says FAULT, as long as no clock failed since.    *)
ClosedSessionIsSafe ==
    ~app.hello /\ ~app.active /\ ~app.clock => chip = "standby" \/ app.state = "FAULT"

\* Parts of the inductive invariant that carries the properties above.

\* Without a session nothing of one is left.
NothingWithoutSession ==
    /\ ~app.hello => ~app.pending /\ app.capCache = NoRun
    /\ app.hello => app.nonce \in Nonces

\* The capture that is pending, or that a repeated request would send again, was
\* taken under the current configuration in the current session.
CaptureIsCurrent ==
    app.pending \/ app.capCache # NoRun
      => app.cap.config = app.config /\ app.cap.boot = app.nonce

\* A transmission is with the driver, completed or forgotten, never two of these.
OneTransmission ==
    /\ usb => ~sendDone /\ ~dropped
    /\ sendDone => ~dropped

\* An active schedule can be advanced.
ScheduleIsSane ==
    app.periodic.active => app.periodic.period > 0 /\ app.periodic.untilDue > 0

(* The inductive invariant: what a handler, a pass of the loop or an         *)
(* interrupt may rely on and must leave true.                                *)
AppInv ==
    /\ TypeOK
    /\ ScheduleIsAuthorised
    /\ FaultMeansNoConfig
    /\ FrameIsTrue
    /\ GateMatchesUsb
    /\ OneTransmission
    /\ ClosedSessionIsSafe
    /\ NothingWithoutSession
    /\ CaptureIsCurrent
    /\ ScheduleIsSane

(* A schedule that ends without being asked to, inside a living session, and *)
(* not with its last capture, leaves the reason for GET_STATUS.              *)
UnaskedEndIsReported ==
    [][ pc # "io" /\ app.periodic.active /\ ~app'.periodic.active /\ app'.hello
          => app'.error # "none" \/ app'.pending ]_vars

(* A pending capture of a session whose DTR the loop has seen is sent or     *)
(* dropped with its session, provided the host does not open and close the   *)
(* port for ever and no transmission stays forgotten after a bus reset.      *)
FrameLeaves ==
    (<>[]dtr \/ <>[]~dtr) /\ <>[]~dropped => (app.pending /\ prev ~> ~app.pending)

(* A capture fires only under a valid configuration.                         *)
BurstOnlyConfigured == [][shots' # shots => app.valid]_vars
=============================================================================
