# A TLA+ model of the TUSS4470 acquisition system

The repository drives an ultrasonic front end (TUSS4470) from an MSP430 board and
brings its captures into an archive on a host. This directory holds TLA+ modules
of its core, the TLC models that check them and TLAPS proofs about them.

    host (Jetson)                                            board
    +---------------------------+  TCP   +-----------------+ serial +-----------------+
    | core: HTTP API            |<------>| bridge process  |<------>| MSP430 firmware |
    |  application, executor    |        |  main thread    |  USB   |  app, schedule  |
    |  bridge client, acceptor  |        |  core_reader    |        |  TUSS4470, ADC  |
    |  core store (SQLite)      |        |  spool (SQLite) |        +-----------------+
    +---------------------------+        +-----------------+

## Inventory

| component | state | operations | what makes it hard, and what makes it correct |
|---|---|---|---|
| capture schedule, `usac_capture_schedule.c` | active, due, id, period, time to the next capture, limit, completed, missed, lease sequence, lease left | start, renew, advance, claim_due, stop | commands are repeated, stale or foreign; time comes in uneven portions. The grid must not drift, the lease must be exact, no capture after it |
| firmware application, `usac_firmware_app.c`, `usac_firmware_core.c`, `main.c` | negotiated session, configuration and its validity, device state, fault flags, one-entry request caches, the schedule, the frame being sent | one handler per message, main-loop steps | duplicate requests, a fault in the middle of a configuration, DTR dropping at any moment, a clock fault, one response at a time. Nothing may be fired without a verified configuration and a session |
| configurator, `tuss4470_configurator.c` | registers of the chip | safe start, force safe, configure | SPI can fail at each write; every exit must leave the chip safe |
| spool, `spool.py` | pending captures, tombstones, record counter | store_capture, pending_records, mark_committed | survives crashes; repeated stores and receipts; pruned tombstones |
| bridge session, `bridge_session.py`, `bridge_cli.py`, `reconnect.py` | in-flight events, stop event, forwarding flag, deferred commands | two threads over one socket and one serial port; replay after HELLO | two writers to one socket, a reader that outlives its session, timeouts racing receipts. No capture may be lost, the core must never read a frame out of step |
| bridge client, `bridge_device_client.py` | the undecided delivery, the published session and its generation | commands, deliveries, receipts, replace | replacement between two calls, replays arriving before responses |
| acceptor, `core_server.py` | the listener thread | accept, initialise, publish | must outlive every failing bridge |
| core store, `core_store.py` | archive, rolling capture, resolution tombstones, policy contexts, session summaries, groups | commit, replay, finalize, reconcile | one transaction per decision, replays into finished sessions |
| application, `application.py`, `periodic_lease.py` | sessions, workers, the activity shown to clients | capture, periodic, sweep, stop, draft, apply, device view | HTTP threads against worker threads; lease renewal against a late answer; an ETag compared before the lock is taken |
| executor, `device_executor.py`, `run_plan.py`, `parameter_service.py` | draft, APPLIED configuration, device view, generation | update_draft, apply_changes, capture_once, execute_run_plan, try_device_view | a cached identity that is stale when used; a plan that fails half way must put its baseline back and file only what it took |
| groups, lists and exports, `core_store.py`, `group_export.py` | experiments, groups, the group of every row, rolling frame and policy | create, update, assign, list, export | frames filed late, repeatedly or by a replay must reach the group of their task; readers span many statements |

Components talk by calls (application, executor, store), by frames over TCP
(client and bridge, one command outstanding, deliveries in between), by frames over
the serial port (bridge and firmware) and by SQLite transactions. Two facts shape
everything: a capture that is on the board when a link breaks is gone, but one that
reached the spool is promised to the core; and the firmware stops by itself when the
host stops renewing the lease.

## Modules

### CaptureSchedule, ScheduleMachine

`CaptureSchedule` has one operator per function of `usac_capture_schedule.c`, from a
schedule record (the struct) to the next one, with the result code as a second
operator. `ScheduleMachine` drives it the way `usac_firmware_app.c` does: START,
RENEW and STOP with any argument at any time, time steps of any size from a set, and
a capture (or a failing one) when one is due. The id is cleared by the caller after
the last capture; that is part of `ClaimDue`. The counters of the source are 32 bits
wide; a wrap would take 2^32 captures or renewals of one schedule, and they are
natural numbers here. History variables record what the host was granted.

### BridgeDelivery, DurableDelivery

`BridgeDelivery` is the path of a capture from the serial port to the core's
database, with its processes, threads, links and restarts:

* device: answers commands in order, adds capture frames while a schedule runs;
* bridge main thread (`bpc`): forward, store, replay, deliver, wait, end of session;
* bridge reader thread (`rpc`): read, mark, respond, signal as separate steps, since
  each may be overtaken by the main thread; a reader that outlives the one second
  of `reader.join` becomes a zombie that still finishes its transaction;
* connections: a slot each, with a queue per direction; a dead connection may lose
  any queue, and bytes written to it vanish;
* acceptor thread, clients (`cpc[k]`), the published client (`pub`) and the lock of
  the reconnectable proxy (`Locked`);
* store: the set of decided captures, and who owns the policy row (`context`);
* application: a schedule or a single capture registers its row (`Register`) and asks the
  device later (`SendRun`) or fails before it could (`RunFails`); `early` are the runs in
  between. STOP sets the stop event of the worker, which may poll once more (`late`): its
  handler answers False to a capture of the next schedule, `poll_captures` drops that
  answer, and the delivery stays pending in the published client, which sends and reads
  nothing more (`Decline`, "declined"). Renewals and STOP are refused then and end the
  session (`SessionFails`), and so is the next START, whose except clause withdraws the row
  it has just registered (`RunFails`, `StartCleanup`). Only the commit timeout of the
  bridge, which is bound to come, ends that connection.

Faults: crash of the bridge, crash of the core, a broken link, a serial failure, an
early timeout on either side. `faults` bounds them to `MaxFaults`; every other
timeout, the one that is bound to happen because the peer is gone or has declined the
delivery, costs nothing.

Abstractions: frames carry only what tells them apart; QUERY stands for every command
that neither captures nor schedules (status, configuration, lease renewal); the
resolution tombstones of the core are never pruned; the spool belongs to one device. A
START that the executor refuses because the configuration changed ends like one that the
device refuses, and is merged with it. Every HELLO derives a new boot identity with a row
of its own; `context` is the row of the boot published last, which is the only one that
matters: a client is published with a drained spool, so an undecided capture is always of
that boot. `stranded` is history: it is set where a capture may be under way or in the
spool although that row is gone, and reset by the next registration. That happens where

* the cleanup of a START that `_send` refused over a declined delivery withdraws the row;
* a single capture is sent although its row was withdrawn with that of the START which had
  replaced it, or is about to be;
* a run is sent that was registered for an older boot than the one published by then.

`DurableDelivery` is the promise in three actions: a capture is spooled, then
resolved, then forgotten, each once. `BridgeDelivery` implements it under the mapping
forgotten = spooled minus pending.

### Configurator

`Configurator` is `tuss4470_configurator.c` as `main.c` calls it: configure,
force_safe and the low-power entries, one step per SPI transfer. A transfer may fail,
be read back wrong, and leave the register as it was, written, or with another value.
Register values are abstracted to their meaning (the target of the profile, an older
value, the safe value, standby); the polls of VDRV_READY are counted up to `PollLimit`.
Whether a profile is valid (`tuss4470_profile.c`) is an input.

### FirmwareApp

`FirmwareApp` is the firmware above the chip, for the production build: the struct
`usac_firmware_app_t` (`app`), the main loop of `main.c` in four phases (`pc`: time,
clocks and DTR; completion of a transmission; the periodic capture; input or output),
one action per outcome of a handler, the transmit gate, the capture stream, and the
interrupts between any two phases: DTR, a bus reset, the end of a transmission. The
schedule in the struct is `CaptureSchedule`'s. The chip is seen through the outcomes
its functions may have; that these are all of them is what `OutcomeAsPromised` and
`ClosingIsTrue` check of `Configurator`.

A request is its id and what its handler compares. A handler's response either is
handed to the driver or cannot be, which ends the session (`Respond`), so every
handler is followed by both. `lease_timeout_ms` is cast to 16 bits in the source;
`LeaseMod` is that modulus. `cap.config` and `cap.boot` (what a capture was taken
under) and `dropped` are history: the code does not keep them. The caches of
SET_CONFIG and loopback responses keep only the id, since a hit has no effect but its
answer. A reboot is `Init`; `loopback_authorized` plays no part in a production build.

### CoreStore, CoreSessions

`CoreStore` has one operator per transaction of `core_store.py`, from a database (a
record: archive rows, rolling captures, staged configurations, resolution tombstones,
delivery policies by boot, session summaries) to the next. A decision and everything
that is written with it is one operator, because it is one SQLite transaction. The
archive is the set of its rows, each with the id AUTOINCREMENT gave it (`lastId`), so that
"ORDER BY row_id" is an order of ids and not of the model's making.

`CoreSessions` runs the threads of `application.py` over it: the request threads of
`start_periodic` and `capture_once` (`pc[s]`), the periodic worker (`wpc[s]`), the thread
of `stop_periodic` (`spc[s]`), the acceptor (`acc`), and one device operation at a time
(`io`). What a thread does between two locks, two transactions or two device calls is
one step; each of these is a step of its own. The locks of the code are all there:

* the lock of `SingleDeviceExecutor`, held from an operation's first command to its
  last receipt, is `io.pc # "free"`;
* the lock of the reconnectable proxy, held for one method of the client, is `Locked`;
* `_session_lock` is `slock` where it is held over other steps (`start_periodic`) and
  a guard where it is not.

An operation that waits for its answer takes in the captures that come first: those of
the running session through its handler (staged, committed, counted, confirmed), all
others through the replay path, under the policy registered for the boot. The device
and the bridge are what `BridgeDelivery` shows of them: one undecided capture at a time,
replayed on the next connection before that one is published. A query of the device
status is taken only where it can have an effect, when it meets a capture or a lost link.
`stuck`, `asker`, `owner` and `live` say which delivery nobody will decide, who asked for
a capture, which session it was decided for, and whether by that session itself; the
first is the client's pending delivery, the others are history.

A crash of the core (`CoreCrash`) leaves the database as it is. The next core closes the
sessions it finds active one transaction at a time (`Reconcile`, at `pc[s] = "cut"`) before
it listens for a bridge or takes requests (`Starting`), and may itself die in between.

Left out: experiments and groups (`CoreCatalog`), the removal of old sessions from
`_sessions` (beyond 100), and sweeps and configurations (`ConfigExecutor`).

### ConfigExecutor

`ConfigExecutor` follows a configuration from a request to the device and back. Request
threads (`req[t]`) serve a draft, an apply, a single capture, the start of a sweep or a
device view; a sweep worker (`wk`) runs a plan; the operation that holds the executor
lock is `ex`, one step per device call. What `application.py` does before the lock (the
idle check, the ETag, the identity of the caller, the compilation of a plan) is a step
of its own, so that anything may happen in between. The proxy's published session is
`link`: `alive` is the stream, `up` and `gen` what the core knows of it, and a call on a
dead stream publishes the disconnect (`Unpublish`) before it raises. The device may keep
its configuration, lose it, or reboot with its boot profile when the link breaks; a
SET_CONFIG may be applied, fail and leave no configuration, or be refused because the
hash it expects is not the device's.

A configuration is a record of two fields, the swept one and the rest, and stands for
its profile hash too. `Merge` is `update_draft` with one changed field; the values the
code links to a field (rate, record time and ticks) belong to it. VALIDATED is a state
no variable shows: it lasts inside one call. The trigger of a capture, delays between
loops and the contents of a status are left out. `choice`, `spoiled` and `raced` are
history: what the operator chose last, whether a plan could not restore its baseline
since, and whether the session was replaced in the moment between the client's answer
and the executor's look at the generation.

### CoreCatalog

`CoreCatalog` is the catalogue of the archive: one operator per transaction on
experiments, groups, policies, rows and rolling frames, tasks that take captures for a
group, operators that rename groups and move captures, a client that pages through a
list (`list`) and an export (`exp`) that reads its group, its experiment and its members
in as many steps. `View` is what a statement of the export sees: the snapshot of the WAL
that its transaction pinned. Frames arrive while the task runs, after it was ended, twice,
or are replayed on a new connection (`Replay`); a crash reconciles, one session at a time.
`taker` records which task a capture was taken for, `moved` where an operator put it last,
`steady` what matched a list all the while.

A task is a single capture or a run (a schedule or a sweep), and goes through the phases
of the code. A run checks that no other one is active and registers its policy under the
session lock (`RegisterRun`). A single capture makes the same check (`CheckSingle`), gives
the lock back and registers later (`RegisterSingle`), whatever has begun meanwhile; and a
run does not look for single captures. Both write the one policy row of the published
boot, so a task may take it from another one that still has captures to come; `overtaken`
records those. Begin, a failed start, the end of a task, disconnection and reconnection
are steps of their own. A connection is published with an empty spool, as
`BridgeDelivery` shows; how sessions are stopped and counted is the subject of
`CoreSessions`. A name, a cell id and the notes are one version number.

## Runs

| run | bounds | checks |
|---|---|---|
| schedule_machine | 2 ids, periods 1..3 (minimum 2), leases 1..4 (legal 2..3), 0..2 captures, steps of 1, 2, 5, age 14 | the inductive invariant (types, exact grid, exact lease, finite count, clean status), its main parts by name, captures only inside the lease |
| bridge_delivery | 2 captures, 2 connections, 1 fault, 1 tombstone, 1 deferred command | the inductive invariant (types, backed receipts, every delivery of a spooled capture, one command and one delivery under way, the spool in order, where a policy may be withdrawn), nothing lost, no protocol violation, in step, a policy for every spooled capture unless it was stranded, drained before publication, refinement of DurableDelivery |
| bridge_liveness | 1 capture, 2 connections, 1 fault | the spool drains, the core reconnects |
| configurator | 3 operational registers, 2 polls, 4 disturbed transfers | every outcome is one the application reckons with and OK means verified; closing the chip survives one disturbed transfer and says so truthfully; trigger last |
| firmware_app | 2 nonces, 1 request id, 2 configurations, 1 schedule id, 2 segments, 2 captures | AppInv and its parts, the sample buffer is kept, an unasked end is reported |
| firmware_liveness | 1 capture | a pending frame leaves |
| acceptor_survives | 1 fault | violated, see findings |
| burst_only_configured | as firmware_app | violated, see findings |
| core_sessions | 2 sessions (SAVE_LAST schedule of 2, single capture with SAVE_ALL), 3 captures, 2 boots, 1 fault, 1 tombstone | summaries count every capture once, the archive obeys the save policy, captures keep their staged plan, no session stays active without a thread |
| no_command_blocked | as core_sessions | violated, see findings |
| config_executor | 2 request threads, 3 requests, 2 fields of 2 values with one refused combination, a sweep of 2 points and 2 loops, 1 lost session | the inductive invariant, the operator's values survive everything but an unreachable device, frames are filed as they were taken, APPLIED is what the device has, sweeps are whole or a true part, a view never shows old diagnostics, an apply changes what it names, every sweep ends |
| core_catalog | 2 overlapping tasks (run with SAVE_LAST or SAVE_ALL, single capture), 2 captures, 1 group and none, 1 experiment, pages of 1 row, two of: 1 edit, 1 list or export, 1 fault | the inductive invariant (references hold, row ids and captures are keys, a policy is its task's own unless overtaken), a frame stays in the group of its session or where it was put, and that session is its own unless overtaken, a paged list is complete and free of repetition, an export is one instant |

Why the bounds are enough. The leases and periods contain a legal and an illegal
value on each side, a step can skip no, one or two capture times and can end exactly
on the lease, and an age of 14 is longer than two leases. For the bridge, two
connections let an old one die while a new one is initialised and used, a fault can
hit any step (declined deliveries, refused STARTs and the timeouts they lead to are not
faults and come in any number), and two captures let a receipt for the first meet the
delivery of the second. A second fault during the recovery from the first is left to the
proofs, which cover every property of the run without a bound; the liveness run has one
fault only. One tombstone and one deferred command are the tightest limits the
code could be given; the source has 4096 and 8. Four disturbed transfers can break a
configuration, the closing after it, and the next call. For the firmware, two nonces
let a session replace another, two configurations let one change under a remembered
capture, two segments let every interrupt come in the middle of a frame, and two
captures let one fail or overwrite after the other.

For the sessions, two of them can overlap in every way the idle check
allows, three captures are a complete SAVE_LAST schedule and one more frame, so a
rolling capture is superseded once and a replayed one can meet it, and one fault
(a lost link, a timeout on a working one, or a crash of the core) can fall between
any two steps; it takes two boots, so the reconnection after it is covered. One
tombstone forgets a decision as soon as the next is made.

For the executor, two threads let one request be overtaken by another between its check
and its lock, three requests are enough to apply, start a sweep and change something
under it, the refused combination makes a plan invalid on one baseline and valid on
another, the second loop of a point takes a step without SET_CONFIG, the second point
may be the baseline so that the finally clause has nothing to restore, and one lost
session can hit every call, including those of the finally clause. For the catalogue,
two tasks let each take the policy row from the other, in every order of check,
registration, capture and replay, two captures let a SAVE_LAST row be superseded by a
late frame, pages of one row put a page boundary between any two rows, and a fault at
any step gives late, lost and repeated receipts and a restart. `MaxTurns` bounds edits,
reads and faults together: any two of them meet. Lists by experiment, a second group and
SAVE_NONE tasks are not on the run's menus; the proofs have them.

Deadlock is not checked for the bridge: with the acceptor gone, all slots taken and no
faults left the system may legitimately come to rest. It is not checked for the core
sessions, the executor and the catalogue either: when all sessions, requests and tasks
are over nothing is left to do.

Fairness. `FairSpec` asks that threads that can run do run (the operating system
schedules them and neither socket nor serial port blocks forever), that the device
answers a command, and that the supervisor reopens sessions (`supervise_sessions`
loops with a fixed delay). Nothing is asked of the application (it may never send a
command), of a schedule (its lease may end) or of faults.

`FirmwareApp`'s `FairSpec` asks that the loop goes on, that the driver finishes a
transmission the host does not reset, and that a segment offered again and again is
accepted in the end (USBCDC_sendData is busy only while a transmission is under way).
`FrameLeaves` assumes that DTR settles and that no transmission stays forgotten, and
speaks of sessions whose DTR the head of the loop has seen; the two cases this leaves
out are described at the end of the findings.

`ConfigExecutor`'s `FairSpec` asks that a thread that can go on does: the operation at
the executor lock, the sweep worker and the request threads. A device call ends by its
answer, by an error or by the timeout of the client's socket, whichever the link
allows. Nothing is asked of clients, of the bridge or of the acceptor: `SweepEnds` holds
also when no bridge ever comes back.

Both liveness properties of the bridge carry two explicit ways out, because the code has
no recovery there: the acceptor thread is gone, or the policy of a spooled capture was
lost (`stranded`), so that every replay is refused and every connection with it.

## Findings

* `acceptor_survives`: `_accept_replacement_bridges` ends on any `OSError`.
  `ConnectionError` and `TimeoutError` are subclasses, so the clause that would log
  them and go on is never reached for them, and a bridge that stalls for the length
  of the timeout during its HELLO ends the thread.
* `burst_only_configured`: a SET_CONFIG that fails during a schedule leaves FAULT and
  an invalid configuration, but the schedule goes on and fires.
* `no_command_blocked`: a worker reads its stop event, then waits for the executor. If
  STOP and the START of the next session come first, it polls a capture of that
  session, declines it and leaves it pending in the client, which from then on refuses
  every command without being retired. No fault is needed. If a START follows before the
  bridge gives up waiting, that capture can never be resolved: see below.

`PlanKept` is stated for behaviours in which every capture is decided for the session
that asked for it (`OwnerIsAsker`), since the policy race of `capture_once` listed below
mixes up the staged plans.

Known divergences that no run is kept for:

* a failed identity read ends configure without force_safe, and a SET_CONFIG that fails
  this way does not call it either (`tuss4470_configurator.c:141`), though the head of
  the file says it "closes every error path by attempting Standby/Hi-Z";
* `update_clock_faults`, `advance_time`, `handle_stop` and `run_periodic_capture` call
  force_safe and leave `profile_active` set (`usac_firmware_app.c:911`), though ADR 0005
  says it means that the operational register state is active in hardware;
* a session gets its row only after START is answered (`application.py:951`). When the
  answer is lost and a SAVE_LAST capture of the schedule is replayed, its rolling frame
  belongs to a session that no finalisation looks for;
* a repeated CAPTURE_ONCE sends its descriptor with whatever samples a failed capture has
  left in the buffer (`usac_firmware_app.c:561`, against the comment at
  `usac_capture.c:6`). After a periodic capture the descriptor is the periodic one too;
* `capture_once` registers its policy after an idle check that no longer holds
  (`application.py:604`): a schedule's capture that is replayed later is filed under the
  policy, group and name of the single capture (see `GroupAsFrozen` below), which the
  docstring of `register_delivery_policy` (`core_store.py:722`) means to exclude;
* a plan whose session is lost cannot put its baseline back (`device_executor.py:457`
  says it does), nor can one whose baseline the device refuses: the last sweep point
  stays as the operator's draft (`spoiled` in `ConfigExecutor`). After a reconnect in
  the middle of a plan its next burst needs no new SET_CONFIG when the APPLIED
  configuration is the step's, though the comment at line 197 asks for one; the device's
  own comparison of the profile is what protects the frame;
* the ETag of `apply_config` and the identity of `start_sweep` are compared in one hold of
  the executor lock and used in a later one. `OnlyNamedFieldChanges` and `SweepIsWhole`
  say what still holds: a change is merged into the values of the moment, and a sweep runs
  whole, but perhaps on a newer baseline than its caller named;
* after a failed SET_CONFIG the executor goes on calling the old configuration APPLIED
  until the next session, while the device has none (`dev.valid` in `AppliedIsBacked`), and
  every later SET_CONFIG is refused until the board restarts;
* the generation is read after the client has answered (`device_executor.py:278`): a
  session replaced in between makes a new session look configured (`raced`);
* a device view may name one session and show the status of a newer one
  (`try_device_view` reads the session first), never of an older one;
* `capture` reads the record, its events and its group in three transactions, and its
  answer may be torn when a late SAVE_LAST frame replaces the row in between; with the row
  goes the group an operator had put it in.

`SpooledHasPolicy` does not hold without its exception. Without `stranded` TLC gives this
behaviour, in `BridgeDelivery` with one capture and no fault: a schedule is started and
stopped while its worker waits for the executor; the next one is started and a capture of
it arrives; the late worker polls it and declines it (`Decline`); a renewal is refused and
the session fails (`SessionFails`); a third START replaces the policy row of the boot
(`Register`, `application.py:932`), is refused by `_send` with the client still published
(`RunFails`, `bridge_device_client.py:121`), and its except clause withdraws the row
(`StartCleanup`, `application.py:944`). The capture in the spool has no policy left. Every
replay of it raises (`core_store.py:821`), every new connection is refused with it, and
neither the spool drains nor does the core get a client again. The same end is reached
without a declined delivery when a single capture that has registered its row is overtaken
by a START that fails, or by a new boot, before it asks the device.

Outside these the policy is kept by a narrow path. The except clause of `start_periodic`
means to withdraw the policy of every START that raised, also of one that succeeded at the
device and lost its acknowledgement. What keeps the policy of the captures that follow
is that the call before it (`_clear_async_capture_handler`) raises itself while no
client is published, and that a new client is published only after the spool was
drained. A cleanup that always withdrew would leave captures no replay can resolve
(`StartCleanupAlways` is that mutant).

`GroupAsFrozen` names the same kind of exception (`overtaken`). In `CoreCatalog` a single
capture is checked (`CheckSingle(1)`), a run is registered and started (`RegisterRun(2)`),
the single capture registers its row over the run's (`RegisterSingle(1)`), the link is
lost, and a capture of the run is replayed: it is filed under the single capture's
session, in that one's group and by its save policy. What is proved is that a frame never
gets into a group that belongs to neither the session it is filed under nor an operator's
choice, and that a task nobody registered over keeps all its captures.

Two more cases are reachable in `FirmwareApp` and show in its properties as the way out
they leave open. The head of the loop compares DTR with its own last look, the input
phase uses the current level: a rise and a fall between two heads leave a session open
on a closed port (`prev` in `FrameLeaves`). And a bus reset erases the completion the
transmit gate waits for: if the host is back before the head of the loop has seen DTR
low, the gate stays closed until DTR falls again (`dropped` in `GateMatchesUsb` and
`FrameLeaves`).

## Proofs

`ScheduleMachineProofs` proves, for all constants satisfying the assumptions, that
`IInv` is inductive. The grid and lease properties are not inductive alone: dividing
by the period needs that it is positive, and the remainder argument needs that the
time to the next capture lies in 1..period (`ActiveIsSane`). From it follow
`NoTickForgottenAlways`, `LeaseIsExactAlways` and the action property
`CaptureInsideLeaseAlways`.

`BridgeDeliveryProofs` proves `DeliveryInvariant` and `NothingLostAlways` for any
number of captures, connections, faults and any limits. `NothingLost` speaks of a
deletion in the bridge; what makes it inductive is `ReceiptsAreBacked`: wherever a
receipt is (about to be sent, on a wire, in a reader, in a reader that outlived its
session) its capture is decided, and decisions are never undone. One lemma per action.

The same module proves that the path implements `DurableDelivery`
(`PathKeepsPromise`): Init maps to Init, and every step to one abstract step or a
stutter. A decision of the core maps to Resolve only if the capture was spooled, and a
store to Spool only if it was not, so the refinement rests on `PathInv`: a delivery that
is in a stream, in a batch of the bridge or pending at a client is of a capture spooled
before, and the capture the device sends next never was.

Its second part proves `FrameInvariant`, and from it `ReaderNeverErrsAlways`,
`NeverOutOfStepAlways` and `PublishedDrainedAlways`. None of the three is inductive: that
a client is not out of step depends on every frame that can still reach it, and that
depends on what the other three threads hold. `FrameInv` adds four groups of facts to
`PathInv`:

* a command is in exactly one place between its client and the answer (`OneCommand`: on
  its way to the bridge, held back, on its way to the device, answered there, answered to
  the core), and it is the one the client waits for, if that client still exists
  (`CommandIsAwaited`);
* a delivery is in exactly one place between the main thread, the client, its receipt and
  the reader thread, and is of the record the main thread waits for (`DeliveryInStep`);
* before the replay is over nothing but HELLO has reached the device, and a client that is
  being initialised has no captures of its own (`HelloFirst`, `ReplayFirst`);
* records are committed in their order, also by a reader that outlived its session, so
  that a receipt names the oldest pending record or the newest tombstone and one tombstone
  is enough (`SpoolOrder`, `BatchOrder`).

Streams enter the proof as the set of frames on them and an order of their kinds
(`InTransit`, `Ordered`), with one lemma each for reading and writing. Every action then
has a lemma that says where the frame it reads can have come from, and what that rules out
elsewhere. The queue of deferred commands needs one place, not the eight of the code:
`MaxDeferred` is only assumed to be positive.

Its third part proves `PolicyInvariant`, and from it `SpooledHasPolicyAlways`. The
policy of a capture is written before its command is sent, and may be withdrawn at one
place, the cleanup of a START that raised or was refused. It looks neither at the spool
nor at the device, so the proof has to show that it happens only when nothing is under way
that could lead to a capture (`Quiet`), or is one of the exceptions (`stranded`). The
delicate ones are set where they arise and nowhere else; that nothing more is lost is what
is proved. `PolicyInv` adds to `FrameInv`:

* a refused START on its way to the core and the answer that makes a client ready imply
  `Quiet` (`WithdrawnIsQuiet`), and so does a cleanup that finds a published client and its
  own row, unless that client holds a declined delivery (`CleanupIsSafe`);
* a START is registered only while no other one is under way (`OneStart`), so that a cleanup
  never meets the row of a START that succeeded; a row another run wrote is not its own;
* a command, schedule or frame that leads to captures belongs to the published client, or
  that client is gone (`CapturesArePublished`), and as long as it lasts no client on another
  connection gets past its HELLO, so that none is published under it (`OthersBlocked`). The
  slots are separate connections; what excludes the others is that one bridge serves one;
* a device with a schedule the core does not know of is one whose START is still awaited, or
  one behind a declined delivery (`ScheduleIsKnown`).

It was checked by TLC first, on the instance of the run.

`FirmwareAppProofs` proves `AppInvariant`, and from it `FrameIsTrueAlways`,
`ScheduleIsAuthorisedAlways`, `GateMatchesUsbAlways`, `ClosedSessionIsSafeAlways`,
`FaultMeansNoConfigAlways`, and the action property `BufferIsKeptAlways`. `FrameIsTrue`
is about a stream that has started; what makes it inductive is that the capture which
is pending, or which a repeated request would make pending, was taken under the
configuration and nonce now in the struct (`CaptureIsCurrent`), which every change of
either must see to. `OneTransmission` does the same for the gate: a completion frees it
only if nothing else is under way. The struct's part of the invariant (`AppGood`) is
shown of the value a handler computes, so that `RespondInv` covers the response, and the
session's end where it fails, once for all handlers.

`UnaskedEndIsReportedAlways` is about a step, from a schedule that runs to one that does
not. It goes through every handler that stops a schedule; what it needs beyond the
invariant is what `Advance` may do with the lease of the schedule it is given
(`AdvanceEndsByLease`).

`ConfiguratorProofs` proves `ClosingIsTrueAlways`, `OutcomeAsPromisedAlways` and the
action property `TriggerLastAlways` for any number of operational registers, polls and
disturbed transfers. The invariant, `ConfiguratorInv` of the proof module, says for each
step of a run what every register holds that the run has passed; it was
also checked by TLC on the instance of the run. `TriggerLast` needs it because the step
that writes the trigger looks at registers written many steps before.

`ConfigExecutorProofs` proves the five invariants of the executor and
`OnlyNamedFieldAlways`, for any configurations, request threads, sweeps and lost sessions.
`ExecutorInv` says what each operation at the lock has seen: which generation and APPLIED
identity its snapshot is of, which steps of a plan are behind it, and where device and
host may differ until its next call. `AppliedIsBacked` alone is not inductive: between two
calls of one operation the device is ahead of the host or behind it.

`CoreCatalogProofs` proves `CatalogInvariant`, and from it `GroupAsFrozenAlways`,
`ListIsCompleteAlways` and `ExportIsOneInstantAlways`, for any number of tasks, captures,
groups, edits and faults and any page size. Each transaction is a function of databases;
it is shown once to keep a good one good (`StoreGood`) and to let rows only `Evolve`: a
row keeps id and capture, and a row that is new has an id never given before and a
capture that was undecided or rolling. The latter is all a list needs
(`CommitKeepsList`): its cursor stays below what is new, and what it has shown cannot
come again under a higher id. The page itself rests on facts about the first n of a
keyed set (`FirstOfIsInitial`, `FirstOfAll`, `LastIdIsGreatest`), which rest in turn on
least elements of sets of numbers. A frame's group depends on whose policy row a replay
finds. `Homes` gives for every capture the sessions and groups it may be filed under; those
of a decided capture only grow, unless an operator moves it (`HomesGrow`); a task with captures to
come has its own row, or none, unless it was overtaken (`PolicyIsOwn`), and a row agrees
with what its task froze (`TasksFrozen`), which nothing changes from its check on. A
transaction that files only at home keeps a good database good (`GoodUnder`,
`CommitKeepsInv`), and so does one that decides nothing while tasks go on
(`TaskStepKeepsInv`), or a step without a transaction (`QuietStepKeepsInv`).

`CoreStoreProofs` and `CoreSessionsProofs` prove `SessionInvariant`, and from it
`TerminalCountsAlways`, `SavePolicyKeptAlways`, `PlanKeptAlways` and
`NoSessionLeftActiveAlways`, for any number of sessions, captures, boots, faults and
crashes, any menu of schedules and single captures and any number of tombstones kept, one
included. The constants are only assumed to be sets of positive numbers, with a first
boot among the boots. The four are about what is in the database when a
session is over, and not one of them is inductive: what a summary says of a session holds
only if no thread can still write for it, and that depends on where the threads, the
schedule and the frames are. `SessionInv` has three layers:

* `StoreInv`, the tables: which session a capture was decided for, and what the archive, the
  rolling frame, the tombstones, the statistics and a terminal summary must then say
  (`StoreGood`). Each transaction is a function of databases, and is shown in
  `CoreStoreProofs` to keep a good one good: one lemma for what it writes (`...Writes`), one
  for what that does to the tables (`...Good`). Between the two halves of a decision the
  session at hand is not good yet, so those lemmas speak of `NearlyGood`, all but what the
  end of a session changes. That one tombstone is enough to recognise a repeated delivery
  rests on the order of decisions: the newest tombstone is of the newest decided capture,
  and what arrives is never older than that (`TombsGood`, `NewestDecided`). That the last row
  by id is the newest capture rests on rows being filed in the order of captures
  (`RowsGood`), also when a late replay supersedes the row of a closed SAVE_LAST session.
* `ThreadInv`, the threads: the operation at the executor lock is that of a thread waiting for
  it, a frame in hand is the newest and the spool's (`FramesTrue`), nothing new comes to an
  operation whose client was replaced (`LinksTrue`), and the row in the database and the
  object in memory agree on whether a session runs, up to a core that is just starting
  (`RowOf`, `LifeOf`).
* `QuietInv`, the end: a periodic session that is over, or that a worker, a stop or a cleanup
  has begun to end, gets no further capture through its own handler, because its schedule is
  off and nothing of it is in the spool, or because the client that would take it in is gone
  or stuck (`OverIsQuiet`). `CountTrue` and `ScheduleTrue` are what the worker's own end needs: it
  ends a session that has counted its last capture without asking the device, and the device
  cannot be ahead of that count.

Every action has a lemma that it keeps every part, laid out alike: what the action leaves
alone, what it changes, then one step per part. TLC checked `SessionInv` on the instance
of the core_sessions run (two million states) before it was proved. Two things came out of
it. Reconciliation had been part of the crash, in one step for all sessions; the code
commits one session at a time, and the proof holds with a crash between two of them.
And the summaries agree with the tables also while a thread is still at work on a closed
session, so `TerminalCounts` and `SavePolicyKept` no longer exempt such a session.

Only model-checked: liveness (`FairSpec` and its properties, since fairness and ENABLED are
out of the prover's reach), and the three runs that expect a violation. `TypeOK` of
`Configurator`, `BridgeDelivery`, `FirmwareApp`, `ConfigExecutor`, `CoreCatalog` and
`CoreSessions` documents the variables; where a proof rests on it, it is part of the
invariant proved.

## Plan

1. done: `CaptureSchedule`, `ScheduleMachine` and proofs.
2. done: `BridgeDelivery`, `DurableDelivery` and proofs.
3. done: `Configurator`, `FirmwareApp` and proofs of the latter.
4. done: `CoreStore`, save policies, rolling capture, terminal replay, finalize,
   reconcile.
5. done: `CoreSessions`, worker, stop and request threads over the store and the client.
   To come: a stopped or failing session ends on the board (liveness, with the lease of
   `ScheduleMachine`), and one decision per capture as an abstract specification.
6. done: `ConfigExecutor`, draft, ETag, APPLIED identity, session generations, sweeps.
7. done: `CoreCatalog`, groups, paged lists, exports.
8. done: proofs of `CoreCatalog`, `ConfigExecutor`, `Configurator`, of the refinement of
   `DurableDelivery`, of the frame order of `BridgeDelivery` and of its policy context, and
   of the transactions of `CoreStore` and the sessions of `CoreSessions`.
9. Left as candidates: the stream decoder against a reference definition, and a failing
   session that ends on the board (liveness, with the lease of `ScheduleMachine`).

## Not modelled

HTTP routing, the web client, command line tools, wire codecs and hashes, the register
encoding and rounding of the parameter service, the migration of old databases,
register-level drivers, deployment and the simulator: presentation, byte layout or I/O
without state of their own that the properties above depend on.
