--------------------------- MODULE BridgeDelivery ---------------------------
(***************************************************************************)
(* The path of a capture from the device to the core's database:            *)
(* proxy_bridge_session with its two threads and its SQLite spool, the      *)
(* supervised reconnects of the bridge process, the TCP connections, the    *)
(* core's acceptor thread, BridgeDeviceClient and its reconnectable proxy,  *)
(* and the commit in the core's store.  Processes crash, links break,       *)
(* waits time out; the spool and the store survive.                         *)
(*                                                                          *)
(* A capture is the number of the device frame that carries it.  A frame on *)
(* a wire is a record [type, cmd, rec, cap]; only the fields its type uses  *)
(* matter.  A connection lives in a slot that is reused once both ends are  *)
(* closed, so that several may exist at a time and any number over a run.   *)
(***************************************************************************)
EXTENDS Integers, Sequences, FiniteSets

CONSTANTS
    MaxCaptures,    \* bound on the captures the device takes
    Slots,          \* connection slots, numbered from 1
    SpoolBatch,     \* pending_records(limit=64)
    TombLimit,      \* tombstone_limit of the spool
    MaxDeferred,    \* 8 in core_reader
    MaxFaults       \* bound on crashes, broken links and early timeouts

ASSUME DeliveryConstants ==
    /\ MaxCaptures \in Nat
    /\ Slots \subseteq Nat \ {0}
    /\ SpoolBatch \in Nat \ {0}
    /\ TombLimit \in Nat \ {0}
    /\ MaxDeferred \in Nat \ {0}
    /\ MaxFaults \in Nat

VARIABLES
    \* device and serial port
    taken,      \* captures taken so far
    sched,      \* a periodic schedule is running
    toDev,      \* commands on the serial port
    fromDev,    \* frames on the serial port
    \* bridge, durable
    pending,    \* pending_captures: set of [rec, cap]
    tombs,      \* committed_tombstones
    lastRec,    \* AUTOINCREMENT
    spooled,    \* history: every capture ever made durable here
    \* bridge, session
    bpc,        \* main thread
    bconn,      \* slot of the session's connection, 0 for none
    batch,      \* rest of the replay batch or the one live record
    replaying,  \* the main thread is in the HELLO replay loop
    inflight,   \* pending_events
    signalled,  \* records whose event is set
    stop,       \* the stop event
    forwarding, \* forwarding_enabled
    deferred,   \* deferred_commands
    rpc,        \* core_reader thread
    receipt,    \* the receipt core_reader works on
    zombies,    \* receipts held by readers that outlived their session
    \* TCP
    toCore,     \* toCore[k], frames to the core in slot k
    toBridge,   \* toBridge[k]
    broken,     \* slots whose connection is dead on both ends
    \* core, volatile
    acceptor,   \* "ready", "busy" (initialising a client) or "gone"
    cpc,        \* cpc[k]: what the client of slot k is doing
    ccmd,       \* ccmd[k]: the command it waits for
    cret,       \* cret[k]: where it was when a delivery arrived
    cpend,      \* cpend[k]: _pending, a [rec, cap] or NoRecord
    pub,        \* slot of the published client, 0 for none
    running,    \* a periodic session is RUNNING
    undo,       \* a start_periodic whose START failed has its cleanup to do
    late,       \* a worker that stop_periodic has overtaken may still poll once
    early,      \* the runs that have registered their policy and not been sent
    \* core, durable
    resolved,   \* capture_resolution_tombstones
    context,    \* owner of the policy row of the boot published last, or "none"
    stranded,   \* history: a capture may be under way although that row was lost
    \* bound
    faults

devVars    == <<taken, sched, toDev, fromDev>>
spoolVars  == <<pending, tombs, lastRec, spooled>>
mainVars   == <<bpc, bconn, batch, replaying>>
readerVars == <<rpc, receipt, zombies>>
eventVars  == <<inflight, signalled>>
fwdVars    == <<forwarding, deferred>>
wireVars   == <<toCore, toBridge, broken>>
clientVars == <<cpc, ccmd, cret, cpend>>
coreVars   == <<acceptor, pub, running, undo, late, early>>
storeVars  == <<resolved, context, stranded>>
bridgeVars == <<mainVars, readerVars, eventVars, fwdVars, stop>>
vars == <<devVars, spoolVars, bridgeVars, wireVars, clientVars, coreVars, storeVars, faults>>

-----------------------------------------------------------------------------
Captures == 1 .. MaxCaptures
Commands == {"HELLO", "CAPS", "QUERY", "ONCE", "START", "STOP"}
Runs == {"single", "schedule"}
Records == [rec : Nat \ {0}, cap : Nat]
AnyRecord == [rec : Nat, cap : Nat]
NoRecord == [rec |-> 0, cap |-> 0]

Cmd(c)      == [type |-> "CMD",   cmd |-> c,   rec |-> 0,     cap |-> 0]
Receipt(r)  == [type |-> "RECEIPT", cmd |-> "", rec |-> r.rec, cap |-> r.cap]
Resp(c)     == [type |-> "RESP",  cmd |-> c,   rec |-> 0,     cap |-> 0]
Err(c)      == [type |-> "ERROR", cmd |-> c,   rec |-> 0,     cap |-> 0]
Data(c)     == [type |-> "DATA",  cmd |-> "",  rec |-> 0,     cap |-> c]
Delivery(r) == [type |-> "DELIVERY", cmd |-> "", rec |-> r.rec, cap |-> r.cap]
CommitAck(r) == [type |-> "COMMITTED", cmd |-> "", rec |-> r.rec, cap |-> r.cap]

CommandFrames == [type : {"CMD", "RESP", "ERROR"}, cmd : Commands, rec : {0}, cap : {0}]
RecordFrames  == [type : {"RECEIPT", "DATA", "DELIVERY", "COMMITTED"}, cmd : {""},
                  rec : Nat, cap : Nat]
Frames == CommandFrames \cup RecordFrames

BridgePcs == {"down", "serving", "replay", "deliver", "wait", "dead"}
ReaderPcs == {"off", "reading", "mark", "respond", "signal", "error"}
ClientPcs == {"free", "backlog", "hello", "caps", "ready", "idle", "await", "awaitCap",
              "accepted", "committed", "confirm", "declined", "stuck"}

\* A client that has a frame to wait for.
Waiting == {"hello", "caps", "await", "awaitCap", "confirm"}

\* Where a client goes on after a delivery.
ReturnPcs == {"free", "hello", "caps", "await", "idle"}

DeviceTypes == /\ taken \in Nat /\ sched \in BOOLEAN
               /\ toDev \in Seq(Commands) /\ fromDev \in Seq(Frames)
SpoolTypes  == /\ pending \subseteq Records /\ tombs \subseteq Records
               /\ lastRec \in Nat /\ spooled \subseteq Nat
MainTypes   == /\ bpc \in BridgePcs /\ bconn \in Slots \cup {0}
               /\ batch \in Seq(Records) /\ replaying \in BOOLEAN
ReaderTypes == rpc \in ReaderPcs /\ receipt \in AnyRecord /\ zombies \subseteq AnyRecord
EventTypes  == inflight \subseteq Nat /\ signalled \subseteq Nat /\ stop \in BOOLEAN
QueueTypes  == forwarding \in BOOLEAN /\ deferred \in Seq(Commands)
WireTypes   == /\ toCore \in [Slots -> Seq(Frames)] /\ toBridge \in [Slots -> Seq(Frames)]
               /\ broken \subseteq Slots
ClientTypes == /\ cpc \in [Slots -> ClientPcs] /\ ccmd \in [Slots -> Commands]
               /\ cret \in [Slots -> ReturnPcs] /\ cpend \in [Slots -> AnyRecord]
CoreTypes   == /\ acceptor \in {"ready", "busy", "gone"} /\ pub \in Slots \cup {0}
               /\ running \in BOOLEAN /\ undo \in BOOLEAN
               /\ late \in BOOLEAN /\ early \subseteq Runs
StoreTypes  == /\ resolved \subseteq Nat /\ stranded \in BOOLEAN
               /\ context \in Runs \cup {"none"}

TypeOK ==
    /\ DeviceTypes /\ SpoolTypes /\ MainTypes /\ ReaderTypes /\ EventTypes /\ QueueTypes
    /\ WireTypes /\ ClientTypes /\ CoreTypes /\ StoreTypes
    /\ faults \in Nat

Init ==
    /\ taken = 0 /\ sched = FALSE /\ toDev = <<>> /\ fromDev = <<>>
    /\ pending = {} /\ tombs = {} /\ lastRec = 0 /\ spooled = {}
    /\ bpc = "down" /\ bconn = 0 /\ batch = <<>> /\ replaying = FALSE
    /\ inflight = {} /\ signalled = {} /\ stop = FALSE
    /\ forwarding = FALSE /\ deferred = <<>>
    /\ rpc = "off" /\ receipt = NoRecord /\ zombies = {}
    /\ toCore = [k \in Slots |-> <<>>] /\ toBridge = [k \in Slots |-> <<>>]
    /\ broken = {}
    /\ acceptor = "ready"
    /\ cpc = [k \in Slots |-> "free"] /\ ccmd = [k \in Slots |-> "HELLO"]
    /\ cret = [k \in Slots |-> "free"] /\ cpend = [k \in Slots |-> NoRecord]
    /\ pub = 0 /\ running = FALSE /\ undo = FALSE /\ late = FALSE /\ early = {}
    /\ resolved = {} /\ context = "none" /\ stranded = FALSE
    /\ faults = 0

\* Both ends of slot k are open and the link carries frames.
Up(k) == bconn = k /\ k \notin broken /\ cpc[k] # "free"

\* A frame written to a dead connection is lost; the writer learns of it when
\* it next reads or waits.
ToCoreWith(k, f) == IF Up(k) THEN [toCore EXCEPT ![k] = Append(@, f)] ELSE toCore
ToBridgeWith(k, f) == IF Up(k) THEN [toBridge EXCEPT ![k] = Append(@, f)] ELSE toBridge

-----------------------------------------------------------------------------
(* The spool, one transaction per operator. *)

\* pending_records: the first SpoolBatch pending records in record order.
PendingBatches ==
    {b \in UNION {[1 .. n -> pending] : n \in 1 .. SpoolBatch} :
       /\ \A i, j \in DOMAIN b : i < j => b[i].rec < b[j].rec
       /\ \A r \in pending : \/ \E i \in DOMAIN b : b[i] = r
                             \/ SpoolBatch \in DOMAIN b /\ b[SpoolBatch].rec < r.rec}

\* The newest TombLimit tombstones.
Pruned(T) == {t \in T : Cardinality({u \in T : u.rec > t.rec}) < TombLimit}

\* store_capture; next is the record the caller goes on to deliver.
StoreCapture(c, next) ==
    IF \E r \in pending : r.cap = c
    THEN /\ \E r \in pending : r.cap = c /\ next = <<r>>
         /\ UNCHANGED spoolVars
    ELSE /\ next = <<[rec |-> lastRec + 1, cap |-> c]>>
         /\ pending' = pending \cup {[rec |-> lastRec + 1, cap |-> c]}
         /\ lastRec' = lastRec + 1
         /\ spooled' = spooled \cup {c}
         /\ UNCHANGED tombs

\* A faulty variant: a repeated receipt is not recognised.
KnownWhilePending(r) == r \in pending

\* mark_committed; a receipt for a record in neither table raises.
KnownToSpool(r) == r \in pending \/ (r \in tombs /\ ~ \E q \in pending : q.rec = r.rec)

MarkCommitted(r) ==
    /\ IF r \in pending
       THEN /\ pending' = pending \ {r}
            /\ tombs' = Pruned(tombs \cup {r})
       ELSE UNCHANGED <<pending, tombs>>
    /\ UNCHANGED <<lastRec, spooled>>

-----------------------------------------------------------------------------
(* Bridge, main thread. *)

\* Receipts in the hands of reader threads once the session is over.
Survivors == IF rpc = "mark" THEN zombies \cup {receipt} ELSE zombies

\* The end of a session, orderly or not: the finally clause closes the socket
\* and drops DTR, so the firmware forgets its session and whatever it was
\* sending.  A reader thread inside mark_committed may outlive the join.
EndSession(pc, survivors) ==
    /\ bpc' = pc /\ bconn' = 0 /\ batch' = <<>> /\ replaying' = FALSE
    /\ inflight' = {} /\ signalled' = {} /\ stop' = FALSE
    /\ forwarding' = FALSE /\ deferred' = <<>>
    /\ rpc' = "off" /\ receipt' = NoRecord
    /\ zombies' = survivors
    /\ toDev' = <<>> /\ fromDev' = <<>> /\ sched' = FALSE
    /\ toCore' \in {toCore, [toCore EXCEPT ![bconn] = <<>>]}
    /\ toBridge' = [toBridge EXCEPT ![bconn] = <<>>]
    /\ UNCHANGED <<taken, spoolVars, broken, clientVars, coreVars, storeVars>>

\* run_one_session: open the port, raise DTR, connect.  The kernel completes
\* the connection; the acceptor thread may take it later, or never.  Which
\* free slot is used makes no difference: the first one.
Open(k) ==
    /\ bpc = "down" /\ cpc[k] = "free"
    /\ \A j \in Slots : j < k => cpc[j] # "free"
    /\ bpc' = "serving" /\ bconn' = k /\ rpc' = "reading"
    /\ toCore' = [toCore EXCEPT ![k] = <<>>]
    /\ toBridge' = [toBridge EXCEPT ![k] = <<>>]
    /\ broken' = broken \ {k}
    /\ cpc' = [cpc EXCEPT ![k] = "backlog"]
    /\ UNCHANGED <<devVars, spoolVars, batch, replaying, receipt, zombies, eventVars, stop,
                   fwdVars, ccmd, cret, cpend, coreVars, storeVars, faults>>

\* A faulty variant: HELLO does not start the replay.
ForwardNoReplay ==
    /\ bpc = "serving" /\ ~stop /\ fromDev # <<>> /\ Head(fromDev).type # "DATA"
    /\ fromDev' = Tail(fromDev)
    /\ toCore' = ToCoreWith(bconn, Head(fromDev))
    /\ forwarding' = TRUE
    /\ UNCHANGED <<taken, sched, toDev, spoolVars, mainVars, readerVars, eventVars, stop,
                   deferred, toBridge, broken, clientVars, coreVars, storeVars, faults>>

\* A device frame that is not a capture is passed on; the HELLO response also
\* starts the replay of the spool.
Forward ==
    /\ bpc = "serving" /\ ~stop /\ fromDev # <<>> /\ Head(fromDev).type # "DATA"
    /\ fromDev' = Tail(fromDev)
    /\ toCore' = ToCoreWith(bconn, Head(fromDev))
    /\ LET hello == Head(fromDev) = Resp("HELLO") IN
       /\ bpc' = IF hello THEN "replay" ELSE "serving"
       /\ replaying' = hello
    /\ UNCHANGED <<taken, sched, toDev, spoolVars, bconn, batch, readerVars, eventVars, stop,
                   fwdVars, toBridge, broken, clientVars, coreVars, storeVars, faults>>

\* A capture frame is made durable before anything else happens to it.
Store ==
    /\ bpc = "serving" /\ ~stop /\ fromDev # <<>> /\ Head(fromDev).type = "DATA"
    /\ fromDev' = Tail(fromDev)
    /\ StoreCapture(Head(fromDev).cap, batch')
    /\ bpc' = "deliver"
    /\ UNCHANGED <<taken, sched, toDev, bconn, replaying, readerVars, eventVars, stop, fwdVars,
                   wireVars, clientVars, coreVars, storeVars, faults>>

\* The replay loop: the next batch, or the end of the replay, where the
\* commands that arrived meanwhile go to the device in their order.
Replay ==
    /\ bpc = "replay"
    /\ IF pending = {}
       THEN /\ bpc' = "serving" /\ replaying' = FALSE
            /\ forwarding' = TRUE /\ deferred' = <<>>
            /\ toDev' = toDev \o deferred
            /\ UNCHANGED batch
       ELSE /\ bpc' = "deliver" /\ batch' \in PendingBatches
            /\ UNCHANGED <<replaying, fwdVars, toDev>>
    /\ UNCHANGED <<taken, sched, fromDev, spoolVars, bconn, readerVars, eventVars, stop,
                   wireVars, clientVars, coreVars, storeVars, faults>>

\* deliver_pending up to its wait.
Deliver ==
    /\ bpc = "deliver"
    /\ inflight' = inflight \cup {Head(batch).rec}
    /\ toCore' = ToCoreWith(bconn, Delivery(Head(batch)))
    /\ bpc' = "wait"
    /\ UNCHANGED <<devVars, spoolVars, bconn, batch, replaying, readerVars, signalled, stop,
                   fwdVars, toBridge, broken, clientVars, coreVars, storeVars, faults>>

AfterDelivery(rest) ==
    IF rest # <<>> THEN "deliver" ELSE IF replaying THEN "replay" ELSE "serving"

\* event.wait returned: the record is committed, the next one may go.
Wake ==
    /\ bpc = "wait" /\ Head(batch).rec \in signalled
    /\ inflight' = inflight \ {Head(batch).rec}
    /\ signalled' = signalled \ {Head(batch).rec}
    /\ batch' = Tail(batch)
    /\ bpc' = AfterDelivery(Tail(batch))
    /\ UNCHANGED <<devVars, spoolVars, bconn, replaying, readerVars, stop, fwdVars, wireVars,
                   clientVars, coreVars, storeVars, faults>>

\* event.wait ran into commit_timeout_s.  With a live core this is a fault of
\* the environment (a slow core); without one, or with a core whose client has
\* declined the delivery, it is bound to happen.
CommitTimeout ==
    /\ bpc = "wait" /\ Head(batch).rec \notin signalled
    /\ IF Up(bconn) /\ rpc \notin {"off", "error"} /\ cpc[bconn] # "declined"
       THEN faults < MaxFaults /\ faults' = faults + 1
       ELSE UNCHANGED faults
    /\ EndSession("down", Survivors)

\* The main loop sees the stop event.  An error of the reader that is not a
\* transport error escapes supervise_sessions and ends the bridge process.
Stopped ==
    /\ bpc = "serving" /\ stop
    /\ EndSession(IF rpc = "error" THEN "dead" ELSE "down", Survivors)
    /\ UNCHANGED faults

\* Reading or writing the serial port raises (unplugged cable, USB reset).
SerialLost ==
    /\ bpc = "serving" /\ faults < MaxFaults
    /\ faults' = faults + 1
    /\ EndSession("down", Survivors)

\* The bridge process dies and is started again.
BridgeCrash ==
    /\ bpc \notin {"down", "dead"} /\ faults < MaxFaults
    /\ faults' = faults + 1
    /\ EndSession("down", {})

-----------------------------------------------------------------------------
(* Bridge, core_reader thread. *)

\* A faulty variant: the reader ends without the stop event.
ReaderFailsSilently(pc) == rpc' = pc /\ UNCHANGED stop

\* The reader thread is over; the main loop will notice.
ReaderFails(pc) == rpc' = pc /\ stop' = TRUE

\* A frame from the core: a command goes to the device, or waits while the
\* spool is replayed; a receipt is worked on in the steps below.
Read ==
    /\ rpc = "reading" /\ ~stop /\ toBridge[bconn] # <<>>
    /\ toBridge' = [toBridge EXCEPT ![bconn] = Tail(@)]
    /\ LET f == Head(toBridge[bconn]) IN
       \/ /\ f.type = "RECEIPT"
          /\ rpc' = "mark" /\ receipt' = [rec |-> f.rec, cap |-> f.cap]
          /\ UNCHANGED <<toDev, deferred, stop>>
       \/ /\ f.type = "CMD" /\ (f.cmd = "HELLO" \/ forwarding)
          /\ toDev' = Append(toDev, f.cmd)
          /\ UNCHANGED <<rpc, receipt, deferred, stop>>
       \/ /\ f.type = "CMD" /\ f.cmd # "HELLO" /\ ~forwarding
          /\ IF Len(deferred) >= MaxDeferred
             THEN ReaderFails("error") /\ UNCHANGED deferred
             ELSE deferred' = Append(deferred, f.cmd) /\ UNCHANGED <<rpc, stop>>
          /\ UNCHANGED <<toDev, receipt>>
    /\ UNCHANGED <<taken, sched, fromDev, spoolVars, mainVars, zombies, eventVars, forwarding,
                   toCore, broken, clientVars, coreVars, storeVars, faults>>

\* recv returns nothing: the core closed the connection or it is dead.
ReadEof ==
    /\ rpc = "reading" /\ bconn # 0 /\ ~Up(bconn) /\ toBridge[bconn] = <<>>
    /\ ReaderFails("off")
    /\ UNCHANGED <<devVars, spoolVars, mainVars, receipt, zombies, eventVars, fwdVars, wireVars,
                   clientVars, coreVars, storeVars, faults>>

\* A faulty variant: the event is set as soon as the record is deleted.
MarkSignalsFirst ==
    /\ rpc = "mark"
    /\ MarkCommitted(receipt) /\ rpc' = "respond"
    /\ signalled' = signalled \cup {receipt.rec}
    /\ UNCHANGED <<devVars, mainVars, receipt, zombies, inflight, stop, fwdVars, wireVars,
                   clientVars, coreVars, storeVars, faults>>

\* One transaction of the spool.
Mark ==
    /\ rpc = "mark"
    /\ IF KnownToSpool(receipt)
       THEN MarkCommitted(receipt) /\ rpc' = "respond" /\ UNCHANGED stop
       ELSE ReaderFails("error") /\ UNCHANGED spoolVars
    /\ UNCHANGED <<devVars, mainVars, receipt, zombies, eventVars, fwdVars, wireVars,
                   clientVars, coreVars, storeVars, faults>>

\* The response goes out before the event is set, so that no frame of the main
\* thread can slip in front of it.
Respond ==
    /\ rpc = "respond"
    /\ \/ /\ toCore' = ToCoreWith(bconn, CommitAck(receipt))
          /\ rpc' = "signal" /\ UNCHANGED stop
       \/ /\ ~Up(bconn)
          /\ ReaderFails("off") /\ UNCHANGED toCore
    /\ UNCHANGED <<devVars, spoolVars, mainVars, receipt, zombies, eventVars, fwdVars,
                   toBridge, broken, clientVars, coreVars, storeVars, faults>>

Signal ==
    /\ rpc = "signal"
    /\ IF receipt.rec \in inflight
       THEN signalled' = signalled \cup {receipt.rec} /\ rpc' = "reading" /\ UNCHANGED stop
       ELSE ReaderFails("error") /\ UNCHANGED signalled
    /\ receipt' = NoRecord
    /\ UNCHANGED <<devVars, spoolVars, mainVars, zombies, inflight, fwdVars, wireVars,
                   clientVars, coreVars, storeVars, faults>>

\* A reader that outlived its session finishes its transaction and dies on
\* the closed socket.
ZombieMark(z) ==
    /\ z \in zombies
    /\ zombies' = zombies \ {z}
    /\ IF KnownToSpool(z) THEN MarkCommitted(z) ELSE UNCHANGED spoolVars
    /\ UNCHANGED <<devVars, mainVars, rpc, receipt, eventVars, stop, fwdVars, wireVars,
                   clientVars, coreVars, storeVars, faults>>

-----------------------------------------------------------------------------
(* Device: commands are answered in order; a capture frame follows its      *)
(* acknowledgement; a running schedule adds capture frames of its own.      *)

Answer ==
    /\ toDev # <<>>
    /\ toDev' = Tail(toDev)
    /\ LET c == Head(toDev) IN
       \/ /\ c \in {"HELLO", "CAPS", "QUERY"}
          /\ fromDev' = Append(fromDev, Resp(c))
          /\ UNCHANGED <<taken, sched>>
       \/ /\ c = "ONCE" /\ taken < MaxCaptures
          /\ fromDev' = fromDev \o <<Resp(c), Data(taken + 1)>>
          /\ taken' = taken + 1 /\ UNCHANGED sched
       \/ /\ c \in {"START", "STOP"}
          /\ fromDev' = Append(fromDev, Resp(c))
          /\ sched' = (c = "START") /\ UNCHANGED taken
       \/ /\ c \in {"QUERY", "ONCE", "START"}
          /\ fromDev' = Append(fromDev, Err(c))
          /\ UNCHANGED <<taken, sched>>
    /\ UNCHANGED <<spoolVars, bridgeVars, wireVars, clientVars, coreVars, storeVars, faults>>

PeriodicFrame ==
    /\ sched /\ taken < MaxCaptures
    /\ taken' = taken + 1
    /\ fromDev' = Append(fromDev, Data(taken + 1))
    /\ UNCHANGED <<sched, toDev, spoolVars, bridgeVars, wireVars, clientVars, coreVars,
                   storeVars, faults>>

\* The lease ran out or the requested count was reached.
ScheduleEnds ==
    /\ sched /\ sched' = FALSE
    /\ UNCHANGED <<taken, toDev, fromDev, spoolVars, bridgeVars, wireVars, clientVars,
                   coreVars, storeVars, faults>>
-----------------------------------------------------------------------------
(* Core: acceptor thread, clients, application. *)

\* The acceptor thread works on the client of slot k.
Initialising(k) ==
    \/ cpc[k] \in {"hello", "caps", "ready"}
    \/ cpc[k] \in {"accepted", "committed", "confirm"} /\ cret[k] \in {"hello", "caps"}

\* The application waits for the response to a command on the client of slot
\* k, or handles a capture that came in front of it.
InCall(k) ==
    \/ cpc[k] = "await"
    \/ cpc[k] \in {"accepted", "committed", "confirm"} /\ cret[k] = "await"

\* The application is inside a call on the client of slot k, holding the lock
\* of ReconnectableBridgeDeviceClient.  Between accepting and confirming a
\* capture of its own the application holds no lock.
Locked(k) == InCall(k) \/ cpc[k] \in {"awaitCap", "confirm"}

\* The core's end of slot k is closed; frames not yet read by the bridge may
\* be lost.
CloseSlot(k) ==
    /\ cpc' = [cpc EXCEPT ![k] = "free"]
    /\ cpend' = [cpend EXCEPT ![k] = NoRecord]
    /\ toBridge' \in {toBridge, [toBridge EXCEPT ![k] = <<>>]}
    /\ UNCHANGED <<ccmd, cret, toCore, broken>>

\* accept_replacement_bridge takes a connection and sends HELLO.
Accept(k) ==
    /\ acceptor = "ready" /\ cpc[k] = "backlog"
    /\ acceptor' = "busy"
    /\ cpc' = [cpc EXCEPT ![k] = "hello"]
    /\ ccmd' = [ccmd EXCEPT ![k] = "HELLO"]
    /\ toBridge' = ToBridgeWith(k, Cmd("HELLO"))
    /\ UNCHANGED <<devVars, spoolVars, bridgeVars, toCore, broken, cret, cpend, pub, running,
                   undo, late, early, storeVars, faults>>

\* The client of slot k has read the next frame; a frame that is out of step
\* with what the client waits for raises RuntimeError and leaves it stuck.
Receive(k, inStep, pc) ==
    /\ toCore' = [toCore EXCEPT ![k] = Tail(@)]
    /\ cpc' = [cpc EXCEPT ![k] = IF inStep THEN pc ELSE "stuck"]

\* The client of slot k has a frame that is not a delivery in front of it.
Answered(k) == toCore[k] # <<>> /\ Head(toCore[k]).type # "DELIVERY"

\* A faulty variant: the client is ready without draining the replay.
HelloReady(k) ==
    /\ cpc[k] = "hello" /\ Answered(k)
    /\ Receive(k, Head(toCore[k]) = Resp("HELLO"), "ready")
    /\ UNCHANGED <<devVars, spoolVars, bridgeVars, toBridge, broken, ccmd, cret, cpend, coreVars,
                   storeVars, faults>>

\* The response to the HELLO of BridgeDeviceClient.__init__, which then asks
\* for the capabilities to drain the replay.
HelloDone(k) ==
    /\ cpc[k] = "hello" /\ Answered(k)
    /\ Receive(k, Head(toCore[k]) = Resp("HELLO"), "caps")
    /\ ccmd' = [ccmd EXCEPT ![k] = "CAPS"]
    /\ toBridge' = ToBridgeWith(k, Cmd("CAPS"))
    /\ UNCHANGED <<devVars, spoolVars, bridgeVars, broken, cret, cpend, coreVars, storeVars,
                   faults>>

CapsDone(k) ==
    /\ cpc[k] = "caps" /\ Answered(k)
    /\ Receive(k, Head(toCore[k]) = Resp("CAPS"), "ready")
    /\ UNCHANGED <<devVars, spoolVars, bridgeVars, toBridge, broken, ccmd, cret, cpend,
                   coreVars, storeVars, faults>>

\* replace(): the new client is published, the old one closed.  The periodic
\* session of the old device session is over (its next renewal fails).  Its
\* HELLO gave the device a new boot, for which no policy is registered yet.
Publish(k) ==
    /\ cpc[k] = "ready"
    /\ pub # 0 => ~Locked(pub)
    /\ pub' = k /\ acceptor' = "ready" /\ running' = FALSE
    /\ context' = "none"
    /\ LET old == {j \in Slots : j = pub /\ cpc[j] \in {"idle", "declined"}} IN
       /\ cpc' = [j \in Slots |-> IF j = k THEN "idle" ELSE IF j \in old THEN "free" ELSE cpc[j]]
       /\ cpend' = [j \in Slots |-> IF j \in old THEN NoRecord ELSE cpend[j]]
    /\ UNCHANGED <<devVars, spoolVars, bridgeVars, wireVars, ccmd, cret, undo, late, early,
                   resolved, stranded, faults>>

\* start_periodic holds the session lock from its check to the end of its
\* except clause.
StartInProgress == "schedule" \in early \/ undo \/ \E k \in Slots : InCall(k) /\ ccmd[k] = "START"

\* A schedule or a single capture registers its policy for the published boot
\* before it asks the device, in the place of the row of an older run.
\* capture_once holds no lock by then, and its idle check may be over.
Register(r) ==
    /\ pub # 0
    /\ r = "schedule" => ~running /\ ~StartInProgress
    /\ early' = early \cup {r} /\ context' = r /\ stranded' = FALSE
    /\ UNCHANGED <<devVars, spoolVars, bridgeVars, wireVars, clientVars, acceptor, pub, running,
                   undo, late, resolved, faults>>

\* The application sends command c.
Send(k, c) ==
    /\ pub = k /\ cpc[k] = "idle"
    /\ cpc' = [cpc EXCEPT ![k] = "await"]
    /\ ccmd' = [ccmd EXCEPT ![k] = c]
    /\ toBridge' = ToBridgeWith(k, Cmd(c))
    /\ UNCHANGED <<devVars, spoolVars, bridgeVars, toCore, broken, cret, cpend, acceptor, pub,
                   running, undo, context, resolved, faults>>

\* A registered run asks the device.  Its row may be left to an older boot by
\* then, or that of a START which replaced it is withdrawn or about to be.
SendRun(k, r) ==
    /\ r \in early /\ Send(k, IF r = "single" THEN "ONCE" ELSE "START")
    /\ early' = early \ {r} \/ (r = "single" /\ early' = early)
    /\ stranded' = (stranded \/ context = "none" \/ (context = "schedule" /\ undo))
    /\ UNCHANGED late

\* A registered run fails before it is sent: no client, or _send raises
\* RuntimeError because a delivery is pending in the client, which stays
\* published.  A START has its except clause to run.  One that the executor
\* refuses because the configuration changed ends like one that the device
\* refuses, and is left to that step.
RunFails(r) ==
    /\ r \in early /\ early' = early \ {r}
    /\ pub # 0 => cpc[pub] = "declined" \/ (cpc[pub] = "idle" /\ r = "single")
    /\ undo' = (undo \/ r = "schedule")
    /\ UNCHANGED <<devVars, spoolVars, bridgeVars, wireVars, clientVars, acceptor, pub, running,
                   late, storeVars, faults>>

\* Status, configuration, renewal, STOP.  stop_periodic sets the stop event of
\* the worker, which may be past its last look at it and waiting for the
\* executor.
Command(k, c) ==
    /\ c = "STOP" => running
    /\ Send(k, c)
    /\ late' = (late \/ c = "STOP")
    /\ UNCHANGED <<early, stranded>>

\* _send refuses a renewal or the STOP, which ends the session.
SessionFails ==
    /\ pub # 0 /\ cpc[pub] = "declined" /\ running
    /\ running' = FALSE
    /\ UNCHANGED <<devVars, spoolVars, bridgeVars, wireVars, clientVars, acceptor, pub, undo,
                   late, early, storeVars, faults>>

\* The published client holds a delivery that was declined.
OverDeclined == pub # 0 /\ cpc[pub] = "declined"

\* The awaited response.  A refused START has its except clause to run.
Replied(k) ==
    /\ cpc[k] = "await" /\ Answered(k)
    /\ LET f  == Head(toCore[k])
           ok == f.type = "RESP"
       IN
       /\ Receive(k, f \in {Resp(ccmd[k]), Err(ccmd[k])},
                  IF ok /\ ccmd[k] = "ONCE" THEN "awaitCap" ELSE "idle")
       /\ running' = (IF ccmd[k] \in {"START", "STOP"} THEN ok /\ ccmd[k] = "START" ELSE running)
       /\ undo' = (undo \/ (~ok /\ ccmd[k] = "START"))
    /\ UNCHANGED <<devVars, spoolVars, bridgeVars, toBridge, broken, ccmd, cret, cpend,
                   acceptor, pub, late, early, storeVars, faults>>

\* _accept_delivery: inline while a response is awaited, as the frame after
\* the ACK of CAPTURE_ONCE, or when the periodic worker polls.  The last two
\* take any other frame as an error.
AcceptDelivery(k) ==
    /\ toCore[k] # <<>>
    /\ \/ cpc[k] \in {"hello", "caps", "await"} /\ Head(toCore[k]).type = "DELIVERY"
       \/ cpc[k] = "awaitCap"
       \/ cpc[k] = "idle" /\ pub = k /\ running
    /\ Receive(k, Head(toCore[k]).type = "DELIVERY" /\ cpend[k] = NoRecord, "accepted")
    /\ cpend' = [cpend EXCEPT ![k] = [rec |-> Head(toCore[k]).rec, cap |-> Head(toCore[k]).cap]]
    /\ cret' = [cret EXCEPT ![k] = IF cpc[k] = "awaitCap" THEN "idle" ELSE cpc[k]]
    /\ UNCHANGED <<devVars, spoolVars, bridgeVars, toBridge, broken, ccmd, coreVars, storeVars,
                   faults>>

\* The late poll of an overtaken worker: its handler knows only the schedule of
\* its own session, answers False to the capture of the next one, and
\* poll_captures drops the answer.  The delivery stays pending in the client,
\* which reads nothing more.
Decline(k) ==
    /\ pub = k /\ cpc[k] = "idle" /\ running /\ late
    /\ toCore[k] # <<>> /\ Head(toCore[k]).type = "DELIVERY"
    /\ Receive(k, TRUE, "declined")
    /\ cpend' = [cpend EXCEPT ![k] = [rec |-> Head(toCore[k]).rec, cap |-> Head(toCore[k]).cap]]
    /\ UNCHANGED <<devVars, spoolVars, bridgeVars, toBridge, broken, ccmd, cret, coreVars,
                   storeVars, faults>>

\* The durable decision of the store.
Decide(k) ==
    /\ resolved' = resolved \cup {cpend[k].cap}
    /\ cpc' = [cpc EXCEPT ![k] = "committed"]
    /\ UNCHANGED <<wireVars, ccmd, cret, cpend, coreVars, context, stranded>>

\* The replay is refused and the connection closed; the acceptor logs it and
\* goes on.
RefuseReplay(k) ==
    /\ acceptor' = "ready"
    /\ CloseSlot(k)
    /\ UNCHANGED <<pub, running, undo, late, early, storeVars>>

\* A replay to a client that is still being initialised needs the policy
\* context or an earlier decision.
Commit(k) ==
    /\ cpc[k] = "accepted"
    /\ IF ~Initialising(k) \/ context # "none" \/ cpend[k].cap \in resolved
       THEN Decide(k)
       ELSE RefuseReplay(k)
    /\ UNCHANGED <<devVars, spoolVars, bridgeVars, faults>>

\* A faulty variant: the receipt is sent before the durable decision.
SendReceiptEarly(k) ==
    /\ cpc[k] \in {"accepted", "committed"} /\ (pub = k \/ Initialising(k))
    /\ toBridge' = ToBridgeWith(k, Receipt(cpend[k]))
    /\ cpc' = [cpc EXCEPT ![k] = "confirm"]
    /\ UNCHANGED <<devVars, spoolVars, bridgeVars, toCore, broken, ccmd, cret, cpend, coreVars,
                   storeVars, faults>>

\* confirm_capture: the receipt goes out on the client that delivered.
SendReceipt(k) ==
    /\ cpc[k] = "committed" /\ (pub = k \/ Initialising(k))
    /\ toBridge' = ToBridgeWith(k, Receipt(cpend[k]))
    /\ cpc' = [cpc EXCEPT ![k] = "confirm"]
    /\ UNCHANGED <<devVars, spoolVars, bridgeVars, toCore, broken, ccmd, cret, cpend, coreVars,
                   storeVars, faults>>

\* Between reading a capture of its own and confirming it the application
\* holds no lock, so the client may have been replaced: the call reaches the
\* new client, which has no such delivery, and fails.
Orphaned(k) ==
    /\ cpc[k] \in {"accepted", "committed"} /\ pub # k /\ ~Initialising(k)
    /\ CloseSlot(k)
    /\ UNCHANGED <<devVars, spoolVars, bridgeVars, coreVars, storeVars, faults>>

\* _confirm_delivery: the very next frame is the commit response.
Confirmed(k) ==
    /\ cpc[k] = "confirm" /\ toCore[k] # <<>>
    /\ Receive(k, Head(toCore[k]) = CommitAck(cpend[k]), cret[k])
    /\ cpend' = [cpend EXCEPT ![k] = NoRecord]
    /\ UNCHANGED <<devVars, spoolVars, bridgeVars, toBridge, broken, ccmd, cret, coreVars,
                   storeVars, faults>>

\* A read or write on slot k raises ConnectionError or TimeoutError.  In the
\* acceptor thread both are OSErrors, and "except OSError: return" ends the
\* thread.  In the application the client is unpublished; a START that did not
\* complete has the except clause of start_periodic still to run.
LoseClient(k) ==
    /\ acceptor' = IF Initialising(k) THEN "gone" ELSE acceptor
    /\ pub' = IF pub = k THEN 0 ELSE pub
    /\ running' = (running /\ pub # k)
    /\ undo' = (undo \/ (InCall(k) /\ ccmd[k] = "START"))
    /\ CloseSlot(k)
    /\ UNCHANGED <<devVars, spoolVars, bridgeVars, late, early, storeVars>>

\* unregister_delivery_policy of a failed START: only its own row.
Withdraw ==
    /\ context' = (IF context = "schedule" THEN "none" ELSE context)
    /\ stranded' = (stranded \/ (context = "schedule" /\ OverDeclined))

\* A faulty variant: the cleanup withdraws the policy in any case.
StartCleanupAlways ==
    /\ undo /\ undo' = FALSE
    /\ Withdraw
    /\ UNCHANGED <<devVars, spoolVars, bridgeVars, wireVars, clientVars, acceptor, pub, running,
                   late, early, resolved, faults>>

\* The except clause of start_periodic.  Its first call asks the device proxy
\* for clear_async_capture_handler, which raises while no client is published:
\* the policy is withdrawn only if a session is published, a new one or the one
\* that refused the START.
StartCleanup ==
    /\ undo /\ undo' = FALSE
    /\ IF pub # 0 THEN Withdraw ELSE UNCHANGED <<context, stranded>>
    /\ UNCHANGED <<devVars, spoolVars, bridgeVars, wireVars, clientVars, acceptor, pub, running,
                   late, early, resolved, faults>>

ClientEof(k) ==
    /\ cpc[k] \in Waiting \/ (cpc[k] = "idle" /\ pub = k /\ running)
    /\ ~Up(k) /\ toCore[k] = <<>>
    /\ LoseClient(k) /\ UNCHANGED faults

ClientTimeout(k) ==
    /\ cpc[k] \in Waiting /\ toCore[k] = <<>>
    /\ faults < MaxFaults /\ faults' = faults + 1
    /\ LoseClient(k)

\* The link breaks: frames in transit are lost or still arrive, both ends see
\* the connection closed.
LinkBreak(k) ==
    /\ Up(k) /\ faults < MaxFaults
    /\ faults' = faults + 1
    /\ broken' = broken \cup {k}
    /\ toCore' \in {toCore, [toCore EXCEPT ![k] = <<>>]}
    /\ toBridge' \in {toBridge, [toBridge EXCEPT ![k] = <<>>]}
    /\ UNCHANGED <<devVars, spoolVars, bridgeVars, clientVars, coreVars, storeVars>>

\* The core process dies and is started again; its database survives.
CoreCrash ==
    /\ faults < MaxFaults /\ faults' = faults + 1
    /\ acceptor' = "ready" /\ pub' = 0 /\ running' = FALSE /\ undo' = FALSE /\ late' = FALSE
    /\ early' = {}
    /\ cpc' = [k \in Slots |-> "free"]
    /\ cpend' = [k \in Slots |-> NoRecord]
    /\ toBridge' \in {toBridge, [k \in Slots |-> <<>>]}
    /\ UNCHANGED <<devVars, spoolVars, bridgeVars, toCore, broken, ccmd, cret, storeVars>>

-----------------------------------------------------------------------------
Bridge == Forward \/ Store \/ Replay \/ Deliver \/ Wake \/ CommitTimeout \/ Stopped
Reader == Read \/ ReadEof \/ Mark \/ Respond \/ Signal
Device == Answer \/ PeriodicFrame \/ ScheduleEnds
Client(k) ==
    \/ Accept(k) \/ HelloDone(k) \/ CapsDone(k) \/ Publish(k) \/ Replied(k)
    \/ AcceptDelivery(k) \/ Decline(k) \/ Commit(k) \/ SendReceipt(k) \/ Orphaned(k)
    \/ Confirmed(k) \/ ClientEof(k)
Request(k) ==
    \/ \E r \in Runs : SendRun(k, r)
    \/ \E c \in {"QUERY", "STOP"} : Command(k, c)
Bookkeeping ==
    \/ \E r \in Runs : Register(r) \/ RunFails(r)
    \/ SessionFails \/ StartCleanup
Faults ==
    \/ SerialLost \/ BridgeCrash \/ CoreCrash
    \/ \E k \in Slots : LinkBreak(k) \/ ClientTimeout(k)

Next ==
    \/ \E k \in Slots : Open(k)
    \/ Bridge
    \/ Reader
    \/ \E z \in zombies : ZombieMark(z)
    \/ Device
    \/ \E k \in Slots : Client(k) \/ Request(k)
    \/ Bookkeeping
    \/ Faults

Spec == Init /\ [][Next]_vars

-----------------------------------------------------------------------------
CapsOf(R) == {r.cap : r \in R}

\* The bridge deletes a spooled capture only after the core has durably decided
\* it: whatever crashed, timed out or was replayed, a capture that was ever
\* spooled is still pending in the bridge or resolved in the core.
NothingLost == spooled \subseteq CapsOf(pending) \cup resolved

\* What makes NothingLost inductive: every receipt under way, on a connection,
\* with a reader thread or about to be sent, speaks of a capture the core has
\* decided.
WireBacked ==
    \A k \in Slots : \A i \in 1 .. Len(toBridge[k]) :
      toBridge[k][i].type = "RECEIPT" => toBridge[k][i].cap \in resolved
ReaderBacked ==
    /\ rpc = "mark" => receipt.cap \in resolved
    /\ \A z \in zombies : z.cap \in resolved
ClientBacked ==
    \A k \in Slots : cpc[k] \in {"committed", "confirm"} => cpend[k].cap \in resolved
ReceiptsAreBacked == WireBacked /\ ReaderBacked /\ ClientBacked

\* What the threads of the bridge rely on without checking it: a session has a
\* connection as long as one of them runs, and a delivery has a record.
SessionHasConnection ==
    /\ bpc \notin {"down", "dead"} => bconn # 0
    /\ rpc # "off" => bconn # 0
    /\ bpc \in {"deliver", "wait"} => batch # <<>>

DeliveryInv == TypeOK /\ SessionHasConnection /\ ReceiptsAreBacked /\ NothingLost

\* A capture comes off the serial port once: frames that wait there carry
\* captures that were taken, all different and none of them spooled yet.
DeviceFresh ==
    /\ taken <= MaxCaptures /\ spooled \subseteq 1 .. taken
    /\ \A i \in 1 .. Len(fromDev) :
         /\ fromDev[i].type \in {"RESP", "ERROR", "DATA"}
         /\ fromDev[i].type = "DATA" => fromDev[i].cap \in (1 .. taken) \ spooled
    /\ \A i, j \in 1 .. Len(fromDev) :
         fromDev[i].type = "DATA" /\ fromDev[j].type = "DATA" /\ i # j
           => fromDev[i].cap # fromDev[j].cap

\* Whatever is pending, in a batch, on a connection or with a client was
\* spooled.
BatchSpooled ==
    /\ CapsOf(pending) \subseteq spooled
    /\ \A i \in 1 .. Len(batch) : batch[i].cap \in spooled
StreamSpooled ==
    \A k \in Slots : \A i \in 1 .. Len(toCore[k]) :
      toCore[k][i].type = "DELIVERY" => toCore[k][i].cap \in spooled
ClientSpooled == \A k \in Slots : cpc[k] = "accepted" => cpend[k].cap \in spooled

\* What makes every step of the path a step of the promise below.
PathInv == DeliveryInv /\ DeviceFresh /\ BatchSpooled /\ StreamSpooled /\ ClientSpooled

\* The frames of a stream, and the order in which they may wait on one: towards
\* the bridge a command before a receipt, towards the core a commit response
\* before the answer to the command and that before the next delivery, and at
\* most one of each.
InTransit(s) == {s[i] : i \in 1 .. Len(s)}
Rank(f) == IF f.type \in {"CMD", "COMMITTED"} THEN 1
           ELSE IF f.type \in {"RECEIPT", "RESP", "ERROR"} THEN 2 ELSE 3
Ordered(s) == \A i, j \in 1 .. Len(s) : i < j => Rank(s[i]) < Rank(s[j])

\* What a client is doing, apart from the delivery it may be working on.
Holding == {"accepted", "committed", "confirm"}
Stage(k) == IF cpc[k] \in Holding THEN cret[k] ELSE cpc[k]
Awaiting(k) == Stage(k) \in {"hello", "caps", "await"}
Starting(k) == Stage(k) \in {"backlog", "hello", "caps", "ready"}

\* A session that is over has left nothing behind.
SessionIsOver ==
    /\ bconn = 0 => /\ bpc \in {"down", "dead"} /\ rpc = "off"
                    /\ batch = <<>> /\ ~replaying /\ ~forwarding /\ ~sched
                    /\ deferred = <<>> /\ toDev = <<>> /\ fromDev = <<>>
    /\ bpc \in {"down", "dead"} => bconn = 0
    /\ bpc = "replay" => replaying

\* The client of slot k is in step, waits for the command it sent, and has at
\* most one delivery to confirm.
ClientInStep(k) ==
    /\ cpc[k] # "stuck"
    /\ cpc[k] \notin Holding \cup {"declined"} => cpend[k] = NoRecord
    /\ Stage(k) = "hello" => ccmd[k] = "HELLO"
    /\ Stage(k) = "caps" => ccmd[k] = "CAPS"

\* What waits for the client of slot k is what it reads next.
CoreStream(k) ==
    /\ Ordered(toCore[k])
    /\ \A f \in InTransit(toCore[k]) :
         /\ f.type \in {"COMMITTED", "RESP", "ERROR", "DELIVERY"}
         /\ f.type = "RESP" => f = Resp(f.cmd)
         /\ f.type = "ERROR" => f = Err(f.cmd) /\ f.cmd \in {"QUERY", "ONCE", "START"}
    /\ cpc[k] # "free" => \A f \in InTransit(toCore[k]) :
         /\ f.type = "COMMITTED" => cpc[k] = "confirm" /\ f = CommitAck(cpend[k])
         /\ f.type \in {"RESP", "ERROR"} => Awaiting(k) /\ f.cmd = ccmd[k]
    /\ cpc[k] \in {"accepted", "committed", "declined"} => toCore[k] = <<>>
    /\ cpc[k] = "confirm" /\ toCore[k] # <<>> => Head(toCore[k]).type = "COMMITTED"

\* Only the open connection carries frames to the bridge.
BridgeStream ==
    /\ \A k \in Slots : k # bconn => toBridge[k] = <<>>
    /\ bconn # 0 => /\ Ordered(toBridge[bconn])
                    /\ \A f \in InTransit(toBridge[bconn]) : f.type \in {"CMD", "RECEIPT"}

\* Where the command of the session's client can be: on its way to the bridge,
\* held back during the replay, on its way to the device, answered by the
\* device, or answered to the core.
AtBridge == bconn # 0 /\ \E f \in InTransit(toBridge[bconn]) : f.type = "CMD"
AtPort   == \E f \in InTransit(fromDev) : f.type # "DATA"
AtCore   == bconn # 0 /\ \E f \in InTransit(toCore[bconn]) : f.type \in {"RESP", "ERROR"}

\* It is in one place at a time, and there once.
OneCommand ==
    /\ Len(deferred) <= 1 /\ Len(toDev) <= 1
    /\ \A i, j \in 1 .. Len(fromDev) :
         fromDev[i].type # "DATA" /\ fromDev[j].type # "DATA" => i = j
    /\ AtBridge => deferred = <<>> /\ toDev = <<>> /\ ~AtPort /\ ~AtCore
    /\ deferred # <<>> => toDev = <<>> /\ ~AtPort /\ ~AtCore
    /\ toDev # <<>> => ~AtPort /\ ~AtCore
    /\ AtPort => ~AtCore

\* The commands that have not been answered to the core.
Underway ==
    (IF bconn = 0 THEN {} ELSE {f.cmd : f \in {g \in InTransit(toBridge[bconn]) : g.type = "CMD"}})
      \cup InTransit(deferred) \cup InTransit(toDev)
      \cup {f.cmd : f \in {g \in InTransit(fromDev) : g.type # "DATA"}}

\* A command under way is the one its client waits for, if that still exists.
CommandIsAwaited ==
    bconn # 0 /\ cpc[bconn] # "free"
      => \A c \in Underway : Awaiting(bconn) /\ c = ccmd[bconn]

\* What the device sends, and the part of the session before the replay is
\* done: nothing but HELLO has reached the device.
DeviceAnswers ==
    \A f \in InTransit(fromDev) :
      /\ f.type = "RESP" => f = Resp(f.cmd)
      /\ f.type = "ERROR" => f = Err(f.cmd) /\ f.cmd \in {"QUERY", "ONCE", "START"}
HelloFirst ==
    /\ forwarding \/ replaying => "HELLO" \notin Underway
    /\ forwarding => ~replaying
    /\ bconn # 0 /\ cpc[bconn] = "backlog" => ~forwarding /\ ~replaying
    /\ "HELLO" \notin InTransit(deferred)
    /\ ~forwarding => /\ ~sched /\ InTransit(toDev) \subseteq {"HELLO"}
                      /\ \A f \in InTransit(fromDev) : f = Resp("HELLO")

\* A client that is being initialised takes no captures of its own, and is
\* ready only when the replay is over.
ReplayFirst ==
    bconn # 0 =>
      /\ Starting(bconn) => /\ ~sched /\ \A f \in InTransit(fromDev) : f.type # "DATA"
                            /\ forwarding => bpc = "serving"
      /\ cpc[bconn] = "ready" \/ Resp("CAPS") \in InTransit(toCore[bconn]) => forwarding

\* The one delivery of the session that is not confirmed: with the client, or
\* its receipt on the way, or with the reader thread.
Unconfirmed == bpc = "wait" /\ Head(batch).rec \notin signalled
ReceiptUnderway == bconn # 0 /\ \E f \in InTransit(toBridge[bconn]) : f.type = "RECEIPT"
ReaderBusy == rpc \in {"mark", "respond", "signal"}

DeliveryInStep ==
    /\ rpc # "error"
    /\ inflight = (IF bpc = "wait" THEN {Head(batch).rec} ELSE {}) /\ signalled \subseteq inflight
    /\ ReaderBusy => Unconfirmed /\ receipt = Head(batch)
    /\ bconn # 0 =>
         /\ \A f \in InTransit(toBridge[bconn]) :
              f.type = "RECEIPT" => Unconfirmed /\ ~ReaderBusy /\ f = Receipt(Head(batch))
         /\ \A f \in InTransit(toCore[bconn]) :
              f.type = "DELIVERY"
                => /\ Unconfirmed /\ ~ReaderBusy /\ ~ReceiptUnderway /\ f = Delivery(Head(batch))
         /\ cpc[bconn] \in {"accepted", "committed", "declined"}
              => Unconfirmed /\ ~ReaderBusy /\ ~ReceiptUnderway /\ cpend[bconn] = Head(batch)
         /\ (ReceiptUnderway \/ rpc \in {"mark", "respond"}) /\ cpc[bconn] # "free"
              => cpc[bconn] = "confirm" /\ toCore[bconn] = <<>> /\ cpend[bconn] = Head(batch)
         /\ Up(bconn) /\ cpc[bconn] = "confirm" /\ toCore[bconn] = <<>>
              => ReceiptUnderway \/ rpc \in {"mark", "respond"}

\* Records are committed in their order, also by a reader of an older session:
\* a delivery is always of the oldest pending record, or of the newest
\* tombstone if such a reader was faster.
SpoolOrder ==
    /\ \A r \in pending : r.rec <= lastRec
    /\ \A r, q \in pending : r.rec = q.rec => r = q
    /\ \A t \in tombs : t.rec <= lastRec /\ \A r \in pending : t.rec < r.rec
    /\ \A z \in zombies : /\ z.rec <= lastRec
                          /\ \A r \in pending : z.rec <= r.rec /\ (z.rec = r.rec => z = r)
BatchOrder ==
    /\ \A i, j \in 1 .. Len(batch) : i < j => batch[i].rec < batch[j].rec
    /\ \A i \in 1 .. Len(batch) : i > 1 => batch[i] \in pending
    /\ batch # <<>> =>
         /\ batch[1] \in pending \/ (batch[1] \in tombs /\ \A t \in tombs : t.rec <= batch[1].rec)
         /\ \A z \in zombies : z.rec <= batch[1].rec
         /\ rpc \in {"respond", "signal"} \/ batch[1].rec \in signalled => batch[1] \notin pending
    /\ \A i \in 1 .. Len(batch) : \A r \in pending :
         r.rec <= batch[i].rec => \E j \in 1 .. i : r = batch[j]
    /\ bpc \notin {"deliver", "wait"} => batch = <<>>
    /\ forwarding => Len(batch) <= 1 /\ pending \subseteq InTransit(batch)

\* What makes the two properties below inductive: one command and one delivery
\* of a session are under way at a time, each in one place, and the spool is
\* emptied in the order of its records.
FrameInv ==
    /\ PathInv
    /\ SessionIsOver /\ BridgeStream /\ \A k \in Slots : ClientInStep(k) /\ CoreStream(k)
    /\ OneCommand /\ CommandIsAwaited /\ DeviceAnswers /\ HelloFirst /\ ReplayFirst
    /\ DeliveryInStep /\ SpoolOrder /\ BatchOrder

\* What leads to captures: commands that have not reached the device, a running
\* schedule, capture frames on the serial port.
Unanswered ==
    (IF bconn = 0 THEN {} ELSE {f.cmd : f \in {g \in InTransit(toBridge[bconn]) : g.type = "CMD"}})
      \cup InTransit(deferred) \cup InTransit(toDev)
Capturing ==
    \/ sched
    \/ \E f \in InTransit(fromDev) : f.type = "DATA"
    \/ Unanswered \cap {"ONCE", "START"} # {}
Undecided == {r \in pending : r.cap \notin resolved}
Quiet == ~Capturing /\ Undecided = {}

\* One client is initialised at a time, and the application uses only the one
\* that is published.
OneInitialised ==
    /\ \A k \in Slots : Initialising(k) => acceptor = "busy"
    /\ \A j, k \in Slots : Initialising(j) /\ Initialising(k) => j = k
OnlyPublished ==
    /\ pub # 0 => Stage(pub) \notin {"free", "backlog"} /\ ~Initialising(pub)
    /\ \A k \in Slots : Stage(k) \in {"await", "awaitCap"}
         => pub = k /\ ccmd[k] \notin {"HELLO", "CAPS"}
    /\ \A k \in Slots : cpc[k] = "awaitCap" => ccmd[k] = "ONCE"

\* While the session of the published client lasts, and as long as one may
\* still lead to captures, no other client can become ready.
OthersBlocked ==
    bconn # 0 /\ (pub = bconn \/ Capturing) =>
      \A k \in Slots \ {bconn} : Starting(k) =>
        /\ Stage(k) \in {"backlog", "hello"}
        /\ \A f \in InTransit(toCore[k]) : f.type # "RESP"
CapturesArePublished == Capturing => pub = bconn \/ (pub = 0 /\ cpc[bconn] = "free")

\* A START is refused, and a client becomes ready, only when nothing is under
\* way that needs a policy.
WithdrawnIsQuiet ==
    \A k \in Slots : cpc[k] # "free" =>
      /\ cpc[k] = "ready" \/ Resp("CAPS") \in InTransit(toCore[k]) => Quiet
      /\ Err("START") \in InTransit(toCore[k]) => Quiet

\* The cleanup of a failed START withdraws the row of a START that is not under
\* way any more, except over a declined delivery.
CleanupIsSafe ==
    undo /\ pub # 0 /\ context = "schedule" => Quiet \/ OverDeclined \/ stranded

\* A START is registered only while no other one is under way, as the session
\* lock and the idle check have it.
OneStart ==
    "schedule" \in early => ~running /\ \A k \in Slots : ~(InCall(k) /\ ccmd[k] = "START")

\* The core knows of a schedule, or is about to.
ScheduleIsKnown ==
    /\ "START" \in Unanswered => ~sched
    /\ \A i \in 1 .. Len(fromDev) :
         /\ fromDev[i] = Resp("STOP") => ~sched
         /\ fromDev[i] = Err("START")
              => ~sched /\ \A j \in 1 .. Len(fromDev) : i < j => fromDev[j].type # "DATA"
    /\ \A k \in Slots : cpc[k] # "free" /\ Resp("STOP") \in InTransit(toCore[k]) => ~sched
    /\ pub = bconn /\ sched /\ ~running
         => (Stage(bconn) = "await" /\ ccmd[bconn] = "START") \/ cpc[bconn] = "declined"

\* What leads to captures, and what waits to be decided, has its policy, unless
\* the row was lost in one of the ways of stranded.
PolicyKept == Capturing \/ Undecided # {} => context # "none" \/ stranded

\* What makes SpooledHasPolicy inductive: the policy is there as long as
\* anything, on any connection, may still lead to a capture.  Only the cleanup
\* of a START refused over a declined delivery, and a run that is sent although
\* its row is gone, are exceptions; until the next registration.
PolicyInv ==
    /\ FrameInv
    /\ OneInitialised /\ OnlyPublished /\ OthersBlocked /\ CapturesArePublished
    /\ WithdrawnIsQuiet /\ CleanupIsSafe /\ OneStart /\ ScheduleIsKnown /\ PolicyKept

\* The reader thread of the bridge never meets what it treats as a protocol
\* violation, which would end the bridge process: a receipt always names a
\* record the spool still knows and a delivery in flight, even with a single
\* tombstone, and the commands that arrive during a replay fit the queue.
ReaderNeverErrs == rpc # "error"

\* No client of the core ever reads a frame out of step with what it waits
\* for: a commit response is the very next frame after the receipt, although
\* two threads of the bridge write to the connection, and a second delivery
\* never arrives before the first is confirmed.
NeverOutOfStep == \A k \in Slots : cpc[k] # "stuck"

\* A client is published to the application only when the spool was drained
\* on its connection: no replayed capture can be mistaken for the answer to a
\* command of the application.
PublishedDrained == [][pub' # pub /\ pub' # 0 /\ Up(pub') => pending = {}]_vars

\* A capture in the spool can be replayed: the policy it needs was made durable
\* before the command that led to it, and the cleanup of a failed START
\* withdraws it only when the device takes no more captures, although the host
\* cannot tell a START that was lost from one whose acknowledgement was.  The
\* code does not keep this up in two cases, which stranded records: a START
\* that _send refuses over a delivery the worker declined takes the row of that
\* very delivery with it; and a run that is registered but not sent yet loses
\* its row to a START that replaces it and fails, or to a new boot.
SpooledHasPolicy == CapsOf(pending) \subseteq resolved \/ context # "none" \/ stranded

\* The capture path implements the promise of DurableDelivery.
Promise == INSTANCE DurableDelivery WITH
    Captures <- Captures, forgotten <- spooled \ CapsOf(pending)

ImplementsPromise == Promise!Spec

\* Threads that can run do run, sockets and the serial port deliver, the
\* device answers, and the supervisor reconnects.  Nothing obliges the
\* application to issue commands, a schedule to produce captures, or a fault
\* to happen.
Fairness ==
    /\ WF_vars(\E k \in Slots : Open(k))
    /\ WF_vars(Bridge)
    /\ WF_vars(Reader)
    /\ WF_vars(Answer)
    /\ \A k \in Slots : WF_vars(Client(k))

FairSpec == Spec /\ Fairness

\* A spooled capture does not wait forever: once faults stop, it reaches the
\* core, unless the acceptor thread has ended or the policy of the capture was
\* lost (see SpooledHasPolicy), both of which the code leaves without recovery.
SpoolDrains == pending # {} ~> (pending = {} \/ acceptor = "gone" \/ stranded)

\* A published session comes back: whenever the core has no usable client, it
\* gets one again unless the acceptor thread has ended or the policy of a
\* spooled capture was lost, so that every replay is refused.
Reconnects == pub = 0 ~> (pub # 0 \/ acceptor = "gone" \/ stranded)

-----------------------------------------------------------------------------
\* What the docstring of _accept_replacement_bridges promises: the thread keeps
\* accepting bridge sessions until the core closes its listener.  The listener
\* is never closed here, and yet the property fails (see README).
AcceptorSurvives == acceptor # "gone"
=============================================================================
