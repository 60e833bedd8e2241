--------------------------- MODULE ConfigExecutor ---------------------------
(***************************************************************************)
(* Configurations on their way to the device: the draft and the APPLIED     *)
(* configuration of the executor (device_executor.py), the requests that    *)
(* edit, apply and use them (application.py), the sweep that walks the      *)
(* device through a plan and puts the baseline back (run_plan.py), and the  *)
(* published bridge session all of them speak through                       *)
(* (bridge_device_client.py), while that session is lost and replaced.      *)
(*                                                                          *)
(* A configuration is a record of two fields, the one the sweep changes and *)
(* the rest.  A configuration and its profile hash are one value here, as   *)
(* the hash stands for the configuration wherever the code compares it.     *)
(* Periodic sessions are CoreSessions' subject: they change no              *)
(* configuration.                                                           *)
(***************************************************************************)
EXTENDS Integers, Sequences

CONSTANTS
    Threads,        \* threads that serve requests, numbers from 1
    Values,         \* what a field of a configuration may hold
    Default,        \* the profile the device boots with and drafts start from
    Unsafe,         \* configurations that _safety_errors refuses
    Changes,        \* what a request may ask for: a field and its new value
    Points,         \* sweep.values
    Loops,          \* plan.loops
    MaxRequests,    \* bound on requests
    MaxFaults       \* bound on lost bridge sessions

Configs  == [swept : Values, rest : Values]
NoConfig == [swept |-> "NONE", rest |-> "NONE"]

ASSUME ExecutorConstants ==
    /\ Threads \subseteq Nat \ {0}
    /\ Default \in Configs \ Unsafe /\ NoConfig \notin Configs
    /\ Unsafe \subseteq Configs
    /\ Changes \subseteq [field : {"swept", "rest"}, value : Values]
    /\ Points \in Seq(Values) /\ Points # <<>>
    /\ Loops \in Nat \ {0}
    /\ MaxRequests \in Nat /\ MaxFaults \in Nat

VARIABLES
    dev,        \* the device: its configuration and config_valid
    link,       \* the published session: generation, connected, the stream still works
    client,     \* the published client: _device_config, and a delivery is pending
    snap,       \* _snapshot of the executor: state and requested values
    applied,    \* _applied_config, or NoConfig
    egen,       \* _session_generation of the executor
    view,       \* _device_view: the session it names and the one its status is of
    ex,         \* the operation that holds the executor lock
    req,        \* req[t]: the request thread t serves
    activity,   \* _operation_activity is set
    sess,       \* the sweep session
    wk,         \* the sweep worker: where it is and how its plan ended
    \* history and bounds
    choice,     \* the values the operator chose last
    spoiled,    \* a sweep could not put its baseline back since then: the device
                \* was out of reach, or answered and refused
    raced,      \* the session was replaced between the last readback and its adoption
    asked, faults

hostVars == <<snap, applied, egen>>
histVars == <<choice, spoiled, raced>>
vars == <<dev, link, client, hostVars, view, ex, req, activity, sess, wk, histVars, asked, faults>>

Worker == 0         \* the sweep worker as holder of the executor lock

NoClient == [config |-> NoConfig, pending |-> FALSE]

\* pc: where the operation is; target: the configuration it applies or captures
\* with; took, filing: the device's configuration at the burst and the snapshot
\* to file with the frame; base, k: baseline and position of a plan; restoring,
\* fail: its finally clause and what it raised; gen, diag: of a device view.
NoOp == [pc |-> "free", who |-> Worker, target |-> NoConfig, took |-> NoConfig,
         filing |-> [state |-> "DRAFT", req |-> NoConfig], base |-> NoConfig, k |-> 0,
         restoring |-> FALSE, fail |-> "NONE", gen |-> 0, diag |-> 0]

NoRequest == [pc |-> "idle", kind |-> "VIEW", expect |-> NoConfig,
              change |-> [field |-> "rest", value |-> "NONE"]]

NoSweep == [state |-> "NONE", stop |-> FALSE, base |-> NoConfig, frames |-> <<>>]

Kinds      == {"DRAFT", "APPLY", "CAPTURE", "SWEEP", "VIEW"}
Snapshots  == [state : {"DRAFT", "APPLIED"}, req : Configs \cup {NoConfig}]
Failures   == {"NONE", "RUNTIME", "OTHER"}
SweepState == {"NONE", "RUNNING", "STOPPING", "COMPLETED", "STOPPED", "FAILED"}
ActiveSweep == {"RUNNING", "STOPPING"}

Operations ==
    [pc : {"free", "apply", "set", "readback", "adopt", "burst", "file", "confirm", "step",
           "restore", "status", "caps"},
     who : Threads \cup {Worker}, target : Configs \cup {NoConfig},
     took : Configs \cup {NoConfig}, filing : Snapshots, base : Configs \cup {NoConfig},
     k : Nat, restoring : BOOLEAN, fail : Failures, gen : Nat, diag : Nat]
Requests ==
    [pc : {"idle", "match", "compile", "list", "enter", "inside", "peek"}, kind : Kinds,
     expect : Configs \cup {NoConfig},
     change : [field : {"swept", "rest"}, value : Values \cup {"NONE"}]]

\* What every variable may hold.
DeviceTypes  == /\ dev \in [config : Configs, valid : BOOLEAN]
                /\ link \in [gen : Nat, up : BOOLEAN, alive : BOOLEAN]
                /\ client \in [config : Configs \cup {NoConfig}, pending : BOOLEAN]
HostTypes    == /\ snap \in [state : {"DRAFT", "APPLIED"}, req : Configs]
                /\ applied \in Configs \cup {NoConfig} /\ egen \in Nat
ViewTypes    == view \in [gen : Nat, diag : Nat]
OpTypes      == ex \in Operations
RequestTypes == req \in [Threads -> Requests] /\ activity \in BOOLEAN
SweepTypes   == /\ sess \in [state : SweepState, stop : BOOLEAN, base : Configs \cup {NoConfig},
                             frames : Seq(Configs)]
                /\ wk \in [pc : {"none", "start", "plan", "finish"}, fail : Failures]
HistoryTypes == /\ choice \in Configs /\ spoiled \in BOOLEAN /\ raced \in BOOLEAN
                /\ asked \in Nat /\ faults \in Nat

TypeOK ==
    /\ DeviceTypes /\ HostTypes /\ ViewTypes /\ OpTypes /\ RequestTypes /\ SweepTypes
    /\ HistoryTypes

\* The core starts before a bridge connects; the device may have booted into FAULT.
Init ==
    /\ dev \in [config : {Default}, valid : BOOLEAN]
    /\ link = [gen |-> 0, up |-> FALSE, alive |-> FALSE] /\ client = NoClient
    /\ snap = [state |-> "DRAFT", req |-> Default] /\ applied = NoConfig /\ egen = 0
    /\ view = [gen |-> 0, diag |-> 0]
    /\ ex = NoOp /\ req = [t \in Threads |-> NoRequest] /\ activity = FALSE
    /\ sess = NoSweep /\ wk = [pc |-> "none", fail |-> "NONE"]
    /\ choice = Default /\ spoiled = FALSE /\ raced = FALSE /\ asked = 0 /\ faults = 0

-----------------------------------------------------------------------------
(* The parameter service and the run plan. *)

\* update_draft: one field of the values changes; the values linked to it (rate,
\* record time and ticks) are part of it.
Merge(c, change) == [c EXCEPT ![change.field] = change.value]

\* _safety_errors and validate.
Valid(c) == c \notin Unsafe

\* Number of steps of a compiled plan, and the configuration of step k (from 0):
\* every point as often as there are loops, before the next.
Total == Len(Points) * Loops

StepOf(base, k) == [base EXCEPT !.swept = Points[(k \div Loops) + 1]]

\* compile_run_steps accepts the plan on this baseline.
Compiles(base) == \A k \in 0 .. Total - 1 : Valid(StepOf(base, k))

-----------------------------------------------------------------------------
(* The published session. *)

\* The proxy is inside a call that has sent a command and waits for the answer.
Locked == ex.pc \in {"set", "readback"}

\* The stream breaks: the device may keep its configuration, lose it, or reboot.
LinkLost ==
    /\ link.alive /\ faults < MaxFaults
    /\ faults' = faults + 1
    /\ link' = [link EXCEPT !.alive = FALSE]
    /\ dev' \in {dev, [dev EXCEPT !.valid = FALSE], [config |-> Default, valid |-> TRUE]}
    /\ UNCHANGED <<client, hostVars, view, ex, req, activity, sess, wk, histVars, asked>>

\* A faulty variant: a new session keeps the generation of the old one.
PublishSameGeneration ==
    /\ ~link.alive /\ ~Locked
    /\ link' = [gen |-> IF link.gen = 0 THEN 1 ELSE link.gen, up |-> TRUE, alive |-> TRUE]
    /\ client' = NoClient
    /\ UNCHANGED <<dev, hostVars, view, ex, req, activity, sess, wk, histVars, asked, faults>>

\* accept_replacement_bridge and replace: a fresh client, a new generation.
Publish ==
    /\ ~link.alive /\ ~Locked
    /\ link' = [gen |-> link.gen + 1, up |-> TRUE, alive |-> TRUE]
    /\ client' = NoClient
    /\ UNCHANGED <<dev, hostVars, view, ex, req, activity, sess, wk, histVars, asked, faults>>

\* The wrapper publishes the disconnect before it raises DeviceUnavailable.
Unpublish ==
    /\ link' = IF link.up THEN [link EXCEPT !.gen = @ + 1, !.up = FALSE] ELSE link
    /\ client' = NoClient

\* A proxy call whose command reaches the device, and one that cannot.
Reached   == link.up /\ link.alive
Unreached == ~Reached

-----------------------------------------------------------------------------
(* What requests do before and without the device. *)

Free == ex.pc = "free"

\* _require_idle
Idle == sess.state \notin ActiveSweep

\* _refresh_session_unlocked: after a new session the values are a draft again.
SnapNow    == IF egen = link.gen THEN snap ELSE [snap EXCEPT !.state = "DRAFT"]
AppliedNow == IF egen = link.gen THEN applied ELSE NoConfig
Refresh    == snap' = SnapNow /\ applied' = AppliedNow /\ egen' = link.gen

\* A faulty variant: diagnostics stay when the session changes.
MergeKeepsDiagnostics == view' = [view EXCEPT !.gen = link.gen]

\* _merge_published_session: no diagnostics of an earlier session.
MergeView == view' = IF view.gen = link.gen THEN view ELSE [gen |-> link.gen, diag |-> 0]

\* A request arrives at the first idle thread; what it expects is the identity
\* its client read.
Arrive(t, kind, change, pc) ==
    /\ req[t].pc = "idle" /\ asked < MaxRequests
    /\ \A u \in Threads : u < t => req[u].pc # "idle"
    /\ asked' = asked + 1
    /\ req' = [req EXCEPT ![t] = [pc |-> pc, kind |-> kind, expect |-> applied, change |-> change]]

Answer(t) == req' = [req EXCEPT ![t] = NoRequest]

Proceed(t, pc) == req' = [req EXCEPT ![t].pc = pc]

\* save_draft needs no device.
AskDraft(t, change) ==
    /\ Idle /\ Arrive(t, "DRAFT", change, "enter")
    /\ UNCHANGED <<dev, link, client, hostVars, view, ex, activity, sess, wk, histVars, faults>>

\* apply_config, before it looks at the ETag.
AskApply(t, change) ==
    /\ link.up /\ Idle /\ Arrive(t, "APPLY", change, "match") /\ MergeView
    /\ UNCHANGED <<dev, link, client, hostVars, ex, activity, sess, wk, histVars, faults>>

\* capture_once: the identity is compared later, under the executor lock.
AskCapture(t) ==
    /\ link.up /\ Idle /\ applied # NoConfig
    /\ Arrive(t, "CAPTURE", NoRequest.change, "enter") /\ MergeView
    /\ activity' = TRUE
    /\ UNCHANGED <<dev, link, client, hostVars, ex, sess, wk, histVars, faults>>

\* start_sweep
AskSweep(t) ==
    /\ link.up /\ applied # NoConfig
    /\ Arrive(t, "SWEEP", NoRequest.change, "match") /\ MergeView
    /\ UNCHANGED <<dev, link, client, hostVars, ex, activity, sess, wk, histVars, faults>>

\* device: a busy core answers from the view it has.
AskView(t) ==
    /\ IF Idle /\ ~activity THEN Arrive(t, "VIEW", NoRequest.change, "peek") /\ UNCHANGED view
       ELSE req[t].pc = "idle" /\ MergeView /\ view' # view /\ UNCHANGED <<req, asked>>
    /\ UNCHANGED <<dev, link, client, hostVars, ex, activity, sess, wk, histVars, faults>>

\* The ETag of apply_config, and require_applied_identity of start_sweep.
Match(t) ==
    /\ req[t].pc = "match" /\ Free /\ Refresh
    /\ \/ /\ req[t].kind = "APPLY" /\ req[t].expect = AppliedNow
          /\ Proceed(t, "enter") /\ activity' = TRUE
       \/ /\ req[t].kind = "SWEEP" /\ SnapNow.state = "APPLIED" /\ req[t].expect = AppliedNow
          /\ Proceed(t, "compile") /\ UNCHANGED activity
       \/ /\ \/ req[t].expect # AppliedNow
             \/ req[t].kind = "SWEEP" /\ SnapNow.state # "APPLIED"
          /\ Answer(t) /\ UNCHANGED activity
    /\ UNCHANGED <<dev, link, client, view, ex, sess, wk, histVars, asked, faults>>

\* start_sweep compiles the plan once, on the snapshot of that moment.
Compile(t) ==
    /\ req[t].pc = "compile" /\ Free /\ Refresh
    /\ IF Compiles(SnapNow.req) THEN Proceed(t, "list") ELSE Answer(t)
    /\ UNCHANGED <<dev, link, client, view, ex, activity, sess, wk, histVars, asked, faults>>

\* start_sweep under _session_lock: the session is listed and its worker started.
List(t) ==
    /\ req[t].pc = "list" /\ Answer(t)
    /\ IF Idle /\ link.up
       THEN /\ sess' = [NoSweep EXCEPT !.state = "RUNNING"]
            /\ wk' = [pc |-> "start", fail |-> "NONE"]
       ELSE UNCHANGED <<sess, wk>>
    /\ IF Idle THEN MergeView ELSE UNCHANGED view
    /\ UNCHANGED <<dev, link, client, hostVars, ex, activity, histVars, asked, faults>>

\* update_draft
EnterDraft(t) ==
    /\ req[t].pc = "enter" /\ req[t].kind = "DRAFT" /\ Free
    /\ snap' = [state |-> "DRAFT", req |-> Merge(snap.req, req[t].change)]
    /\ applied' = AppliedNow /\ egen' = link.gen
    /\ choice' = snap'.req /\ spoiled' = FALSE
    /\ Answer(t)
    /\ UNCHANGED <<raced, dev, link, client, view, ex, activity, sess, wk, asked, faults>>

\* A faulty variant: the change is merged into what the caller saw.
TargetOfCaller(t) ==
    Merge(IF req[t].expect = NoConfig THEN snap.req ELSE req[t].expect, req[t].change)

\* apply_changes merges the change into the values of that moment.
TargetOf(t) == Merge(snap.req, req[t].change)

\* apply_changes: refused, or on its way to the device.
EnterApply(t) ==
    /\ req[t].pc = "enter" /\ req[t].kind = "APPLY" /\ Free /\ Refresh
    /\ IF Valid(TargetOf(t))
       THEN /\ ex' = [NoOp EXCEPT !.pc = "apply", !.who = t, !.target = TargetOf(t)]
            /\ Proceed(t, "inside") /\ UNCHANGED activity
       ELSE Answer(t) /\ activity' = FALSE /\ UNCHANGED ex
    /\ UNCHANGED <<dev, link, client, view, sess, wk, histVars, asked, faults>>

\* A faulty variant: any APPLIED configuration will do.
SomethingIsApplied(expect) == SnapNow.state = "APPLIED" /\ AppliedNow # NoConfig

\* _require_applied_identity_unlocked
IdentityHolds(expect) == SnapNow.state = "APPLIED" /\ AppliedNow = expect

\* capture_once of the executor.
EnterCapture(t) ==
    /\ req[t].pc = "enter" /\ req[t].kind = "CAPTURE" /\ Free /\ Refresh
    /\ IF IdentityHolds(req[t].expect)
       THEN /\ ex' = [NoOp EXCEPT !.pc = "burst", !.who = t, !.target = AppliedNow]
            /\ Proceed(t, "inside") /\ UNCHANGED activity
       ELSE Answer(t) /\ activity' = FALSE /\ UNCHANGED ex
    /\ UNCHANGED <<dev, link, client, view, sess, wk, histVars, asked, faults>>

\* try_device_view: it does not wait for the executor lock.
Peek(t) ==
    /\ req[t].pc = "peek" /\ MergeView
    /\ IF Free THEN Refresh ELSE UNCHANGED hostVars
    /\ IF Free /\ link.up
       THEN ex' = [NoOp EXCEPT !.pc = "status", !.who = t, !.gen = link.gen] /\ Proceed(t, "inside")
       ELSE Answer(t) /\ UNCHANGED ex
    /\ UNCHANGED <<dev, link, client, activity, sess, wk, histVars, asked, faults>>

-----------------------------------------------------------------------------
(* The operation that holds the executor lock. *)

\* A request gives the lock back and answers.
Return ==
    /\ ex' = NoOp /\ Answer(ex.who)
    /\ activity' = (activity /\ req[ex.who].kind = "VIEW")
    /\ UNCHANGED <<wk, spoiled>>

\* The plan gives the lock back; its worker learns how it ended.
Leave(fail, spoils) ==
    /\ ex' = NoOp /\ wk' = [pc |-> "finish", fail |-> fail]
    /\ spoiled' = (spoiled \/ spoils)
    /\ UNCHANGED <<req, activity>>

\* A faulty variant: what a step of a plan raises skips the finally clause.
RaiseThrough(fail) ==
    IF ex.who = Worker THEN Leave(fail, FALSE) ELSE Return

\* A call raises: a request ends, a plan goes to its finally clause, and a
\* finally clause ends with the sweep point still in the snapshot.
Raise(fail) ==
    IF ex.who # Worker THEN Return
    ELSE IF ex.restoring THEN Leave(fail, TRUE)
    ELSE /\ ex' = [ex EXCEPT !.pc = "restore", !.fail = fail]
         /\ UNCHANGED <<wk, spoiled, req, activity>>

At(pc) == ex' = [ex EXCEPT !.pc = pc] /\ UNCHANGED <<wk, spoiled, req, activity>>

\* apply_config of a client that has not read the device's configuration yet.
ReadConfig ==
    /\ ex.pc = "apply" /\ client.config = NoConfig /\ Reached
    /\ IF dev.valid THEN client' = [client EXCEPT !.config = dev.config] /\ At("set")
       ELSE Raise("RUNTIME") /\ UNCHANGED client
    /\ UNCHANGED <<dev, link, hostVars, view, sess, choice, raced, asked, faults>>

\* The device takes SET_CONFIG when the expected hash is that of its configuration.
Expected == dev.valid /\ dev.config = client.config

\* SET_CONFIG and its ACK; a failed application leaves no configuration.
SetConfig ==
    /\ ex.pc = "set" \/ (ex.pc = "apply" /\ client.config # NoConfig)
    /\ Reached
    /\ \/ Expected /\ dev' = [config |-> ex.target, valid |-> TRUE] /\ At("readback")
       \/ Expected /\ dev' = [dev EXCEPT !.valid = FALSE] /\ Raise("RUNTIME")
       \/ ~Expected /\ UNCHANGED dev /\ Raise("RUNTIME")
    /\ UNCHANGED <<link, client, hostVars, view, sess, choice, raced, asked, faults>>

\* The GET_CONFIG after it.
Readback ==
    /\ ex.pc = "readback" /\ Reached
    /\ client' = [client EXCEPT !.config = dev.config] /\ At("adopt")
    /\ UNCHANGED <<dev, link, hostVars, view, sess, choice, raced, asked, faults>>

\* What follows a configuration that was applied, by who asked for it.
Applied ==
    \/ /\ ex.who # Worker
       /\ choice' = ex.target /\ spoiled' = FALSE
       /\ ex' = NoOp /\ Answer(ex.who) /\ activity' = FALSE /\ UNCHANGED wk
    \/ ex.who = Worker /\ ex.restoring /\ Leave(ex.fail, FALSE) /\ UNCHANGED choice
    \/ ex.who = Worker /\ ~ex.restoring /\ At("burst") /\ UNCHANGED choice

\* A faulty variant: the snapshot keeps the state validate gave it.
AdoptValidated ==
    /\ ex.pc = "adopt"
    /\ applied' = ex.target /\ snap' = [state |-> "VALIDATED", req |-> ex.target]
    /\ egen' = link.gen /\ raced' = (client.config = NoConfig)
    /\ Applied
    /\ UNCHANGED <<dev, link, client, view, sess, asked, faults>>

\* _apply_validated after the client has returned; mark_applied finds the
\* readback equal to the target.
Adopt ==
    /\ ex.pc = "adopt"
    /\ applied' = ex.target /\ snap' = [state |-> "APPLIED", req |-> ex.target]
    /\ egen' = link.gen /\ raced' = (client.config = NoConfig)
    /\ Applied
    /\ UNCHANGED <<dev, link, client, view, sess, asked, faults>>

\* CAPTURE_ONCE and its delivery.  The device compares the profile; the
\* snapshot of that moment goes with the frame.
Burst ==
    /\ ex.pc = "burst" /\ Reached
    /\ \/ /\ dev.valid /\ dev.config = ex.target
          /\ ex' = [ex EXCEPT !.pc = "file", !.took = dev.config, !.filing = snap]
          /\ client' = [client EXCEPT !.pending = TRUE]
          /\ UNCHANGED <<wk, spoiled, req, activity>>
       \/ Raise("RUNTIME") /\ UNCHANGED client
    /\ UNCHANGED <<dev, link, hostVars, view, sess, choice, raced, asked, faults>>

\* _persist_capture up to the commit; only the client that took the delivery has it.
File ==
    /\ ex.pc = "file" /\ client.pending /\ At("confirm")
    /\ sess' = IF ex.who = Worker THEN [sess EXCEPT !.frames = Append(@, ex.filing.req)] ELSE sess
    /\ UNCHANGED <<dev, link, client, hostVars, view, choice, raced, asked, faults>>

FileLost ==
    /\ ex.pc = "file" /\ ~client.pending
    /\ Raise(IF link.up THEN "OTHER" ELSE "RUNTIME")
    /\ UNCHANGED <<dev, link, client, hostVars, view, sess, choice, raced, asked, faults>>

\* The receipt of a committed capture; a client that replaced the one that
\* delivered it has nothing pending.
Confirm ==
    /\ ex.pc = "confirm"
    /\ \/ /\ Reached /\ client.pending /\ client' = [client EXCEPT !.pending = FALSE]
          /\ IF ex.who # Worker THEN Return
             ELSE /\ ex' = [ex EXCEPT !.pc = "step", !.k = @ + 1]
                  /\ UNCHANGED <<wk, spoiled, req, activity>>
       \/ link.up /\ ~client.pending /\ Raise("RUNTIME") /\ UNCHANGED client
    /\ UNCHANGED <<dev, link, hostVars, view, sess, choice, raced, asked, faults>>

\* A faulty variant: a command that waits for its answer waits for ever.
CallWaits ==
    /\ ex.pc \in {"apply", "set", "burst", "confirm"} /\ Unreached
    /\ Unpublish /\ Raise("RUNTIME")
    /\ UNCHANGED <<dev, hostVars, view, sess, choice, raced, asked, faults>>

\* A call on a session that is gone, or goes while the call waits.
CallLost ==
    /\ ex.pc \in {"apply", "set", "readback", "burst", "confirm"} /\ Unreached
    /\ ex.pc = "confirm" /\ link.up => client.pending
    /\ Unpublish /\ Raise("RUNTIME")
    /\ UNCHANGED <<dev, hostVars, view, sess, choice, raced, asked, faults>>

\* The two calls of try_device_view and its answer to DeviceUnavailable.
Status ==
    /\ ex.pc = "status" /\ Reached
    /\ ex' = [ex EXCEPT !.pc = "caps", !.diag = link.gen]
    /\ UNCHANGED <<dev, link, client, hostVars, view, req, activity, sess, wk, histVars, asked, faults>>

StatusLost ==
    /\ ex.pc = "status" /\ Unreached
    /\ Unpublish /\ view' = [gen |-> link'.gen, diag |-> 0] /\ Return
    /\ UNCHANGED <<dev, hostVars, sess, choice, raced, asked, faults>>

Caps ==
    /\ ex.pc = "caps"
    /\ view' = IF link.up THEN [gen |-> ex.gen, diag |-> ex.diag] ELSE [gen |-> link.gen, diag |-> 0]
    /\ Return
    /\ UNCHANGED <<dev, link, client, hostVars, sess, choice, raced, asked, faults>>

-----------------------------------------------------------------------------
(* The sweep. *)

\* stop_sweep
StopSweep ==
    /\ sess.state = "RUNNING"
    /\ sess' = [sess EXCEPT !.state = "STOPPING", !.stop = TRUE]
    /\ UNCHANGED <<dev, link, client, hostVars, view, ex, req, activity, wk, histVars, asked, faults>>

\* execute_run_plan up to its loop.
PlanStart ==
    /\ wk.pc = "start" /\ Free /\ Refresh
    /\ LET base == AppliedNow IN
       \/ /\ SnapNow.state # "APPLIED" \/ base = NoConfig
          /\ wk' = [pc |-> "finish", fail |-> "RUNTIME"] /\ UNCHANGED <<ex, sess>>
       \/ /\ SnapNow.state = "APPLIED" /\ base # NoConfig /\ ~Compiles(base)
          /\ wk' = [pc |-> "finish", fail |-> "OTHER"] /\ UNCHANGED <<ex, sess>>
       \/ /\ SnapNow.state = "APPLIED" /\ base # NoConfig /\ Compiles(base)
          /\ wk' = [wk EXCEPT !.pc = "plan"]
          /\ ex' = [NoOp EXCEPT !.pc = "step", !.who = Worker, !.base = base]
          /\ sess' = [sess EXCEPT !.base = base]
    /\ UNCHANGED <<dev, link, client, view, req, activity, histVars, asked, faults>>

\* A faulty variant: a stopped plan leaves its loop as a finished one does.
StopIsEnd ==
    /\ ex.pc = "step" /\ (sess.stop \/ ex.k = Total)
    /\ At("restore")
    /\ UNCHANGED <<dev, link, client, hostVars, view, sess, choice, raced, asked, faults>>

\* The head of the loop: stopped, or past the last step.
PlanEnd ==
    /\ ex.pc = "step"
    /\ \/ ex.k = Total /\ At("restore")
       \/ ex.k < Total /\ sess.stop /\ Raise("RUNTIME")
    /\ UNCHANGED <<dev, link, client, hostVars, view, sess, choice, raced, asked, faults>>

\* The next step: SET_CONFIG only when the APPLIED configuration is another.
PlanStep ==
    /\ ex.pc = "step" /\ ex.k < Total /\ ~sess.stop
    /\ LET target == StepOf(ex.base, ex.k) IN
       ex' = [ex EXCEPT !.target = target, !.pc = IF applied = target THEN "burst" ELSE "apply"]
    /\ UNCHANGED <<dev, link, client, hostVars, view, req, activity, sess, wk, histVars, asked, faults>>

\* The finally clause.
Restore ==
    /\ ex.pc = "restore"
    /\ IF applied = ex.base THEN Leave(ex.fail, FALSE)
       ELSE /\ ex' = [ex EXCEPT !.pc = "apply", !.restoring = TRUE, !.target = ex.base]
            /\ UNCHANGED <<wk, spoiled, req, activity>>
    /\ UNCHANGED <<dev, link, client, hostVars, view, sess, choice, raced, asked, faults>>

\* _sweep_worker after the plan.
Finish ==
    /\ wk.pc = "finish" /\ wk' = [pc |-> "none", fail |-> "NONE"]
    /\ sess' = [sess EXCEPT !.state =
                  IF wk.fail = "NONE" THEN "COMPLETED"
                  ELSE IF wk.fail = "RUNTIME" /\ sess.stop THEN "STOPPED" ELSE "FAILED"]
    /\ UNCHANGED <<dev, link, client, hostVars, view, ex, req, activity, histVars, asked, faults>>

-----------------------------------------------------------------------------
\* A step of the operation that holds the executor lock.
Operation ==
    \/ ReadConfig \/ SetConfig \/ Readback \/ Adopt \/ Burst \/ File \/ FileLost \/ Confirm
    \/ CallLost \/ Status \/ StatusLost \/ Caps \/ PlanEnd \/ PlanStep \/ Restore

Request(t) ==
    \/ Match(t) \/ Compile(t) \/ List(t) \/ EnterDraft(t) \/ EnterApply(t) \/ EnterCapture(t)
    \/ Peek(t)

Ask(t) ==
    \/ \E change \in Changes : AskDraft(t, change) \/ AskApply(t, change)
    \/ AskCapture(t) \/ AskSweep(t) \/ AskView(t)

Next ==
    \/ LinkLost \/ Publish \/ StopSweep \/ PlanStart \/ Finish \/ Operation
    \/ \E t \in Threads : Ask(t) \/ Request(t)

Spec == Init /\ [][Next]_vars

\* Threads that may run do; every device call ends, by an answer, by an error or
\* by the client's socket timeout.
FairSpec ==
    /\ Spec /\ WF_vars(Operation) /\ WF_vars(PlanStart) /\ WF_vars(Finish)
    /\ \A t \in Threads : WF_vars(Request(t))

-----------------------------------------------------------------------------
(* Properties. *)

\* Outside a running plan the executor holds exactly the values the operator
\* chose last, applied or not: a failed apply_changes publishes no intermediate
\* draft, a reconnect keeps the values, and a plan that ends, fails or is stopped
\* puts its baseline back - unless the device was out of reach or refused it.
ChoiceKept == (ex.who = Worker /\ ~Free) \/ spoiled \/ snap.req = choice

\* A frame is filed with the configuration the device took it under, read back
\* from the device, and a single capture with the one its caller named, whatever
\* was applied between the request and the lock (_persist_capture, capture_once).
FiledAsTaken ==
    ex.pc \in {"file", "confirm"} =>
        /\ ex.filing = [state |-> "APPLIED", req |-> ex.took]
        /\ ex.who # Worker => req[ex.who].expect = ex.took

\* Between operations, on a session that works, what the executor calls APPLIED
\* is what the device has, however often the session was lost and the device
\* rebooted since - unless the session was replaced while _apply_validated was
\* between the client's answer and its look at the generation, or a failed
\* SET_CONFIG has left the device without a configuration.
AppliedIsBacked ==
    Free /\ Reached /\ egen = link.gen /\ snap.state = "APPLIED" /\ dev.valid /\ ~raced
    => applied = dev.config

\* A COMPLETED sweep has filed every point as often as there are loops, in order,
\* each on the baseline the plan began with; any other one a part of that from
\* the start, never the same step twice.
SweepIsWhole ==
    /\ \A i \in 1 .. Len(sess.frames) : i <= Total /\ sess.frames[i] = StepOf(sess.base, i - 1)
    /\ sess.state = "COMPLETED" => Len(sess.frames) = Total

\* The status in a device view is never of an earlier session than the one the
\* view names (try_device_view, "never carry diagnostics across device sessions").
NoOldDiagnostics == view.diag = 0 \/ view.diag >= view.gen

\* An apply request changes the field it names and no other, also when another
\* request was applied after its ETag was compared (apply_config, apply_changes).
OnlyNamedFieldChanges ==
    [][\A t \in Threads :
         ex.pc = "adopt" /\ ex.who = t /\ ~spoiled /\ Adopt
            => choice' = Merge(choice, req[t].change)]_vars

\* Every sweep that is listed ends (the worker, whatever the device does).
SweepEnds == sess.state \in ActiveSweep ~> sess.state \notin ActiveSweep

-----------------------------------------------------------------------------
(* What makes the properties inductive. *)

ApplyPcs == {"apply", "set", "readback", "adopt"}

\* Who holds the executor lock: a request that waits inside, or the plan; a plan
\* exists exactly as long as its session is active.
LockHeld ==
    /\ Free => ex.who = Worker
    /\ ex.who # Worker => req[ex.who].pc = "inside" /\ ex.pc \notin {"step", "restore"}
    /\ ex.who = Worker => ex.pc \notin {"status", "caps"}
    /\ wk.pc = "plan" <=> ex.who = Worker /\ ~Free
    /\ wk.pc # "none" <=> sess.state \in ActiveSweep

\* A request to change the configuration names one of the changes.
ChangesAsked == \A t \in Threads : req[t].kind \in {"DRAFT", "APPLY"} => req[t].change \in Changes

\* What the snapshot, the generation and the target of an operation mean.
SnapshotInv ==
    /\ snap.state = "APPLIED" => snap.req = applied
    /\ egen <= link.gen
    /\ ex.pc \in ApplyPcs \cup {"burst"} => ex.target \in Configs
    /\ ex.who # Worker /\ ex.pc \in ApplyPcs => ex.target = Merge(snap.req, req[ex.who].change)
    /\ ex.pc = "burst" => snap.state = "APPLIED" /\ snap.req = ex.target
    /\ ex.pc = "burst" /\ ex.who # Worker => req[ex.who].expect = ex.target

\* A plan works on the configuration that was applied when it began, and the
\* frames it has filed are those of the steps it has done; a plan in its finally
\* clause has failed, or has done them all.
PlanBase ==
    wk.pc = "plan" =>
        /\ ex.base \in Configs /\ ex.base = sess.base
        /\ snap.state = "APPLIED" /\ (spoiled \/ ex.base = choice)
PlanSteps ==
    wk.pc = "plan" /\ ~ex.restoring /\ ex.pc # "restore" =>
        /\ ex.fail = "NONE" /\ ex.k <= Total
        /\ Len(sess.frames) = IF ex.pc = "confirm" THEN ex.k + 1 ELSE ex.k
        /\ ex.pc # "step" => ex.k < Total /\ ex.target = StepOf(ex.base, ex.k)
        /\ ex.pc = "file" => ex.took = ex.target
PlanRestores ==
    /\ wk.pc = "plan" /\ (ex.restoring \/ ex.pc = "restore") =>
         /\ ex.fail = "NONE" => Len(sess.frames) = Total
         /\ ex.pc # "restore" => ex.pc \in ApplyPcs /\ ex.target = ex.base
    /\ ex.who # Worker => ~ex.restoring
WorkerInv ==
    /\ wk.pc = "start" => sess.frames = <<>>
    /\ wk.pc = "finish" /\ wk.fail = "NONE" => Len(sess.frames) = Total

\* What is known of the device while a configuration is on its way to it.
DeviceKnown ==
    /\ ex.pc \notin {"readback", "adopt"} /\ Reached /\ egen = link.gen /\ snap.state = "APPLIED"
         /\ dev.valid /\ ~raced => applied = dev.config
    /\ ex.pc = "readback" /\ Reached => dev.config = ex.target
    /\ ex.pc = "adopt" /\ Reached /\ client.config # NoConfig /\ dev.valid
         => dev.config = ex.target

\* A status is read on the session the view will name or on a later one.
ViewKnown ==
    /\ ex.pc \in {"status", "caps"} => ex.gen <= link.gen
    /\ ex.pc = "caps" => ex.diag >= ex.gen

ExecutorInv ==
    /\ TypeOK /\ LockHeld /\ ChangesAsked /\ SnapshotInv
    /\ PlanBase /\ PlanSteps /\ PlanRestores /\ WorkerInv /\ DeviceKnown /\ ViewKnown
    /\ ChoiceKept /\ FiledAsTaken /\ SweepIsWhole /\ NoOldDiagnostics
=============================================================================
