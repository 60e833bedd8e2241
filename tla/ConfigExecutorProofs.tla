------------------------ MODULE ConfigExecutorProofs ------------------------
(***************************************************************************)
(* What the executor calls APPLIED, files with a frame and puts back after  *)
(* a sweep, for every number of threads, requests and lost sessions, every  *)
(* set of values and every plan.                                            *)
(***************************************************************************)
EXTENDS ConfigExecutor, TLAPS

\* A change of one field leads from a configuration to a configuration.
LEMMA MergeType ==
    ASSUME NEW c \in Configs, NEW change \in Changes
    PROVE  Merge(c, change) \in Configs
  BY ExecutorConstants DEF Merge, Configs

\* A step of the plan asks for a configuration.
LEMMA StepType ==
    ASSUME NEW base \in Configs, NEW k \in Nat, k < Total
    PROVE  StepOf(base, k) \in Configs
  <1> DEFINE n == Len(Points)
             q == k \div Loops
  <1>1. n \in Nat /\ Loops \in Nat /\ Loops > 0 /\ Points \in [1 .. n -> Values]
    BY ExecutorConstants
  <1>2. q \in Nat /\ q * Loops <= k
    BY <1>1
  <1>3. q < n
    BY <1>1, <1>2 DEF Total
  <1>4. Points[q + 1] \in Values
    BY <1>1, <1>2, <1>3
  <1>5. QED
    BY <1>4 DEF StepOf, Configs

\* Every part of the invariant depends on some of the variables only.
LEMMA Untouched ==
    /\ DeviceTypes /\ UNCHANGED <<dev, link, client>> => DeviceTypes'
    /\ HostTypes /\ UNCHANGED hostVars => HostTypes'
    /\ ViewTypes /\ UNCHANGED view => ViewTypes'
    /\ OpTypes /\ UNCHANGED ex => OpTypes'
    /\ RequestTypes /\ UNCHANGED <<req, activity>> => RequestTypes'
    /\ SweepTypes /\ UNCHANGED <<sess, wk>> => SweepTypes'
    /\ HistoryTypes /\ UNCHANGED <<histVars, asked, faults>> => HistoryTypes'
    /\ LockHeld /\ UNCHANGED <<ex, req, wk, sess>> => LockHeld'
    /\ ChangesAsked /\ UNCHANGED req => ChangesAsked'
    /\ SnapshotInv /\ UNCHANGED <<hostVars, link, ex, req>> => SnapshotInv'
    /\ PlanBase /\ UNCHANGED <<wk, ex, sess, snap, spoiled, choice>> => PlanBase'
    /\ PlanSteps /\ UNCHANGED <<wk, ex, sess>> => PlanSteps'
    /\ PlanRestores /\ UNCHANGED <<wk, ex, sess>> => PlanRestores'
    /\ WorkerInv /\ UNCHANGED <<wk, sess>> => WorkerInv'
    /\ DeviceKnown /\ UNCHANGED <<ex, link, hostVars, dev, raced, client>> => DeviceKnown'
    /\ ViewKnown /\ UNCHANGED <<ex, link>> => ViewKnown'
    /\ ChoiceKept /\ UNCHANGED <<ex, spoiled, snap, choice>> => ChoiceKept'
    /\ FiledAsTaken /\ UNCHANGED <<ex, req>> => FiledAsTaken'
    /\ SweepIsWhole /\ UNCHANGED sess => SweepIsWhole'
    /\ NoOldDiagnostics /\ UNCHANGED view => NoOldDiagnostics'
  BY DEF DeviceTypes, HostTypes, ViewTypes, OpTypes, RequestTypes, SweepTypes, HistoryTypes,
         LockHeld, ChangesAsked, SnapshotInv, PlanBase, PlanSteps, PlanRestores, WorkerInv,
         DeviceKnown, ViewKnown, ChoiceKept, FiledAsTaken, SweepIsWhole, NoOldDiagnostics,
         hostVars, histVars, Free, Reached

USE DEF ExecutorInv, TypeOK

-----------------------------------------------------------------------------
(* The published session. *)

\* The device may do what it likes behind a stream that is broken.
LEMMA LinkLostInv ==
    ASSUME ExecutorInv, LinkLost
    PROVE  ExecutorInv'
  <1>1. DeviceTypes' /\ link'.gen = link.gen /\ ~Reached'
    <2>1. /\ link' \in [gen : Nat, up : BOOLEAN, alive : BOOLEAN]
          /\ link'.gen = link.gen /\ ~link'.alive
      BY DEF LinkLost, DeviceTypes
    <2>2. dev' \in [config : Configs, valid : BOOLEAN]
      <3>1. Default \in Configs
        BY ExecutorConstants
      <3>2. CASE dev' = dev \/ dev' = [dev EXCEPT !.valid = FALSE]
        BY <3>2 DEF DeviceTypes
      <3>3. CASE dev' = [config |-> Default, valid |-> TRUE]
        BY <3>1, <3>3
      <3>4. QED
        BY <3>2, <3>3 DEF LinkLost
    <2>3. QED
      BY <2>1, <2>2 DEF LinkLost, DeviceTypes, Reached
  <1>2. HistoryTypes'
    BY DEF LinkLost, HistoryTypes, histVars
  <1>3. SnapshotInv' /\ DeviceKnown' /\ ViewKnown'
    BY <1>1 DEF LinkLost, SnapshotInv, DeviceKnown, ViewKnown, hostVars
  <1>4. QED
    BY <1>1, <1>2, <1>3, Untouched DEF LinkLost, hostVars, histVars

\* A new session has a generation no snapshot was applied under.
LEMMA PublishInv ==
    ASSUME ExecutorInv, Publish
    PROVE  ExecutorInv'
  <1>1. DeviceTypes' /\ link'.gen = link.gen + 1 /\ client'.config = NoConfig
    BY DEF Publish, DeviceTypes, NoClient
  <1>2. SnapshotInv' /\ ViewKnown'
    BY <1>1
       DEF Publish, SnapshotInv, ViewKnown, hostVars, DeviceTypes, HostTypes, OpTypes, Operations
  <1>3. DeviceKnown'
    <2>1. egen # link'.gen /\ ex.pc # "readback"
      BY <1>1 DEF SnapshotInv, DeviceTypes, HostTypes, Publish, Locked
    <2>2. QED
      BY <1>1, <2>1 DEF DeviceKnown, Publish, hostVars
  <1>4. QED
    BY <1>1, <1>2, <1>3, Untouched DEF Publish, hostVars, histVars

\* What a lost call does to the session.
LEMMA Unpublished ==
    ASSUME DeviceTypes, Unreached, Unpublish, UNCHANGED dev
    PROVE  DeviceTypes' /\ link'.gen \in Nat /\ link'.gen >= link.gen /\ ~Reached'
  <1>1. client' \in [config : Configs \cup {NoConfig}, pending : BOOLEAN]
    BY DEF Unpublish, NoClient
  <1>2. CASE link.up
    <2>1. link' = [link EXCEPT !.gen = link.gen + 1, !.up = FALSE] /\ link.gen \in Nat
      BY <1>2 DEF DeviceTypes, Unpublish
    <2>2. link' = [gen |-> link.gen + 1, up |-> FALSE, alive |-> link.alive]
      BY <2>1 DEF DeviceTypes
    <2>3. link' \in [gen : Nat, up : BOOLEAN, alive : BOOLEAN]
      <3>1. link.alive \in BOOLEAN
        BY DEF DeviceTypes
      <3>2. link.gen + 1 \in Nat
        BY <2>1
      <3>3. QED
        BY <2>2, <3>1, <3>2, Zenon
    <2>4. link'.gen \in Nat /\ link'.gen >= link.gen /\ ~link'.up
      BY <2>1, <2>2
    <2>5. QED
      BY <1>1, <2>3, <2>4 DEF DeviceTypes, Reached
  <1>3. CASE ~link.up
    BY <1>1, <1>3 DEF DeviceTypes, Unpublish, Reached
  <1>4. QED
    BY <1>2, <1>3

-----------------------------------------------------------------------------
(* The lock is given back. *)

\* What the invariant says of the executor's own state while no call is out.
HostSound ==
    /\ HostTypes
    /\ snap.state = "APPLIED" => snap.req = applied
    /\ egen <= link.gen
Backed ==
    Reached /\ egen = link.gen /\ snap.state = "APPLIED" /\ dev.valid /\ ~raced
    => applied = dev.config

\* Outside the middle of a configuration both follow from the invariant.
LEMMA Sound ==
    ASSUME ExecutorInv
    PROVE  HostSound /\ (ex.pc \notin {"readback", "adopt"} => Backed)
  BY DEF HostSound, Backed, SnapshotInv, DeviceKnown

\* The record of a lock that nobody holds.
LEMMA NoOpType ==
    /\ NoOp \in Operations /\ NoOp.pc = "free" /\ NoOp.who = Worker
    /\ NoRequest \in Requests /\ NoRequest.kind = "VIEW" /\ NoRequest.pc = "idle"
    /\ NoRequest.change \in [field : {"swept", "rest"}, value : Values \cup {"NONE"}]
  BY DEF NoOp, Operations, Snapshots, Failures, NoRequest, Requests, Kinds, Worker

\* With the lock free, most parts speak of the executor's own state only.
LEMMA WhileFree ==
    ASSUME ex'.pc = "free", ex'.who = Worker, wk'.pc # "plan", HostSound', Backed'
    PROVE  SnapshotInv' /\ DeviceKnown' /\ ViewKnown' /\ FiledAsTaken' /\ PlanBase' /\ PlanSteps'
           /\ PlanRestores'
  BY DEF HostSound, Backed, SnapshotInv, DeviceKnown, ViewKnown, FiledAsTaken, PlanBase,
         PlanSteps, PlanRestores, ApplyPcs

\* A request that is answered asks for no change any more.
LEMMA Answered ==
    ASSUME RequestTypes, ChangesAsked, NEW t \in Threads, Answer(t)
    PROVE  /\ req' \in [Threads -> Requests] /\ ChangesAsked' /\ req'[t] = NoRequest
           /\ \A u \in Threads \ {t} : req'[u] = req[u]
  BY NoOpType DEF RequestTypes, ChangesAsked, Answer

\* A request that gives the lock back leaves everything else as it was.
LEMMA ReturnInv ==
    ASSUME ExecutorInv, ex.who # Worker, Return, DeviceTypes', ViewTypes', NoOldDiagnostics',
           HostSound', Backed', UNCHANGED <<hostVars, sess, choice, raced, asked, faults>>
    PROVE  ExecutorInv'
  <1>1. ex.who \in Threads /\ wk.pc # "plan"
    BY DEF OpTypes, Operations, LockHeld
  <1>2. ex' = NoOp /\ Answer(ex.who) /\ UNCHANGED <<wk, spoiled>>
    BY DEF Return
  <1>3. ex'.pc = "free" /\ ex'.who = Worker /\ OpTypes'
    BY <1>2, NoOpType DEF OpTypes
  <1>4. ChangesAsked' /\ req' \in [Threads -> Requests]
    BY <1>1, <1>2, Answered
  <1>5. RequestTypes'
    <2>1. activity' \in BOOLEAN
      BY DEF Return
    <2>2. QED
      BY <1>4, <2>1 DEF RequestTypes
  <1>6. SnapshotInv' /\ DeviceKnown' /\ ViewKnown' /\ FiledAsTaken' /\ PlanBase' /\ PlanSteps'
        /\ PlanRestores'
    BY <1>1, <1>2, <1>3, WhileFree
  <1>7. LockHeld' /\ ChoiceKept'
    BY <1>1, <1>2, <1>3 DEF LockHeld, ChoiceKept, Free, hostVars
  <1>8. QED
    BY <1>2, <1>3, <1>4, <1>5, <1>6, <1>7, Untouched DEF histVars, HistoryTypes

\* A plan that gives the lock back has filed all its frames or failed, and has
\* put the operator's values back or says that it could not.
LEMMA LeaveInv ==
    ASSUME ExecutorInv, wk.pc = "plan", NEW fail \in Failures, NEW spoils \in BOOLEAN,
           Leave(fail, spoils), fail = "NONE" => Len(sess.frames) = Total,
           spoils \/ spoiled \/ snap'.req = choice,
           DeviceTypes', HostSound', Backed', raced' \in BOOLEAN,
           UNCHANGED <<view, sess, choice, asked, faults>>
    PROVE  ExecutorInv'
  <1>1. /\ ex' = NoOp /\ wk' = [pc |-> "finish", fail |-> fail]
        /\ spoiled' = (spoiled \/ spoils) /\ UNCHANGED <<req, activity>>
    BY DEF Leave
  <1>2. ex'.pc = "free" /\ ex'.who = Worker /\ OpTypes'
    BY <1>1, NoOpType DEF OpTypes
  <1>3. wk' \in [pc : {"none", "start", "plan", "finish"}, fail : Failures] /\ wk'.pc = "finish"
        /\ wk'.fail = fail
    BY <1>1
  <1>4. SweepTypes' /\ WorkerInv'
    BY <1>3 DEF SweepTypes, WorkerInv
  <1>5. HistoryTypes'
    <2>1. spoiled' \in BOOLEAN
      BY <1>1
    <2>2. QED
      BY <2>1 DEF HistoryTypes
  <1>6. SnapshotInv' /\ DeviceKnown' /\ ViewKnown' /\ FiledAsTaken' /\ PlanBase' /\ PlanSteps'
        /\ PlanRestores'
    BY <1>2, <1>3, WhileFree
  <1>7. LockHeld'
    BY <1>2, <1>3 DEF LockHeld, Free
  <1>8. ChoiceKept'
    BY <1>1 DEF ChoiceKept
  <1>9. QED
    BY <1>1, <1>2, <1>4, <1>5, <1>6, <1>7, <1>8, Untouched DEF HostSound

OpPcs == {"free", "apply", "set", "readback", "adopt", "burst", "file", "confirm", "step",
          "restore", "status", "caps"}

\* A call raises: the request ends, the plan goes to its finally clause, or the
\* finally clause ends with the values of the operator not put back.
LEMMA RaiseInv ==
    ASSUME ExecutorInv, ~Free, NEW f \in {"RUNTIME", "OTHER"}, Raise(f), DeviceTypes', HostSound',
           Backed', link'.gen >= link.gen,
           UNCHANGED <<hostVars, view, sess, choice, raced, asked, faults>>
    PROVE  ExecutorInv'
  <1>1. CASE ex.who # Worker
    <2>1. Return
      BY <1>1 DEF Raise
    <2>2. QED
      BY <1>1, <2>1, ReturnInv, Untouched
  <1>2. CASE ex.who = Worker /\ ex.restoring
    <2>1. Leave(f, TRUE) /\ wk.pc = "plan" /\ f \in Failures /\ raced' \in BOOLEAN
      BY <1>2 DEF Raise, LockHeld, Failures, HistoryTypes
    <2>2. QED
      BY <2>1, LeaveInv
  <1>3. CASE ex.who = Worker /\ ~ex.restoring
    <2>1. ex' = [ex EXCEPT !.pc = "restore", !.fail = f] /\ UNCHANGED <<wk, spoiled, req, activity>>
      BY <1>3 DEF Raise
    <2>2. OpTypes'
      BY <2>1 DEF OpTypes, Operations, Failures
    <2>3. /\ ex'.pc = "restore" /\ ex'.fail = f /\ ex'.who = Worker /\ ~ex'.restoring
          /\ ex'.base = ex.base
      BY <1>3, <2>1 DEF OpTypes, Operations
    <2>4. LockHeld' /\ ChoiceKept' /\ wk.pc = "plan"
      BY <1>3, <2>1, <2>3 DEF LockHeld, ChoiceKept, Free, ActiveSweep
    <2>5. PlanBase' /\ PlanSteps' /\ PlanRestores'
      BY <2>1, <2>3, <2>4 DEF PlanBase, PlanSteps, PlanRestores, hostVars
    <2>6. SnapshotInv' /\ DeviceKnown' /\ ViewKnown' /\ FiledAsTaken'
      BY <2>3 DEF HostSound, Backed, SnapshotInv, DeviceKnown, ViewKnown, FiledAsTaken, ApplyPcs
    <2>7. QED
      BY <2>1, <2>2, <2>4, <2>5, <2>6, Untouched DEF histVars
  <1>4. QED
    BY <1>1, <1>2, <1>3

\* The same when nothing else changes.
LEMMA RaisesInPlace ==
    ASSUME ExecutorInv, ~Free, ex.pc \notin {"readback", "adopt"}, NEW f \in {"RUNTIME", "OTHER"},
           Raise(f),
           UNCHANGED <<dev, link, client, hostVars, view, sess, choice, raced, asked, faults>>
    PROVE  ExecutorInv'
  <1>1. HostSound /\ Backed
    BY Sound
  <1>2. HostSound' /\ Backed'
    BY <1>1 DEF HostSound, Backed, HostTypes, hostVars, Reached
  <1>3. DeviceTypes' /\ link'.gen >= link.gen
    BY Untouched DEF DeviceTypes
  <1>4. QED
    BY <1>2, <1>3, RaiseInv

\* An operation that only moves on keeps the rest of its record.
LEMMA Moved ==
    ASSUME OpTypes, NEW pc \in OpPcs, ex' = [ex EXCEPT !.pc = pc]
    PROVE  /\ OpTypes' /\ ex'.pc = pc
           /\ ex'.who = ex.who /\ ex'.target = ex.target /\ ex'.took = ex.took
           /\ ex'.filing = ex.filing /\ ex'.base = ex.base /\ ex'.k = ex.k
           /\ ex'.restoring = ex.restoring /\ ex'.fail = ex.fail
           /\ ex'.gen = ex.gen /\ ex'.diag = ex.diag
  BY DEF OpTypes, Operations, OpPcs

\* From one point of a configuration to the next.
LEMMA WithinApply ==
    ASSUME ExecutorInv, ex.pc \in ApplyPcs, NEW pc \in ApplyPcs, At(pc), DeviceTypes', DeviceKnown',
           UNCHANGED <<link, hostVars, view, sess, choice, raced, asked, faults>>
    PROVE  ExecutorInv'
  <1>1. ex' = [ex EXCEPT !.pc = pc] /\ pc \in OpPcs /\ UNCHANGED <<wk, spoiled, req, activity>>
    BY DEF At, OpPcs, ApplyPcs
  <1>2. /\ OpTypes' /\ ex'.pc = pc
        /\ ex'.who = ex.who /\ ex'.target = ex.target /\ ex'.base = ex.base /\ ex'.k = ex.k
        /\ ex'.restoring = ex.restoring /\ ex'.fail = ex.fail
    BY <1>1, Moved
  <1>3. LockHeld' /\ ChoiceKept' /\ FiledAsTaken' /\ ViewKnown'
    BY <1>1, <1>2 DEF LockHeld, ChoiceKept, FiledAsTaken, ViewKnown, Free, ApplyPcs, hostVars
  <1>4. SnapshotInv'
    BY <1>1, <1>2 DEF SnapshotInv, ApplyPcs, hostVars
  <1>5. PlanBase' /\ PlanSteps' /\ PlanRestores'
    BY <1>1, <1>2 DEF PlanBase, PlanSteps, PlanRestores, ApplyPcs, hostVars
  <1>6. QED
    BY <1>1, <1>2, <1>3, <1>4, <1>5, Untouched DEF histVars

-----------------------------------------------------------------------------
(* A configuration on its way to the device. *)

\* The client learns what the device has.
LEMMA ReadConfigInv ==
    ASSUME ExecutorInv, ReadConfig
    PROVE  ExecutorInv'
  <1>1. ex.pc = "apply" /\ ~Free
    BY DEF ReadConfig, Free
  <1>2. CASE dev.valid
    <2>1. client' = [client EXCEPT !.config = dev.config] /\ At("set")
      BY <1>2 DEF ReadConfig
    <2>2. DeviceTypes'
      BY <2>1 DEF ReadConfig, DeviceTypes
    <2>3. ex'.pc = "set"
      BY <2>1, Moved DEF At, OpPcs
    <2>4. DeviceKnown'
      BY <1>1, <2>3 DEF DeviceKnown, ReadConfig, hostVars, Reached
    <2>5. QED
      BY <1>1, <2>1, <2>2, <2>4, WithinApply DEF ReadConfig, ApplyPcs
  <1>3. CASE ~dev.valid
    BY <1>1, <1>3, RaisesInPlace DEF ReadConfig
  <1>4. QED
    BY <1>2, <1>3

\* The device takes the target, fails on it, or refuses it; only the first goes on.
LEMMA SetConfigInv ==
    ASSUME ExecutorInv, SetConfig
    PROVE  ExecutorInv'
  <1>1. ex.pc \in {"apply", "set"} /\ ~Free /\ ex.target \in Configs
    BY DEF SetConfig, Free, SnapshotInv, ApplyPcs
  <1>2. CASE dev' = [config |-> ex.target, valid |-> TRUE] /\ At("readback")
    <2>1. DeviceTypes' /\ dev'.config = ex.target
      BY <1>1, <1>2 DEF SetConfig, DeviceTypes
    <2>2. ex'.pc = "readback" /\ ex'.target = ex.target
      BY <1>2, Moved DEF At, OpPcs
    <2>3. DeviceKnown'
      BY <2>1, <2>2 DEF DeviceKnown
    <2>4. QED
      BY <1>1, <1>2, <2>1, <2>3, WithinApply DEF SetConfig, ApplyPcs
  <1>3. CASE dev' = [dev EXCEPT !.valid = FALSE] /\ Raise("RUNTIME")
    <2>1. DeviceTypes' /\ ~dev'.valid /\ link'.gen >= link.gen
      <3>1. dev' \in [config : Configs, valid : BOOLEAN] /\ ~dev'.valid
        BY <1>3 DEF DeviceTypes
      <3>2. UNCHANGED <<link, client>> /\ link.gen \in Nat
        BY DEF SetConfig, DeviceTypes
      <3>3. QED
        BY <3>1, <3>2 DEF DeviceTypes
    <2>2. HostSound' /\ Backed'
      <3>1. HostSound
        BY Sound
      <3>2. QED
        BY <2>1, <3>1 DEF SetConfig, HostSound, Backed, HostTypes, hostVars
    <2>3. QED
      BY <1>1, <1>3, <2>1, <2>2, RaiseInv DEF SetConfig
  <1>4. CASE UNCHANGED dev /\ Raise("RUNTIME")
    BY <1>1, <1>4, RaisesInPlace DEF SetConfig
  <1>5. QED
    BY <1>2, <1>3, <1>4 DEF SetConfig

\* The readback finds the target.
LEMMA ReadbackInv ==
    ASSUME ExecutorInv, Readback
    PROVE  ExecutorInv'
  <1>1. ex.pc = "readback" /\ At("adopt")
    BY DEF Readback
  <1>2. DeviceTypes'
    BY DEF Readback, DeviceTypes
  <1>3. ex'.pc = "adopt" /\ ex'.target = ex.target
    BY <1>1, Moved DEF At, OpPcs
  <1>4. DeviceKnown'
    BY <1>1, <1>3 DEF DeviceKnown, Readback
  <1>5. QED
    BY <1>1, <1>2, <1>4, WithinApply DEF Readback, ApplyPcs

\* What Adopt writes is sound whatever happened to the session since.
LEMMA Adopted ==
    ASSUME ExecutorInv, Adopt
    PROVE  /\ HostSound' /\ Backed' /\ raced' \in BOOLEAN
           /\ snap'.req = ex.target /\ snap'.state = "APPLIED" /\ ex.target \in Configs
  <1>1. ex.target \in Configs /\ ex.pc = "adopt"
    BY DEF Adopt, SnapshotInv, ApplyPcs
  <1>2. /\ applied' = ex.target /\ snap' = [state |-> "APPLIED", req |-> ex.target]
        /\ egen' = link.gen /\ UNCHANGED <<dev, link, client>>
        /\ raced' = (client.config = NoConfig)
    BY DEF Adopt
  <1>3. HostSound'
    BY <1>1, <1>2 DEF HostSound, HostTypes, DeviceTypes
  <1>4. Backed'
    BY <1>1, <1>2 DEF Backed, DeviceKnown, Reached
  <1>5. QED
    BY <1>1, <1>2, <1>3, <1>4

\* _apply_validated adopts the target: the end of a request, the end of a finally
\* clause, or a step of the plan.
LEMMA AdoptInv ==
    ASSUME ExecutorInv, Adopt
    PROVE  ExecutorInv'
  <1>1. /\ HostSound' /\ Backed' /\ raced' \in BOOLEAN
        /\ snap'.req = ex.target /\ snap'.state = "APPLIED" /\ ex.target \in Configs
    BY Adopted
  <1>2. ex.pc = "adopt" /\ ~Free /\ UNCHANGED <<dev, link, client, view, sess, asked, faults>>
    BY DEF Adopt, Free
  <1>3. DeviceTypes'
    BY <1>2, Untouched
  <1>4. CASE ex.who # Worker
    <2>1. /\ choice' = ex.target /\ spoiled' = FALSE
          /\ ex' = NoOp /\ Answer(ex.who) /\ activity' = FALSE /\ UNCHANGED wk
      BY <1>4 DEF Adopt, Applied
    <2>2. ex'.pc = "free" /\ ex'.who = Worker /\ OpTypes'
      BY <2>1, NoOpType DEF OpTypes
    <2>3. ex.who \in Threads /\ wk.pc # "plan"
      BY <1>4 DEF OpTypes, Operations, LockHeld
    <2>4. ChangesAsked' /\ RequestTypes'
      BY <2>1, <2>3, Answered DEF RequestTypes
    <2>5. HistoryTypes'
      BY <1>1, <1>2, <2>1 DEF HistoryTypes
    <2>6. SnapshotInv' /\ DeviceKnown' /\ ViewKnown' /\ FiledAsTaken' /\ PlanBase' /\ PlanSteps'
          /\ PlanRestores'
      BY <1>1, <2>1, <2>2, <2>3, WhileFree
    <2>7. LockHeld' /\ ChoiceKept'
      BY <1>1, <1>2, <2>1, <2>2, <2>3 DEF LockHeld, ChoiceKept, Free
    <2>8. QED
      BY <1>1, <1>2, <1>3, <2>1, <2>2, <2>4, <2>5, <2>6, <2>7, Untouched DEF HostSound
  <1>5. CASE ex.who = Worker /\ ex.restoring
    <2>1. Leave(ex.fail, FALSE) /\ UNCHANGED choice /\ wk.pc = "plan"
      BY <1>2, <1>5 DEF Adopt, Applied, LockHeld
    <2>2. /\ ex.fail \in Failures /\ (ex.fail = "NONE" => Len(sess.frames) = Total)
          /\ (spoiled \/ snap'.req = choice)
      BY <1>1, <1>2, <1>5, <2>1 DEF OpTypes, Operations, PlanRestores, PlanBase
    <2>3. QED
      BY <1>1, <1>2, <1>3, <2>1, <2>2, LeaveInv
  <1>6. CASE ex.who = Worker /\ ~ex.restoring
    <2>1. At("burst") /\ UNCHANGED choice /\ wk.pc = "plan"
      BY <1>2, <1>6 DEF Adopt, Applied, LockHeld
    <2>2. ex' = [ex EXCEPT !.pc = "burst"] /\ UNCHANGED <<wk, spoiled, req, activity>>
      BY <2>1 DEF At
    <2>3. /\ OpTypes' /\ ex'.pc = "burst"
          /\ ex'.who = ex.who /\ ex'.target = ex.target /\ ex'.base = ex.base /\ ex'.k = ex.k
          /\ ex'.restoring = ex.restoring /\ ex'.fail = ex.fail
      BY <2>2, Moved DEF OpPcs
    <2>4. LockHeld' /\ ChoiceKept' /\ FiledAsTaken' /\ ViewKnown'
      BY <1>2, <1>6, <2>1, <2>2, <2>3 DEF LockHeld, ChoiceKept, FiledAsTaken, ViewKnown, Free
    <2>5. SnapshotInv' /\ DeviceKnown'
      BY <1>1, <1>6, <2>3 DEF SnapshotInv, DeviceKnown, HostSound, Backed, ApplyPcs
    <2>6. PlanBase' /\ PlanSteps' /\ PlanRestores'
      BY <1>1, <1>2, <1>6, <2>1, <2>2, <2>3 DEF PlanBase, PlanSteps, PlanRestores, ApplyPcs
    <2>7. HistoryTypes'
      BY <1>1, <1>2, <2>1, <2>2 DEF HistoryTypes
    <2>8. QED
      BY <1>1, <1>2, <1>3, <2>2, <2>3, <2>4, <2>5, <2>6, <2>7, Untouched DEF HostSound
  <1>7. QED
    BY <1>4, <1>5, <1>6

-----------------------------------------------------------------------------
(* A capture, and a call that is lost. *)

\* The frame goes with the snapshot of the moment of its burst.
LEMMA BurstInv ==
    ASSUME ExecutorInv, Burst
    PROVE  ExecutorInv'
  <1>1. ex.pc = "burst" /\ ~Free
    BY DEF Burst, Free
  <1>2. CASE Raise("RUNTIME") /\ UNCHANGED client
    BY <1>1, <1>2, RaisesInPlace DEF Burst
  <1>3. CASE /\ dev.valid /\ dev.config = ex.target
             /\ ex' = [ex EXCEPT !.pc = "file", !.took = dev.config, !.filing = snap]
             /\ client' = [client EXCEPT !.pending = TRUE]
             /\ UNCHANGED <<wk, spoiled, req, activity>>
    <2>1. DeviceTypes' /\ client'.config = client.config
      BY <1>3 DEF Burst, DeviceTypes
    <2>2. snap \in Snapshots /\ dev.config \in Configs
      BY DEF HostTypes, DeviceTypes, Snapshots
    <2>3. OpTypes'
      BY <1>3, <2>2 DEF OpTypes, Operations
    <2>4. /\ ex'.pc = "file" /\ ex'.took = ex.target /\ ex'.filing = snap /\ ex'.who = ex.who
          /\ ex'.target = ex.target /\ ex'.base = ex.base /\ ex'.k = ex.k
          /\ ex'.restoring = ex.restoring /\ ex'.fail = ex.fail
      BY <1>3 DEF OpTypes, Operations
    <2>5. snap = [state |-> "APPLIED", req |-> ex.target]
      BY <1>1 DEF SnapshotInv, HostTypes
    <2>6. FiledAsTaken'
      BY <1>1, <1>3, <2>4, <2>5 DEF FiledAsTaken, SnapshotInv
    <2>7. LockHeld' /\ ChoiceKept' /\ ViewKnown'
      BY <1>1, <1>3, <2>4 DEF Burst, LockHeld, ChoiceKept, ViewKnown, Free, hostVars
    <2>8. SnapshotInv' /\ DeviceKnown'
      BY <1>1, <2>4 DEF Burst, SnapshotInv, DeviceKnown, ApplyPcs, hostVars, Reached
    <2>9. PlanBase' /\ PlanSteps' /\ PlanRestores'
      BY <1>1, <1>3, <2>4 DEF Burst, PlanBase, PlanSteps, PlanRestores, ApplyPcs, hostVars
    <2>10. QED
      BY <1>3, <2>1, <2>3, <2>6, <2>7, <2>8, <2>9, Untouched DEF Burst, histVars
  <1>4. QED
    BY <1>2, <1>3 DEF Burst

\* The frame of a plan is that of its step.
LEMMA FileInv ==
    ASSUME ExecutorInv, File
    PROVE  ExecutorInv'
  <1>1. ex.pc = "file" /\ At("confirm")
        /\ UNCHANGED <<dev, link, client, hostVars, view, choice, raced, asked, faults>>
    BY DEF File
  <1>2. ex' = [ex EXCEPT !.pc = "confirm"] /\ UNCHANGED <<wk, spoiled, req, activity>>
    BY <1>1 DEF At
  <1>3. /\ OpTypes' /\ ex'.pc = "confirm"
        /\ ex'.who = ex.who /\ ex'.target = ex.target /\ ex'.took = ex.took
        /\ ex'.filing = ex.filing /\ ex'.base = ex.base /\ ex'.k = ex.k
        /\ ex'.restoring = ex.restoring /\ ex'.fail = ex.fail
    BY <1>2, Moved DEF OpPcs
  <1>4. FiledAsTaken' /\ SnapshotInv' /\ DeviceKnown' /\ ViewKnown' /\ ChoiceKept'
    BY <1>1, <1>2, <1>3 DEF FiledAsTaken, SnapshotInv, DeviceKnown, ViewKnown, ChoiceKept, ApplyPcs,
                            hostVars, Reached, Free
  <1>5. CASE ex.who # Worker
    <2>1. UNCHANGED sess /\ wk.pc # "plan"
      BY <1>5 DEF File, LockHeld
    <2>2. LockHeld' /\ PlanBase' /\ PlanSteps' /\ PlanRestores'
      BY <1>1, <1>2, <1>3, <1>5, <2>1 DEF LockHeld, PlanBase, PlanSteps, PlanRestores, Free
    <2>3. QED
      BY <1>1, <1>2, <1>3, <1>4, <2>1, <2>2, Untouched DEF histVars
  <1>6. CASE ex.who = Worker
    <2>1. wk.pc = "plan" /\ ~ex.restoring
      BY <1>1, <1>6 DEF LockHeld, Free, PlanRestores, ApplyPcs
    <2>2. /\ ex.fail = "NONE" /\ ex.k < Total /\ Len(sess.frames) = ex.k /\ ex.base = sess.base
          /\ ex.filing.req = StepOf(ex.base, ex.k) /\ ex.base \in Configs /\ ex.k \in Nat
      BY <1>1, <2>1 DEF PlanSteps, PlanBase, FiledAsTaken, OpTypes, Operations
    <2>3. ex.filing.req \in Configs
      BY <2>2, StepType
    <2>4. sess' = [sess EXCEPT !.frames = Append(sess.frames, ex.filing.req)]
      BY <1>6 DEF File
    <2>5. sess.frames \in Seq(Configs)
      BY DEF SweepTypes
    <2>6. /\ sess'.frames = Append(sess.frames, ex.filing.req) /\ sess'.base = sess.base
          /\ sess'.state = sess.state
      BY <2>4 DEF SweepTypes
    <2>7. SweepTypes'
      <3>1. Append(sess.frames, ex.filing.req) \in Seq(Configs)
        BY <2>3, <2>5
      <3>2. QED
        BY <1>2, <2>4, <3>1 DEF SweepTypes
    <2>8. Len(sess'.frames) = ex.k + 1
      BY <2>2, <2>5, <2>6
    <2>9. SweepIsWhole'
      <3>1. sess.state # "COMPLETED"
        BY <2>1 DEF LockHeld, ActiveSweep
      <3>2. ASSUME NEW i \in 1 .. Len(sess'.frames)
            PROVE  i <= Total /\ sess'.frames[i] = StepOf(sess'.base, i - 1)
        <4>1. Total \in Nat
          BY ExecutorConstants DEF Total
        <4>2. CASE i = ex.k + 1
          BY <2>2, <2>5, <2>6, <4>1, <4>2
        <4>3. CASE i # ex.k + 1
          <5>1. i \in 1 .. Len(sess.frames) /\ sess'.frames[i] = sess.frames[i]
            BY <2>2, <2>5, <2>6, <2>8, <4>3
          <5>2. QED
            BY <2>6, <5>1 DEF SweepIsWhole
        <4>4. QED
          BY <4>2, <4>3
      <3>3. QED
        BY <2>6, <3>1, <3>2 DEF SweepIsWhole
    <2>10. LockHeld' /\ WorkerInv'
      BY <1>1, <1>2, <1>3, <1>6, <2>1, <2>6 DEF LockHeld, WorkerInv, Free
    <2>11. PlanBase' /\ PlanSteps' /\ PlanRestores'
      BY <1>1, <1>2, <1>3, <1>6, <2>1, <2>2, <2>6, <2>8
         DEF PlanBase, PlanSteps, PlanRestores, ApplyPcs, hostVars
    <2>12. QED
      BY <1>1, <1>2, <1>3, <1>4, <2>7, <2>9, <2>10, <2>11, Untouched DEF histVars
  <1>7. QED
    BY <1>5, <1>6

\* A committed capture is confirmed: the request ends, the plan counts its step.
LEMMA ConfirmInv ==
    ASSUME ExecutorInv, Confirm
    PROVE  ExecutorInv'
  <1>1. ex.pc = "confirm" /\ ~Free
        /\ UNCHANGED <<dev, link, hostVars, view, sess, choice, raced, asked, faults>>
    BY DEF Confirm, Free
  <1>2. CASE Raise("RUNTIME") /\ UNCHANGED client
    BY <1>1, <1>2, RaisesInPlace
  <1>3. CASE client' = [client EXCEPT !.pending = FALSE] /\ ~(Raise("RUNTIME") /\ UNCHANGED client)
    <2>1. DeviceTypes' /\ client'.config = client.config
      BY <1>1, <1>3 DEF DeviceTypes
    <2>2. HostSound' /\ Backed'
      <3>1. HostSound /\ Backed
        BY <1>1, Sound
      <3>2. QED
        BY <1>1, <3>1 DEF HostSound, Backed, HostTypes, hostVars, Reached
    <2>3. CASE ex.who # Worker
      BY <1>1, <1>3, <2>1, <2>2, <2>3, ReturnInv, Untouched DEF Confirm
    <2>4. CASE ex.who = Worker
      <3>1. /\ ex' = [ex EXCEPT !.pc = "step", !.k = ex.k + 1]
            /\ UNCHANGED <<wk, spoiled, req, activity>>
        BY <1>3, <2>4 DEF Confirm
      <3>2. ex.k \in Nat
        BY DEF OpTypes, Operations
      <3>3. OpTypes'
        <4>1. PICK n \in Nat : n = ex.k + 1
          BY <3>2
        <4>2. ex' = [ex EXCEPT !.pc = "step", !.k = n]
          BY <3>1, <4>1
        <4>3. QED
          BY <4>2 DEF OpTypes, Operations
      <3>4. /\ ex'.pc = "step" /\ ex'.k = ex.k + 1 /\ ex'.who = ex.who
            /\ ex'.base = ex.base /\ ex'.restoring = ex.restoring /\ ex'.fail = ex.fail
        BY <3>1 DEF OpTypes, Operations
      <3>5. wk.pc = "plan" /\ ~ex.restoring
        BY <1>1, <2>4 DEF LockHeld, PlanRestores, ApplyPcs
      <3>6. Total \in Nat
        BY ExecutorConstants DEF Total
      <3>7. LockHeld' /\ ChoiceKept' /\ FiledAsTaken' /\ ViewKnown'
        BY <1>1, <2>4, <3>1, <3>4, <3>5 DEF LockHeld, ChoiceKept, FiledAsTaken, ViewKnown, Free
      <3>8. SnapshotInv' /\ DeviceKnown'
        BY <2>2, <3>4 DEF SnapshotInv, DeviceKnown, HostSound, Backed, ApplyPcs
      <3>9. PlanBase' /\ PlanSteps' /\ PlanRestores'
        BY <1>1, <2>4, <3>1, <3>2, <3>4, <3>5, <3>6
           DEF PlanBase, PlanSteps, PlanRestores, ApplyPcs, hostVars
      <3>10. QED
        BY <1>1, <2>1, <3>1, <3>3, <3>7, <3>8, <3>9, Untouched DEF histVars
    <2>5. QED
      BY <2>3, <2>4
  <1>4. QED
    BY <1>2, <1>3 DEF Confirm

\* A delivery whose client is gone cannot be filed.
LEMMA FileLostInv ==
    ASSUME ExecutorInv, FileLost
    PROVE  ExecutorInv'
  <1>1. ex.pc = "file" /\ ~Free
        /\ UNCHANGED <<dev, link, client, hostVars, view, sess, choice, raced, asked, faults>>
    BY DEF FileLost, Free
  <1>2. \E f \in {"RUNTIME", "OTHER"} : Raise(f)
    BY DEF FileLost
  <1>3. QED
    BY <1>1, <1>2, RaisesInPlace

\* A lost call leaves no session behind that could contradict the executor.
LEMMA CallLostInv ==
    ASSUME ExecutorInv, CallLost
    PROVE  ExecutorInv'
  <1>1. ~Free /\ Unreached /\ Unpublish /\ Raise("RUNTIME")
        /\ UNCHANGED <<dev, hostVars, view, sess, choice, raced, asked, faults>>
    BY DEF CallLost, Free
  <1>2. DeviceTypes' /\ link'.gen \in Nat /\ link'.gen >= link.gen /\ ~Reached'
    BY <1>1, Unpublished
  <1>3. HostSound'
    <2>1. HostSound /\ link.gen \in Nat
      BY Sound DEF DeviceTypes
    <2>2. QED
      BY <1>1, <1>2, <2>1 DEF HostSound, HostTypes, hostVars
  <1>4. QED
    BY <1>1, <1>2, <1>3, RaiseInv DEF Backed

-----------------------------------------------------------------------------
(* A device view. *)

\* The status is read on the session of the view, or on a later one.
LEMMA StatusInv ==
    ASSUME ExecutorInv, Status
    PROVE  ExecutorInv'
  <1>1. ex.pc = "status" /\ ex' = [ex EXCEPT !.pc = "caps", !.diag = link.gen]
        /\ UNCHANGED <<dev, link, client, hostVars, view, req, activity, sess, wk, histVars, asked,
                       faults>>
    BY DEF Status
  <1>2. link.gen \in Nat
    BY DEF DeviceTypes
  <1>3. OpTypes'
    BY <1>1, <1>2 DEF OpTypes, Operations
  <1>4. /\ ex'.pc = "caps" /\ ex'.diag = link.gen /\ ex'.gen = ex.gen /\ ex'.who = ex.who
        /\ ex'.restoring = ex.restoring
    BY <1>1 DEF OpTypes, Operations
  <1>5. LockHeld' /\ wk.pc # "plan" /\ ex.who # Worker
    BY <1>1, <1>4 DEF LockHeld, Free
  <1>6. SnapshotInv' /\ DeviceKnown' /\ ViewKnown' /\ ChoiceKept' /\ FiledAsTaken'
    BY <1>1, <1>2, <1>4, <1>5 DEF SnapshotInv, DeviceKnown, ViewKnown, ChoiceKept, FiledAsTaken,
                                 ApplyPcs, hostVars, histVars, Reached, Free
  <1>7. PlanBase' /\ PlanSteps' /\ PlanRestores'
    BY <1>1, <1>4, <1>5 DEF PlanBase, PlanSteps, PlanRestores
  <1>8. QED
    BY <1>1, <1>3, <1>5, <1>6, <1>7, Untouched DEF histVars

\* A view whose session is gone carries no status.
LEMMA StatusLostInv ==
    ASSUME ExecutorInv, StatusLost
    PROVE  ExecutorInv'
  <1>1. /\ ex.pc = "status" /\ Unreached /\ Unpublish /\ Return
        /\ view' = [gen |-> link'.gen, diag |-> 0]
        /\ UNCHANGED <<dev, hostVars, sess, choice, raced, asked, faults>>
    BY DEF StatusLost
  <1>2. DeviceTypes' /\ link'.gen \in Nat /\ link'.gen >= link.gen /\ ~Reached'
    BY <1>1, Unpublished
  <1>3. HostSound' /\ Backed'
    <2>1. HostSound /\ link.gen \in Nat
      BY Sound DEF DeviceTypes
    <2>2. QED
      BY <1>1, <1>2, <2>1 DEF HostSound, HostTypes, hostVars, Backed
  <1>4. ViewTypes' /\ NoOldDiagnostics'
    BY <1>1, <1>2 DEF ViewTypes, NoOldDiagnostics
  <1>5. ex.who # Worker
    BY <1>1 DEF LockHeld
  <1>6. QED
    BY <1>1, <1>2, <1>3, <1>4, <1>5, ReturnInv

\* The view names the session it began on, never a later one than its status.
LEMMA CapsInv ==
    ASSUME ExecutorInv, Caps
    PROVE  ExecutorInv'
  <1>1. /\ ex.pc = "caps" /\ Return
        /\ view' = IF link.up THEN [gen |-> ex.gen, diag |-> ex.diag]
                   ELSE [gen |-> link.gen, diag |-> 0]
        /\ UNCHANGED <<dev, link, client, hostVars, sess, choice, raced, asked, faults>>
    BY DEF Caps
  <1>2. ViewTypes' /\ NoOldDiagnostics'
    <2>1. ex.gen \in Nat /\ ex.diag \in Nat /\ link.gen \in Nat /\ ex.diag >= ex.gen
      BY <1>1 DEF OpTypes, Operations, DeviceTypes, ViewKnown
    <2>2. QED
      BY <1>1, <2>1 DEF ViewTypes, NoOldDiagnostics
  <1>3. HostSound' /\ Backed'
    <2>1. HostSound /\ Backed
      BY <1>1, Sound
    <2>2. QED
      BY <1>1, <2>1 DEF HostSound, Backed, HostTypes, hostVars, Reached
  <1>4. ex.who # Worker /\ DeviceTypes'
    BY <1>1, Untouched DEF LockHeld
  <1>5. QED
    BY <1>1, <1>2, <1>3, <1>4, ReturnInv

-----------------------------------------------------------------------------
(* The sweep. *)

\* Past the last step, or stopped before it.
LEMMA PlanEndInv ==
    ASSUME ExecutorInv, PlanEnd
    PROVE  ExecutorInv'
  <1>1. ex.pc = "step" /\ ~Free
        /\ UNCHANGED <<dev, link, client, hostVars, view, sess, choice, raced, asked, faults>>
    BY DEF PlanEnd, Free
  <1>2. CASE Raise("RUNTIME")
    BY <1>1, <1>2, RaisesInPlace
  <1>3. CASE ex.k = Total /\ At("restore")
    <2>1. ex' = [ex EXCEPT !.pc = "restore"] /\ UNCHANGED <<wk, spoiled, req, activity>>
      BY <1>3 DEF At
    <2>2. /\ OpTypes' /\ ex'.pc = "restore"
          /\ ex'.who = ex.who /\ ex'.base = ex.base /\ ex'.k = ex.k
          /\ ex'.restoring = ex.restoring /\ ex'.fail = ex.fail
      BY <2>1, Moved DEF OpPcs
    <2>3. ex.who = Worker /\ wk.pc = "plan" /\ ~ex.restoring
      BY <1>1 DEF LockHeld, PlanRestores, ApplyPcs
    <2>4. LockHeld' /\ ChoiceKept' /\ FiledAsTaken' /\ ViewKnown'
      BY <1>1, <2>1, <2>2, <2>3 DEF LockHeld, ChoiceKept, FiledAsTaken, ViewKnown, Free
    <2>5. SnapshotInv' /\ DeviceKnown'
      BY <1>1, <2>1, <2>2 DEF SnapshotInv, DeviceKnown, ApplyPcs, hostVars, Reached
    <2>6. PlanBase' /\ PlanSteps' /\ PlanRestores'
      BY <1>1, <1>3, <2>1, <2>2, <2>3 DEF PlanBase, PlanSteps, PlanRestores, ApplyPcs, hostVars
    <2>7. QED
      BY <1>1, <2>1, <2>2, <2>4, <2>5, <2>6, Untouched DEF histVars
  <1>4. QED
    BY <1>2, <1>3 DEF PlanEnd

\* The next step takes its configuration from the baseline.
LEMMA PlanStepInv ==
    ASSUME ExecutorInv, PlanStep
    PROVE  ExecutorInv'
  <1> DEFINE target == StepOf(ex.base, ex.k)
             pc == IF applied = target THEN "burst" ELSE "apply"
  <1>1. /\ ex.pc = "step" /\ ex.k < Total /\ ~Free
        /\ ex' = [ex EXCEPT !.target = target, !.pc = pc]
        /\ UNCHANGED <<dev, link, client, hostVars, view, req, activity, sess, wk, histVars, asked,
                       faults>>
    BY DEF PlanStep, Free
  <1>2. ex.who = Worker /\ wk.pc = "plan" /\ ~ex.restoring /\ ex.base \in Configs /\ ex.k \in Nat
    BY <1>1 DEF LockHeld, PlanRestores, ApplyPcs, PlanBase, OpTypes, Operations
  <1>3. target \in Configs /\ pc \in {"burst", "apply"} /\ (pc = "burst" => applied = target)
    BY <1>1, <1>2, StepType
  <1>4. target = StepOf(ex.base, ex.k)
    OBVIOUS
  <1> HIDE DEF target, pc
  <1>5. OpTypes'
    BY <1>1, <1>3 DEF OpTypes, Operations
  <1>6. /\ ex'.pc = pc /\ ex'.target = target /\ ex'.who = ex.who /\ ex'.base = ex.base
        /\ ex'.k = ex.k /\ ex'.restoring = ex.restoring /\ ex'.fail = ex.fail
    BY <1>1 DEF OpTypes, Operations
  <1>7. LockHeld' /\ ChoiceKept' /\ FiledAsTaken' /\ ViewKnown'
    BY <1>1, <1>2, <1>3, <1>6 DEF LockHeld, ChoiceKept, FiledAsTaken, ViewKnown, Free
  <1>8. SnapshotInv' /\ DeviceKnown'
    BY <1>1, <1>2, <1>3, <1>6
       DEF SnapshotInv, DeviceKnown, ApplyPcs, hostVars, histVars, Reached, PlanBase
  <1>9. PlanBase' /\ PlanSteps' /\ PlanRestores'
    BY <1>1, <1>2, <1>3, <1>4, <1>6
       DEF PlanBase, PlanSteps, PlanRestores, ApplyPcs, hostVars, histVars
  <1>10. QED
    BY <1>1, <1>5, <1>7, <1>8, <1>9, Untouched DEF histVars

\* The finally clause: the baseline is applied already, or on its way.
LEMMA RestoreInv ==
    ASSUME ExecutorInv, Restore
    PROVE  ExecutorInv'
  <1>1. ex.pc = "restore" /\ ~Free
        /\ UNCHANGED <<dev, link, client, hostVars, view, sess, choice, raced, asked, faults>>
    BY DEF Restore, Free
  <1>2. ex.who = Worker /\ wk.pc = "plan" /\ ex.base \in Configs
    BY <1>1 DEF LockHeld, PlanBase
  <1>3. CASE applied = ex.base
    <2>1. Leave(ex.fail, FALSE)
      BY <1>3 DEF Restore
    <2>2. /\ ex.fail \in Failures /\ (ex.fail = "NONE" => Len(sess.frames) = Total)
          /\ (spoiled \/ snap'.req = choice) /\ raced' \in BOOLEAN
      BY <1>1, <1>2, <1>3 DEF OpTypes, Operations, PlanRestores, PlanBase, SnapshotInv, hostVars,
                              HistoryTypes
    <2>3. HostSound' /\ Backed' /\ DeviceTypes'
      <3>1. HostSound /\ Backed
        BY <1>1, Sound
      <3>2. QED
        BY <1>1, <3>1, Untouched DEF HostSound, Backed, hostVars, Reached
    <2>4. QED
      BY <1>1, <1>2, <2>1, <2>2, <2>3, LeaveInv
  <1>4. CASE applied # ex.base
    <2>1. /\ ex' = [ex EXCEPT !.pc = "apply", !.restoring = TRUE, !.target = ex.base]
          /\ UNCHANGED <<wk, spoiled, req, activity>>
      BY <1>4 DEF Restore
    <2>2. OpTypes'
      BY <1>2, <2>1 DEF OpTypes, Operations
    <2>3. /\ ex'.pc = "apply" /\ ex'.restoring /\ ex'.target = ex.base /\ ex'.base = ex.base
          /\ ex'.who = ex.who /\ ex'.fail = ex.fail
      BY <2>1 DEF OpTypes, Operations
    <2>4. LockHeld' /\ ChoiceKept' /\ FiledAsTaken' /\ ViewKnown'
      BY <1>1, <1>2, <2>1, <2>3 DEF LockHeld, ChoiceKept, FiledAsTaken, ViewKnown, Free
    <2>5. SnapshotInv' /\ DeviceKnown'
      BY <1>1, <1>2, <2>1, <2>3 DEF SnapshotInv, DeviceKnown, ApplyPcs, hostVars, Reached
    <2>6. PlanBase' /\ PlanSteps' /\ PlanRestores'
      BY <1>1, <1>2, <2>1, <2>3 DEF PlanBase, PlanSteps, PlanRestores, ApplyPcs, hostVars
    <2>7. QED
      BY <1>1, <2>1, <2>2, <2>4, <2>5, <2>6, Untouched DEF histVars
  <1>5. QED
    BY <1>3, <1>4

\* A stop request only marks the session.
LEMMA StopSweepInv ==
    ASSUME ExecutorInv, StopSweep
    PROVE  ExecutorInv'
  <1>1. sess.state = "RUNNING" /\ sess' = [sess EXCEPT !.state = "STOPPING", !.stop = TRUE]
        /\ UNCHANGED <<dev, link, client, hostVars, view, ex, req, activity, wk, histVars, asked,
                       faults>>
    BY DEF StopSweep
  <1>2. SweepTypes'
    BY <1>1 DEF SweepTypes, SweepState
  <1>3. sess'.state = "STOPPING" /\ sess'.base = sess.base /\ sess'.frames = sess.frames
    BY <1>1 DEF SweepTypes
  <1>4. LockHeld' /\ WorkerInv' /\ SweepIsWhole'
    BY <1>1, <1>3 DEF LockHeld, WorkerInv, SweepIsWhole, ActiveSweep, Free
  <1>5. PlanBase' /\ PlanSteps' /\ PlanRestores'
    BY <1>1, <1>3 DEF PlanBase, PlanSteps, PlanRestores, hostVars, histVars
  <1>6. QED
    BY <1>1, <1>2, <1>4, <1>5, Untouched DEF hostVars, histVars

\* The state of a finished session says what its plan did.
LEMMA FinishInv ==
    ASSUME ExecutorInv, Finish
    PROVE  ExecutorInv'
  <1> DEFINE state == IF wk.fail = "NONE" THEN "COMPLETED"
                      ELSE IF wk.fail = "RUNTIME" /\ sess.stop THEN "STOPPED" ELSE "FAILED"
  <1>1. wk.pc = "finish" /\ wk' = [pc |-> "none", fail |-> "NONE"]
        /\ sess' = [sess EXCEPT !.state = state]
        /\ UNCHANGED <<dev, link, client, hostVars, view, ex, req, activity, histVars, asked,
                       faults>>
    BY DEF Finish
  <1>2. state \in {"COMPLETED", "STOPPED", "FAILED"} /\ (state = "COMPLETED" => wk.fail = "NONE")
    OBVIOUS
  <1> HIDE DEF state
  <1>3. SweepTypes'
    BY <1>1, <1>2 DEF SweepTypes, SweepState, Failures
  <1>4. sess'.state = state /\ sess'.frames = sess.frames /\ sess'.base = sess.base
    BY <1>1 DEF SweepTypes
  <1>5. LockHeld' /\ WorkerInv' /\ SweepIsWhole'
    BY <1>1, <1>2, <1>4 DEF LockHeld, WorkerInv, SweepIsWhole, ActiveSweep, Free
  <1>6. PlanBase' /\ PlanSteps' /\ PlanRestores'
    BY <1>1 DEF PlanBase, PlanSteps, PlanRestores
  <1>7. QED
    BY <1>1, <1>3, <1>5, <1>6, Untouched DEF hostVars, histVars

-----------------------------------------------------------------------------
(* What requests do before and without the device. *)

\* Looking at the generation keeps the executor's state sound and its values.
LEMMA Refreshed ==
    ASSUME ExecutorInv, ex.pc \notin {"readback", "adopt"}, Refresh, UNCHANGED <<link, dev, raced>>
    PROVE  /\ HostSound' /\ Backed' /\ snap'.req = snap.req
           /\ SnapNow.state = "APPLIED" => egen = link.gen /\ snap' = snap /\ applied' = applied
           /\ snap' = SnapNow /\ applied' = AppliedNow
  <1>1. HostSound /\ Backed /\ link.gen \in Nat
    BY Sound DEF DeviceTypes
  <1>2. CASE egen = link.gen
    BY <1>1, <1>2 DEF Refresh, SnapNow, AppliedNow, HostSound, HostTypes, Backed, Reached
  <1>3. CASE egen # link.gen
    <2>1. snap' = [snap EXCEPT !.state = "DRAFT"] /\ applied' = NoConfig /\ egen' = link.gen
      BY <1>3 DEF Refresh, SnapNow, AppliedNow
    <2>2. snap' \in [state : {"DRAFT", "APPLIED"}, req : Configs] /\ snap'.state = "DRAFT"
          /\ snap'.req = snap.req
      BY <2>1 DEF HostTypes
    <2>3. HostSound' /\ Backed'
      BY <1>1, <2>1, <2>2 DEF HostSound, HostTypes, Backed
    <2>4. QED
      BY <2>1, <2>2, <2>3 DEF Refresh
  <1>4. QED
    BY <1>2, <1>3

\* A step without the lock, on sound values, that changes neither the plan nor
\* the choice.
LEMMA FreeStep ==
    ASSUME ExecutorInv, Free, UNCHANGED <<dev, link, client, ex, sess, wk, histVars>>, HostSound',
           Backed', snap'.req = snap.req, RequestTypes', ChangesAsked', ViewTypes',
           NoOldDiagnostics', asked' \in Nat, faults' \in Nat
    PROVE  ExecutorInv'
  <1>1. ex.pc = "free" /\ ex.who = Worker /\ wk.pc # "plan"
    BY DEF LockHeld, Free
  <1>2. SnapshotInv' /\ DeviceKnown' /\ ViewKnown' /\ FiledAsTaken' /\ PlanBase' /\ PlanSteps'
        /\ PlanRestores'
    BY <1>1, WhileFree
  <1>3. LockHeld' /\ ChoiceKept'
    BY <1>1 DEF LockHeld, ChoiceKept, Free, histVars
  <1>4. QED
    BY <1>2, <1>3, Untouched DEF HostSound, HistoryTypes, histVars

\* A request that moves on keeps what it asks for.
LEMMA Proceeded ==
    ASSUME RequestTypes, ChangesAsked, NEW t \in Threads,
           NEW pc \in {"idle", "match", "compile", "list", "enter", "inside", "peek"},
           Proceed(t, pc)
    PROVE  /\ req' \in [Threads -> Requests] /\ ChangesAsked'
           /\ req'[t].pc = pc /\ req'[t].expect = req[t].expect /\ req'[t].change = req[t].change
           /\ \A u \in Threads \ {t} : req'[u] = req[u]
  <1>1. req' = [req EXCEPT ![t] = [req[t] EXCEPT !.pc = pc]]
    BY DEF Proceed
  <1>2. req[t] \in Requests
    BY DEF RequestTypes
  <1>3. [req[t] EXCEPT !.pc = pc] \in Requests
    BY <1>2 DEF Requests
  <1>4. /\ req'[t] = [req[t] EXCEPT !.pc = pc] /\ req' \in [Threads -> Requests]
        /\ \A u \in Threads \ {t} : req'[u] = req[u]
    BY <1>1, <1>3 DEF RequestTypes
  <1>5. /\ req'[t].pc = pc /\ req'[t].expect = req[t].expect /\ req'[t].change = req[t].change
        /\ req'[t].kind = req[t].kind
    BY <1>2, <1>4 DEF Requests
  <1>6. QED
    BY <1>4, <1>5 DEF ChangesAsked

\* A device view that is merged carries no status of an earlier session.
LEMMA Merged ==
    ASSUME ViewTypes, NoOldDiagnostics, DeviceTypes, MergeView
    PROVE  ViewTypes' /\ NoOldDiagnostics'
  BY DEF ViewTypes, NoOldDiagnostics, DeviceTypes, MergeView

\* The comparison of the ETag or the identity.
LEMMA MatchInv ==
    ASSUME ExecutorInv, NEW t \in Threads, Match(t)
    PROVE  ExecutorInv'
  <1>1. /\ Free /\ ex.pc \notin {"readback", "adopt"} /\ Refresh
        /\ UNCHANGED <<dev, link, client, view, ex, sess, wk, histVars, asked, faults>>
    BY DEF Match, Free
  <1>2. HostSound' /\ Backed' /\ snap'.req = snap.req
    BY <1>1, Refreshed DEF histVars
  <1>3. activity' \in BOOLEAN /\ (Answer(t) \/ Proceed(t, "enter") \/ Proceed(t, "compile"))
    <2>1. activity \in BOOLEAN
      BY DEF RequestTypes
    <2>2. QED
      BY <2>1 DEF Match
  <1>4. RequestTypes' /\ ChangesAsked'
    BY <1>3, Answered, Proceeded DEF RequestTypes
  <1>5. QED
    BY <1>1, <1>2, <1>4, FreeStep, Untouched DEF HistoryTypes

\* The plan is compiled or refused.
LEMMA CompileInv ==
    ASSUME ExecutorInv, NEW t \in Threads, Compile(t)
    PROVE  ExecutorInv'
  <1>1. /\ Free /\ ex.pc \notin {"readback", "adopt"} /\ Refresh
        /\ UNCHANGED <<dev, link, client, view, ex, activity, sess, wk, histVars, asked, faults>>
    BY DEF Compile, Free
  <1>2. HostSound' /\ Backed' /\ snap'.req = snap.req
    BY <1>1, Refreshed DEF histVars
  <1>3. RequestTypes' /\ ChangesAsked'
    BY <1>1, Answered, Proceeded DEF Compile, RequestTypes
  <1>4. QED
    BY <1>1, <1>2, <1>3, FreeStep, Untouched DEF HistoryTypes

\* What one request does while another holds the lock.
LEMMA OtherRequest ==
    ASSUME ExecutorInv, NEW t \in Threads, req[t].pc # "inside",
           \A u \in Threads \ {t} : req'[u] = req[u],
           RequestTypes', ChangesAsked', ViewTypes', NoOldDiagnostics', asked' \in Nat,
           UNCHANGED <<dev, link, client, hostVars, ex, sess, wk, histVars, faults>>
    PROVE  ExecutorInv'
  <1>1. ex.who # Worker => ex.who \in Threads /\ req'[ex.who] = req[ex.who]
    BY DEF LockHeld, OpTypes, Operations
  <1>2. LockHeld'
    BY <1>1 DEF LockHeld, Free
  <1>3. SnapshotInv' /\ FiledAsTaken'
    BY <1>1 DEF SnapshotInv, FiledAsTaken, hostVars
  <1>4. HistoryTypes'
    BY DEF HistoryTypes, histVars
  <1>5. QED
    BY <1>2, <1>3, <1>4, Untouched DEF hostVars, histVars

\* A request that arrives.
LEMMA Arrived ==
    ASSUME RequestTypes, HostTypes, HistoryTypes, ChangesAsked, NEW t \in Threads, NEW kind \in Kinds,
           NEW change, change \in Changes \/ (change = NoRequest.change /\ kind \notin {"DRAFT", "APPLY"}),
           NEW pc \in {"match", "enter", "peek"}, Arrive(t, kind, change, pc)
    PROVE  /\ req' \in [Threads -> Requests] /\ ChangesAsked' /\ asked' \in Nat
           /\ req[t].pc = "idle" /\ \A u \in Threads \ {t} : req'[u] = req[u]
  <1>1. change \in [field : {"swept", "rest"}, value : Values \cup {"NONE"}]
    BY ExecutorConstants, NoOpType
  <1> DEFINE new == [pc |-> pc, kind |-> kind, expect |-> applied, change |-> change]
  <1>2. /\ req' = [req EXCEPT ![t] = new] /\ req[t].pc = "idle" /\ asked' = asked + 1
    BY DEF Arrive
  <1>3. new \in Requests /\ new.kind = kind /\ new.change = change
    BY <1>1 DEF Requests, HostTypes
  <1> HIDE DEF new
  <1>4. /\ req' \in [Threads -> Requests] /\ req'[t] = new
        /\ \A u \in Threads \ {t} : req'[u] = req[u]
    BY <1>2, <1>3 DEF RequestTypes
  <1>5. ChangesAsked'
    BY <1>3, <1>4 DEF ChangesAsked
  <1>6. QED
    BY <1>2, <1>4, <1>5 DEF HistoryTypes

\* A new request waits its turn, whatever is going on.
LEMMA AskInv ==
    ASSUME ExecutorInv, NEW t \in Threads, Ask(t)
    PROVE  ExecutorInv'
  <1>1. CASE \E change \in Changes : AskDraft(t, change) \/ AskApply(t, change)
    <2>1. PICK change \in Changes : AskDraft(t, change) \/ AskApply(t, change)
      BY <1>1
    <2>2. \E kind \in Kinds, pc \in {"match", "enter", "peek"} : Arrive(t, kind, change, pc)
      BY <2>1 DEF AskDraft, AskApply, Kinds
    <2>3. /\ UNCHANGED <<dev, link, client, hostVars, ex, activity, sess, wk, histVars, faults>>
          /\ UNCHANGED view \/ MergeView
      BY <2>1 DEF AskDraft, AskApply
    <2>4. /\ req' \in [Threads -> Requests] /\ ChangesAsked' /\ asked' \in Nat
          /\ req[t].pc = "idle" /\ \A u \in Threads \ {t} : req'[u] = req[u]
      BY <2>2, Arrived
    <2>5. RequestTypes' /\ ViewTypes' /\ NoOldDiagnostics'
      BY <2>3, <2>4, Merged, Untouched DEF RequestTypes
    <2>6. QED
      BY <2>3, <2>4, <2>5, OtherRequest
  <1>2. CASE AskCapture(t) \/ AskSweep(t) \/ AskView(t)
    <2>1. CASE \E kind \in {"CAPTURE", "SWEEP", "VIEW"}, pc \in {"match", "enter", "peek"} :
                 Arrive(t, kind, NoRequest.change, pc)
      <3>1. PICK kind \in {"CAPTURE", "SWEEP", "VIEW"}, pc \in {"match", "enter", "peek"} :
                 Arrive(t, kind, NoRequest.change, pc)
        BY <2>1
      <3>2. kind \in Kinds /\ kind \notin {"DRAFT", "APPLY"}
        BY DEF Kinds
      <3>3. /\ req' \in [Threads -> Requests] /\ ChangesAsked' /\ asked' \in Nat
            /\ req[t].pc = "idle" /\ \A u \in Threads \ {t} : req'[u] = req[u]
        BY <3>1, <3>2, Arrived
      <3>4. /\ UNCHANGED <<dev, link, client, hostVars, ex, sess, wk, histVars, faults>>
            /\ UNCHANGED view \/ MergeView
            /\ activity' = TRUE \/ activity' = activity
        BY <1>2 DEF AskCapture, AskSweep, AskView
      <3>5. RequestTypes' /\ ViewTypes' /\ NoOldDiagnostics'
        BY <3>3, <3>4, Merged, Untouched DEF RequestTypes
      <3>6. QED
        BY <3>3, <3>4, <3>5, OtherRequest
    <2>2. CASE UNCHANGED <<dev, link, client, hostVars, ex, req, activity, sess, wk, histVars, asked,
                           faults>> /\ MergeView
      BY <2>2, Merged, Untouched DEF hostVars, histVars
    <2>3. QED
      BY <1>2, <2>1, <2>2 DEF AskCapture, AskSweep, AskView
  <1>3. QED
    BY <1>1, <1>2 DEF Ask

\* A new session begins with no frames, and with no plan of an earlier one left.
LEMMA ListInv ==
    ASSUME ExecutorInv, NEW t \in Threads, List(t)
    PROVE  ExecutorInv'
  <1>1. /\ req[t].pc = "list" /\ Answer(t)
        /\ UNCHANGED <<dev, link, client, hostVars, ex, activity, histVars, asked, faults>>
        /\ UNCHANGED view \/ MergeView
    BY DEF List
  <1>2. /\ req' \in [Threads -> Requests] /\ ChangesAsked'
        /\ \A u \in Threads \ {t} : req'[u] = req[u]
    BY <1>1, Answered
  <1>3. RequestTypes' /\ ViewTypes' /\ NoOldDiagnostics'
    BY <1>1, <1>2, Merged, Untouched DEF RequestTypes
  <1>4. CASE UNCHANGED <<sess, wk>>
    BY <1>1, <1>2, <1>3, <1>4, OtherRequest DEF HistoryTypes
  <1>5. CASE Idle /\ sess' = [NoSweep EXCEPT !.state = "RUNNING"]
             /\ wk' = [pc |-> "start", fail |-> "NONE"]
    <2>1. wk.pc = "none" /\ ~(ex.who = Worker /\ ~Free)
      BY <1>5 DEF Idle, LockHeld, SweepTypes
    <2>2. sess' = [state |-> "RUNNING", stop |-> FALSE, base |-> NoConfig, frames |-> <<>>]
      BY <1>5 DEF NoSweep
    <2>3. SweepTypes'
      <3>1. <<>> \in Seq(Configs)
        OBVIOUS
      <3>2. sess' \in [state : SweepState, stop : BOOLEAN, base : Configs \cup {NoConfig},
                       frames : Seq(Configs)]
        BY <2>2, <3>1, Zenon DEF SweepState
      <3>3. wk' \in [pc : {"none", "start", "plan", "finish"}, fail : Failures]
        BY <1>5, Zenon DEF Failures
      <3>4. QED
        BY <3>2, <3>3 DEF SweepTypes
    <2>4. SweepIsWhole' /\ WorkerInv'
      BY <1>5, <2>2 DEF SweepIsWhole, WorkerInv
    <2>5. ex.who # Worker => ex.who \in Threads /\ req'[ex.who] = req[ex.who]
      BY <1>1, <1>2 DEF LockHeld, OpTypes, Operations
    <2>6. LockHeld'
      BY <1>1, <1>5, <2>1, <2>2, <2>5 DEF LockHeld, Free, ActiveSweep
    <2>7. PlanBase' /\ PlanSteps' /\ PlanRestores'
      BY <1>1, <1>5 DEF PlanBase, PlanSteps, PlanRestores
    <2>8. SnapshotInv' /\ FiledAsTaken'
      BY <1>1, <2>5 DEF SnapshotInv, FiledAsTaken, hostVars
    <2>9. QED
      BY <1>1, <1>2, <1>3, <2>3, <2>4, <2>6, <2>7, <2>8, Untouched DEF hostVars, histVars
  <1>6. QED
    BY <1>4, <1>5 DEF List

\* A draft is the operator's new choice.
LEMMA EnterDraftInv ==
    ASSUME ExecutorInv, NEW t \in Threads, EnterDraft(t)
    PROVE  ExecutorInv'
  <1>1. /\ ex.pc = "free" /\ ex.who = Worker /\ wk.pc # "plan" /\ Answer(t)
        /\ UNCHANGED <<raced, dev, link, client, view, ex, activity, sess, wk, asked, faults>>
        /\ choice' = snap'.req /\ spoiled' = FALSE
    BY DEF EnterDraft, LockHeld, Free
  <1>2. Merge(snap.req, req[t].change) \in Configs
    <2>1. req[t].change \in Changes /\ snap.req \in Configs
      BY DEF EnterDraft, ChangesAsked, HostTypes
    <2>2. QED
      BY <2>1, MergeType
  <1>3. /\ snap' = [state |-> "DRAFT", req |-> Merge(snap.req, req[t].change)]
        /\ applied' \in {applied, NoConfig} /\ egen' = link.gen
    BY DEF EnterDraft, AppliedNow
  <1>4. snap'.state = "DRAFT" /\ snap'.req \in Configs
    BY <1>2, <1>3
  <1>5. HostSound' /\ Backed'
    BY <1>1, <1>2, <1>3, <1>4 DEF HostSound, HostTypes, Backed, DeviceTypes
  <1>6. ChangesAsked' /\ RequestTypes'
    BY <1>1, Answered DEF RequestTypes
  <1>7. HistoryTypes'
    BY <1>1, <1>4 DEF HistoryTypes
  <1>8. SnapshotInv' /\ DeviceKnown' /\ ViewKnown' /\ FiledAsTaken' /\ PlanBase' /\ PlanSteps'
        /\ PlanRestores'
    BY <1>1, <1>5, WhileFree
  <1>9. LockHeld' /\ ChoiceKept'
    BY <1>1 DEF LockHeld, ChoiceKept, Free
  <1>10. QED
    BY <1>1, <1>5, <1>6, <1>7, <1>8, <1>9, Untouched DEF HostSound

\* A request that takes the lock: what the invariant asks of its operation.
LEMMA Entered ==
    ASSUME ExecutorInv, Free, NEW t \in Threads, Proceed(t, "inside"), activity' \in BOOLEAN,
           OpTypes', ex'.who = t, ex'.pc \in {"apply", "burst", "status"}, ~ex'.restoring,
           HostSound', Backed', snap'.req = snap.req, ViewTypes', NoOldDiagnostics',
           ex'.pc = "apply" => ex'.target \in Configs
                               /\ ex'.target = Merge(snap.req, req[t].change),
           ex'.pc = "burst" => /\ snap'.state = "APPLIED" /\ snap.req = ex'.target
                               /\ req[t].expect = ex'.target,
           ex'.pc = "status" => ex'.gen = link.gen,
           UNCHANGED <<dev, link, client, sess, wk, histVars, asked, faults>>
    PROVE  ExecutorInv'
  <1>1. /\ req' \in [Threads -> Requests] /\ ChangesAsked' /\ req'[t].pc = "inside"
        /\ req'[t].expect = req[t].expect /\ req'[t].change = req[t].change
    BY Proceeded
  <1>2. ex.who = Worker /\ wk.pc # "plan" /\ t # Worker /\ link.gen \in Nat /\ snap'.req \in Configs
    BY ExecutorConstants DEF LockHeld, Worker, DeviceTypes, HostSound, HostTypes
  <1>3. LockHeld' /\ ChoiceKept'
    BY <1>1, <1>2 DEF LockHeld, ChoiceKept, Free, histVars
  <1>4. SnapshotInv'
    BY <1>1, <1>2 DEF SnapshotInv, HostSound, ApplyPcs
  <1>5. DeviceKnown' /\ ViewKnown' /\ FiledAsTaken'
    BY <1>2 DEF DeviceKnown, ViewKnown, FiledAsTaken, Backed
  <1>6. PlanBase' /\ PlanSteps' /\ PlanRestores'
    BY <1>2 DEF PlanBase, PlanSteps, PlanRestores
  <1>7. QED
    BY <1>1, <1>3, <1>4, <1>5, <1>6, Untouched DEF HostSound, RequestTypes, histVars

\* The change is merged into the values of the moment the lock is taken.
LEMMA EnterApplyInv ==
    ASSUME ExecutorInv, NEW t \in Threads, EnterApply(t)
    PROVE  ExecutorInv'
  <1>1. /\ Free /\ ex.pc \notin {"readback", "adopt"} /\ Refresh
        /\ UNCHANGED <<dev, link, client, view, sess, wk, histVars, asked, faults>>
    BY DEF EnterApply, Free
  <1>2. HostSound' /\ Backed' /\ snap'.req = snap.req
    BY <1>1, Refreshed DEF histVars
  <1>3. TargetOf(t) \in Configs /\ TargetOf(t) = Merge(snap.req, req[t].change)
    <2>1. req[t].change \in Changes /\ snap.req \in Configs
      BY DEF EnterApply, ChangesAsked, HostTypes
    <2>2. QED
      BY <2>1, MergeType DEF TargetOf
  <1>4. CASE Valid(TargetOf(t))
    <2>1. /\ ex' = [NoOp EXCEPT !.pc = "apply", !.who = t, !.target = TargetOf(t)]
          /\ Proceed(t, "inside") /\ UNCHANGED activity
      BY <1>4 DEF EnterApply
    <2>2. OpTypes'
      BY <1>3, <2>1, NoOpType DEF OpTypes, Operations
    <2>3. ex'.pc = "apply" /\ ex'.who = t /\ ex'.target = TargetOf(t) /\ ~ex'.restoring
      BY <2>1 DEF NoOp
    <2>4. QED
      BY <1>1, <1>2, <1>3, <2>1, <2>2, <2>3, Entered, Untouched DEF RequestTypes
  <1>5. CASE ~Valid(TargetOf(t))
    <2>1. Answer(t) /\ activity' = FALSE /\ UNCHANGED ex
      BY <1>5 DEF EnterApply
    <2>2. RequestTypes' /\ ChangesAsked'
      BY <2>1, Answered DEF RequestTypes
    <2>3. QED
      BY <1>1, <1>2, <2>1, <2>2, FreeStep, Untouched DEF HistoryTypes
  <1>6. QED
    BY <1>4, <1>5

\* A capture begins only on the configuration its caller named.
LEMMA EnterCaptureInv ==
    ASSUME ExecutorInv, NEW t \in Threads, EnterCapture(t)
    PROVE  ExecutorInv'
  <1>1. /\ Free /\ ex.pc \notin {"readback", "adopt"} /\ Refresh
        /\ UNCHANGED <<dev, link, client, view, sess, wk, histVars, asked, faults>>
    BY DEF EnterCapture, Free
  <1>2. /\ HostSound' /\ Backed' /\ snap'.req = snap.req
        /\ snap' = SnapNow /\ applied' = AppliedNow
    BY <1>1, Refreshed DEF histVars
  <1>3. CASE IdentityHolds(req[t].expect)
    <2>1. /\ ex' = [NoOp EXCEPT !.pc = "burst", !.who = t, !.target = AppliedNow]
          /\ Proceed(t, "inside") /\ UNCHANGED activity
      BY <1>3 DEF EnterCapture
    <2>2. snap'.state = "APPLIED" /\ snap'.req = AppliedNow /\ req[t].expect = AppliedNow
      BY <1>2, <1>3 DEF IdentityHolds, HostSound
    <2>3. AppliedNow \in Configs
      BY <1>2, <2>2 DEF HostSound, HostTypes
    <2>4. OpTypes'
      BY <2>1, <2>3, NoOpType DEF OpTypes, Operations
    <2>5. ex'.pc = "burst" /\ ex'.who = t /\ ex'.target = AppliedNow /\ ~ex'.restoring
      BY <2>1 DEF NoOp
    <2>6. QED
      BY <1>1, <1>2, <2>1, <2>2, <2>4, <2>5, Entered, Untouched DEF RequestTypes
  <1>4. CASE ~IdentityHolds(req[t].expect)
    <2>1. Answer(t) /\ activity' = FALSE /\ UNCHANGED ex
      BY <1>4 DEF EnterCapture
    <2>2. RequestTypes' /\ ChangesAsked'
      BY <2>1, Answered DEF RequestTypes
    <2>3. QED
      BY <1>1, <1>2, <2>1, <2>2, FreeStep, Untouched DEF HistoryTypes
  <1>5. QED
    BY <1>3, <1>4

\* A view takes the lock when it is free, and answers from what it has when not.
LEMMA PeekInv ==
    ASSUME ExecutorInv, NEW t \in Threads, Peek(t)
    PROVE  ExecutorInv'
  <1>1. /\ req[t].pc = "peek" /\ MergeView
        /\ UNCHANGED <<dev, link, client, activity, sess, wk, histVars, asked, faults>>
    BY DEF Peek
  <1>2. ViewTypes' /\ NoOldDiagnostics'
    BY <1>1, Merged
  <1>3. CASE ~Free
    <2>1. Answer(t) /\ UNCHANGED <<ex, hostVars>>
      BY <1>3 DEF Peek
    <2>2. /\ RequestTypes' /\ ChangesAsked'
          /\ \A u \in Threads \ {t} : req'[u] = req[u]
      BY <1>1, <2>1, Answered DEF RequestTypes
    <2>3. QED
      BY <1>1, <1>2, <2>1, <2>2, OtherRequest DEF HistoryTypes
  <1>4. CASE Free
    <2>1. HostSound' /\ Backed' /\ snap'.req = snap.req
      BY <1>1, <1>4, Refreshed DEF Peek, Free, histVars
    <2>2. CASE link.up
      <3>1. /\ ex' = [NoOp EXCEPT !.pc = "status", !.who = t, !.gen = link.gen]
            /\ Proceed(t, "inside")
        BY <1>4, <2>2 DEF Peek
      <3>2. link.gen \in Nat
        BY DEF DeviceTypes
      <3>3. OpTypes'
        BY <3>1, <3>2, NoOpType DEF OpTypes, Operations
      <3>4. ex'.pc = "status" /\ ex'.who = t /\ ex'.gen = link.gen /\ ~ex'.restoring
        BY <3>1 DEF NoOp
      <3>5. QED
        BY <1>1, <1>2, <1>4, <2>1, <3>1, <3>3, <3>4, Entered DEF RequestTypes
    <2>3. CASE ~link.up
      <3>1. Answer(t) /\ UNCHANGED ex
        BY <1>4, <2>3 DEF Peek
      <3>2. RequestTypes' /\ ChangesAsked'
        BY <1>1, <3>1, Answered DEF RequestTypes
      <3>3. QED
        BY <1>1, <1>2, <1>4, <2>1, <3>1, <3>2, FreeStep DEF HistoryTypes
    <2>4. QED
      BY <2>2, <2>3
  <1>5. QED
    BY <1>3, <1>4

\* A plan begins on the operator's values, with no frame filed.
LEMMA PlanStartInv ==
    ASSUME ExecutorInv, PlanStart
    PROVE  ExecutorInv'
  <1>1. /\ wk.pc = "start" /\ Free /\ ex.pc \notin {"readback", "adopt"} /\ Refresh
        /\ UNCHANGED <<dev, link, client, view, req, activity, histVars, asked, faults>>
    BY DEF PlanStart, Free
  <1>2. /\ HostSound' /\ Backed' /\ snap'.req = snap.req
        /\ snap' = SnapNow /\ applied' = AppliedNow
    BY <1>1, Refreshed DEF histVars
  <1>3. ex.who = Worker /\ ex.pc = "free" /\ sess.state \in ActiveSweep /\ sess.frames = <<>>
    BY <1>1 DEF LockHeld, Free, WorkerInv
  <1>4. CASE (\E f \in {"RUNTIME", "OTHER"} : wk' = [pc |-> "finish", fail |-> f])
             /\ UNCHANGED <<ex, sess>>
    <2>1. PICK f \in {"RUNTIME", "OTHER"} : wk' = [pc |-> "finish", fail |-> f]
      BY <1>4
    <2>2. wk'.pc = "finish" /\ wk'.fail # "NONE" /\ SweepTypes'
      BY <1>4, <2>1 DEF SweepTypes, Failures
    <2>3. SnapshotInv' /\ DeviceKnown' /\ ViewKnown' /\ FiledAsTaken' /\ PlanBase' /\ PlanSteps'
          /\ PlanRestores'
      BY <1>2, <1>3, <1>4, <2>2, WhileFree
    <2>4. LockHeld' /\ ChoiceKept' /\ WorkerInv'
      BY <1>1, <1>2, <1>3, <1>4, <2>2 DEF LockHeld, ChoiceKept, WorkerInv, Free, histVars
    <2>5. QED
      BY <1>1, <1>2, <1>4, <2>2, <2>3, <2>4, Untouched DEF HostSound
  <1>5. CASE /\ SnapNow.state = "APPLIED" /\ AppliedNow # NoConfig
             /\ wk' = [wk EXCEPT !.pc = "plan"]
             /\ ex' = [NoOp EXCEPT !.pc = "step", !.who = Worker, !.base = AppliedNow]
             /\ sess' = [sess EXCEPT !.base = AppliedNow]
    <2>1. snap'.state = "APPLIED" /\ snap'.req = AppliedNow /\ AppliedNow \in Configs
      BY <1>2, <1>5 DEF HostSound, HostTypes
    <2>2. spoiled \/ AppliedNow = choice
      BY <1>2, <1>3, <2>1 DEF ChoiceKept, Free
    <2>3. OpTypes'
      BY <1>5, <2>1, NoOpType DEF OpTypes, Operations
    <2>4. /\ ex'.pc = "step" /\ ex'.who = Worker /\ ex'.base = AppliedNow /\ ex'.k = 0
          /\ ex'.restoring = FALSE /\ ex'.fail = "NONE"
      BY <1>5 DEF NoOp
    <2>5. SweepTypes' /\ wk'.pc = "plan" /\ sess'.base = AppliedNow /\ sess'.frames = <<>>
          /\ sess'.state = sess.state
      BY <1>3, <1>5, <2>1 DEF SweepTypes
    <2>6. LockHeld' /\ ChoiceKept' /\ WorkerInv' /\ SweepIsWhole'
      BY <1>3, <2>4, <2>5 DEF LockHeld, ChoiceKept, WorkerInv, SweepIsWhole, Free, ActiveSweep
    <2>7. SnapshotInv' /\ DeviceKnown' /\ ViewKnown' /\ FiledAsTaken'
      BY <1>2, <2>4
         DEF SnapshotInv, DeviceKnown, ViewKnown, FiledAsTaken, HostSound, Backed, ApplyPcs
    <2>8. Total \in Nat /\ Len(sess'.frames) = 0
      BY <2>5, ExecutorConstants DEF Total
    <2>9. PlanBase' /\ PlanSteps' /\ PlanRestores'
      BY <1>1, <2>1, <2>2, <2>4, <2>5, <2>8
         DEF PlanBase, PlanSteps, PlanRestores, ApplyPcs, histVars
    <2>10. QED
      BY <1>1, <1>2, <2>3, <2>5, <2>6, <2>7, <2>9, Untouched DEF HostSound
  <1>6. QED
    BY <1>4, <1>5 DEF PlanStart

-----------------------------------------------------------------------------
\* The inductive invariant of the executor: who holds the lock, what the
\* snapshot means, where a plan stands, and what is known of the device.
THEOREM ExecutorInvariant == Spec => []ExecutorInv
  <1>1. Init => ExecutorInv
    <2> SUFFICES ASSUME Init PROVE ExecutorInv
      OBVIOUS
    <2>1. Default \in Configs
      BY ExecutorConstants
    <2>2. /\ ex.pc = "free" /\ ex.who = Worker /\ OpTypes /\ ~ex.restoring
          /\ req \in [Threads -> Requests] /\ \A t \in Threads : req[t].kind = "VIEW"
      BY NoOpType DEF Init, OpTypes, NoOp
    <2>3. dev \in [config : Configs, valid : BOOLEAN]
      <3>1. PICK v \in BOOLEAN : dev = [config |-> Default, valid |-> v]
        BY DEF Init
      <3>2. QED
        BY <2>1, <3>1, Zenon
    <2>4. DeviceTypes
      BY <2>3 DEF Init, DeviceTypes, NoClient
    <2>5. HostTypes /\ ViewTypes /\ RequestTypes /\ HistoryTypes
      BY <2>1, <2>2 DEF Init, HostTypes, ViewTypes, RequestTypes, HistoryTypes
    <2>6. SweepTypes
      <3>1. <<>> \in Seq(Configs)
        OBVIOUS
      <3>2. sess \in [state : SweepState, stop : BOOLEAN, base : Configs \cup {NoConfig},
                      frames : Seq(Configs)]
        BY <3>1, Zenon DEF Init, NoSweep, SweepState
      <3>3. QED
        BY <3>2 DEF Init, SweepTypes, Failures
    <2>7. sess.state = "NONE" /\ sess.frames = <<>>
      BY DEF Init, NoSweep
    <2>8. LockHeld /\ ChangesAsked /\ WorkerInv /\ ChoiceKept /\ NoOldDiagnostics /\ SweepIsWhole
      BY <2>2, <2>7 DEF Init, LockHeld, ChangesAsked, WorkerInv, ChoiceKept, NoOldDiagnostics,
                        SweepIsWhole, ActiveSweep, Free
    <2>9. SnapshotInv /\ DeviceKnown /\ ViewKnown /\ FiledAsTaken
      BY <2>2 DEF Init, SnapshotInv, DeviceKnown, ViewKnown, FiledAsTaken, ApplyPcs
    <2>10. PlanBase /\ PlanSteps /\ PlanRestores
      BY <2>2 DEF Init, PlanBase, PlanSteps, PlanRestores
    <2>11. QED
      BY <2>2, <2>4, <2>5, <2>6, <2>8, <2>9, <2>10
  <1>2. ExecutorInv /\ [Next]_vars => ExecutorInv'
    <2> SUFFICES ASSUME ExecutorInv, [Next]_vars PROVE ExecutorInv'
      OBVIOUS
    <2>1. CASE UNCHANGED vars
      BY <2>1, Untouched DEF vars, hostVars, histVars
    <2>2. CASE LinkLost \/ Publish \/ StopSweep \/ PlanStart \/ Finish
      BY <2>2, LinkLostInv, PublishInv, StopSweepInv, PlanStartInv, FinishInv
    <2>3. CASE Operation
      BY <2>3, ReadConfigInv, SetConfigInv, ReadbackInv, AdoptInv, BurstInv, FileInv, FileLostInv,
         ConfirmInv, CallLostInv, StatusInv, StatusLostInv, CapsInv, PlanEndInv, PlanStepInv,
         RestoreInv DEF Operation
    <2>4. ASSUME NEW t \in Threads, Ask(t) \/ Request(t) PROVE ExecutorInv'
      BY <2>4, AskInv, MatchInv, CompileInv, ListInv, EnterDraftInv, EnterApplyInv,
         EnterCaptureInv, PeekInv DEF Request
    <2>5. QED
      BY <2>1, <2>2, <2>3, <2>4 DEF Next
  <1>3. QED
    BY <1>1, <1>2, PTL DEF Spec

\* A frame is filed with the configuration the device took it under, and a
\* capture with the one its caller named.
THEOREM FiledAsTakenAlways == Spec => []FiledAsTaken
  <1>1. ExecutorInv => FiledAsTaken
    OBVIOUS
  <1>2. QED
    BY <1>1, ExecutorInvariant, PTL

\* Between operations, on a session that works, what the executor calls APPLIED
\* is what the device has.
THEOREM AppliedIsBackedAlways == Spec => []AppliedIsBacked
  <1>1. ExecutorInv => AppliedIsBacked
    BY DEF AppliedIsBacked, DeviceKnown, Free
  <1>2. QED
    BY <1>1, ExecutorInvariant, PTL

\* The executor holds the values the operator chose last, whatever was refused,
\* failed, was stopped or was lost.
THEOREM ChoiceKeptAlways == Spec => []ChoiceKept
  <1>1. ExecutorInv => ChoiceKept
    OBVIOUS
  <1>2. QED
    BY <1>1, ExecutorInvariant, PTL

\* A COMPLETED sweep has filed every step of its plan in order, any other one a
\* part from the start.
THEOREM SweepIsWholeAlways == Spec => []SweepIsWhole
  <1>1. ExecutorInv => SweepIsWhole
    OBVIOUS
  <1>2. QED
    BY <1>1, ExecutorInvariant, PTL

\* A device view never carries the status of an earlier session.
THEOREM NoOldDiagnosticsAlways == Spec => []NoOldDiagnostics
  <1>1. ExecutorInv => NoOldDiagnostics
    OBVIOUS
  <1>2. QED
    BY <1>1, ExecutorInvariant, PTL

\* An apply request changes the field it names, starting from the operator's
\* last choice, and no other.
THEOREM OnlyNamedFieldAlways == Spec => OnlyNamedFieldChanges
  <1>1. ASSUME ExecutorInv, NEW t \in Threads, ex.pc = "adopt", ex.who = t, ~spoiled, Adopt
        PROVE  choice' = Merge(choice, req[t].change)
    <2>1. ex.who # Worker
      BY <1>1, ExecutorConstants DEF Worker
    <2>2. choice' = ex.target
      BY <1>1, <2>1 DEF Adopt, Applied
    <2>3. ex.target = Merge(snap.req, req[t].change) /\ snap.req = choice
      BY <1>1, <2>1 DEF SnapshotInv, ChoiceKept, ApplyPcs
    <2>4. QED
      BY <2>2, <2>3
  <1>2. ExecutorInv /\ [Next]_vars =>
          [\A t \in Threads : ex.pc = "adopt" /\ ex.who = t /\ ~spoiled /\ Adopt
                                => choice' = Merge(choice, req[t].change)]_vars
    BY <1>1
  <1>3. QED
    BY <1>2, ExecutorInvariant, PTL DEF Spec, OnlyNamedFieldChanges
=============================================================================
