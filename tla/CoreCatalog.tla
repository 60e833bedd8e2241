---------------------------- MODULE CoreCatalog ----------------------------
(***************************************************************************)
(* Experiments, groups and the readers of the archive: which group a frame  *)
(* is filed under and who may change it, the paged list of captures, and    *)
(* the export of a group (core_store.py, group_export.py), while tasks run, *)
(* frames come late or twice, operators regroup and the core restarts.      *)
(*                                                                          *)
(* One operator per transaction, from a database to the next one.  A task   *)
(* is a session: a single capture, or a run (a schedule or a sweep).  Runs   *)
(* follow each other, but a single capture checks that none is active and   *)
(* registers its policy later, and a run does not look for single captures: *)
(* both use the one row of the published boot.  A connection is published   *)
(* only once the spool is drained (BridgeDelivery).  How sessions are        *)
(* stopped and counted is CoreSessions' subject.  Names, cell ids and notes *)
(* are one version number per experiment and group.  Tombstones are not     *)
(* pruned here: the spool holds no frame as old as that.                    *)
(***************************************************************************)
EXTENDS Integers, Sequences, FiniteSets

CONSTANTS
    Sessions,       \* session ids, numbered from 1 in the order of their requests
    Captures,       \* capture ids, numbered from 1 in the order they are taken
    Experiments,
    Groups,
    NoGroup,        \* group_id is NULL
    Menu,           \* the tasks clients ask for: kind and save policy
    Filters,        \* the lists clients ask for: by group, experiment, session, ...
    Limit,          \* limit of a page
    MaxEdits,       \* bound on renames and batch assignments
    MaxReads,       \* bound on lists and exports
    MaxFaults,      \* bound on lost connections and core crashes
    MaxTurns        \* bound on all of these together

SavePolicies == {"SAVE_NONE", "SAVE_ALL", "SAVE_LAST"}

ASSUME CatalogConstants ==
    /\ Sessions \subseteq Nat \ {0} /\ Captures \subseteq Nat \ {0}
    /\ NoGroup \notin Groups
    /\ Menu \subseteq [kind : {"SINGLE", "RUN"}, save : SavePolicies]
    /\ Filters \subseteq [kind : {"ALL", "GROUP", "EXPERIMENT", "SESSION", "UNGROUPED"},
                          of : Groups \cup Experiments \cup Sessions \cup {NoGroup}]
    /\ Limit \in Nat \ {0} /\ MaxEdits \in Nat /\ MaxReads \in Nat /\ MaxFaults \in Nat
    /\ MaxTurns \in Nat

VARIABLES
    db,         \* the database
    task,       \* task[s]: kind, save policy and group_id of session s
    phase,      \* phase[s]: how far the core has got with it
    up,         \* a connection to the bridge is published
    asked,      \* tasks the device may take captures for
    taken,      \* captures taken so far
    spool,      \* the capture the bridge holds and the task it is of
    list,       \* a client that pages through the captures
    exp,        \* an export under way
    \* history and bounds
    taker,      \* taker[c]: the task capture c was taken for
    moved,      \* moved[c]: {the group an operator put capture c in last}, or {}
    overtaken,  \* tasks another one registered over while they had captures to come
    steady,     \* captures that match the list since it began or they were filed
    edits, reads, faults

taskVars   == <<task, phase, overtaken>>
deviceVars == <<asked, taken, spool, taker>>
bounds     == <<edits, reads, faults>>
vars == <<db, taskVars, up, deviceVars, list, exp, moved, steady, bounds>>

GroupIds == Groups \cup {NoGroup}
NoRoll   == [cap |-> 0, group |-> NoGroup]
NoPolicy == [session |-> 0, save |-> "SAVE_NONE", group |-> NoGroup]
NoSpool  == [cap |-> 0, session |-> 0]
NoTask   == [kind |-> "NONE", save |-> "SAVE_NONE", group |-> NoGroup]
Phases   == {"new", "checked", "registered", "begun", "over"}
NoPin    == [rows |-> {}, group |-> 0, experiment |-> 0]

\* Room for another edit, read or fault.
Room == edits + reads + faults < MaxTurns

\* A faulty variant: only the form of a group id is checked.
AnyGroup(d, g) == g \in GroupIds

\* _validate_group_target
KnownGroup(d, g) == g # NoGroup => d.group[g] # 0

Rows == [id : Nat, cap : Captures, session : Sessions, group : GroupIds]

\* cursor, seen: where the list is and what it has shown; again: a capture twice.
NoList   == [pc |-> "none", filter |-> [kind |-> "ALL", of |-> NoGroup], cursor |-> 0,
             seen |-> {}, again |-> FALSE]

\* pin: the database at BEGIN; group, experiment: the versions in the manifest;
\* last: the id of the member written last; members: with the versions of each.
NoExport == [pc |-> "none", of |-> NoGroup, pin |-> NoPin, group |-> 0, experiment |-> 0,
             last |-> 0, members |-> {}]

Databases ==
    [archive : SUBSET Rows, lastId : Nat, decided : SUBSET Captures,
     rolling : [Sessions -> [cap : Captures \cup {0}, group : GroupIds]],
     policy : [session : Sessions \cup {0}, save : SavePolicies, group : GroupIds],
     state : [Sessions -> {"NONE", "RUNNING", "ENDED"}],
     experiment : [Experiments -> Nat], group : [Groups -> Nat],
     home : [Groups -> Experiments \cup {NoGroup}]]

Lists == [pc : {"none", "more", "done"}, filter : Filters \cup {NoList.filter}, cursor : Nat,
          seen : SUBSET Captures, again : BOOLEAN]

Members == [cap : Captures, group : Nat, experiment : Nat]
Exports == [pc : {"none", "experiment", "members", "done"}, of : GroupIds,
            pin : [rows : SUBSET Rows, group : Nat, experiment : Nat],
            group : Nat, experiment : Nat, last : Nat, members : SUBSET Members]

\* What every variable may hold.
TypeOK ==
    /\ db \in Databases
    /\ task \in [Sessions -> [kind : {"NONE", "SINGLE", "RUN"}, save : SavePolicies,
                              group : GroupIds]]
    /\ phase \in [Sessions -> Phases] /\ overtaken \subseteq Sessions
    /\ up \in BOOLEAN /\ asked \subseteq Sessions /\ taken \in Nat
    /\ spool \in [cap : Captures \cup {0}, session : Sessions \cup {0}]
    /\ taker \in [Captures -> Sessions \cup {0}]
    /\ list \in Lists /\ exp \in Exports
    /\ moved \in [Captures -> SUBSET GroupIds] /\ steady \subseteq Captures
    /\ edits \in Nat /\ reads \in Nat /\ faults \in Nat

Init ==
    /\ db = [archive |-> {}, lastId |-> 0, decided |-> {},
             rolling |-> [s \in Sessions |-> NoRoll], policy |-> NoPolicy,
             state |-> [s \in Sessions |-> "NONE"],
             experiment |-> [e \in Experiments |-> 0], group |-> [g \in Groups |-> 0],
             home |-> [g \in Groups |-> NoGroup]]
    /\ task = [s \in Sessions |-> NoTask]
    /\ phase = [s \in Sessions |-> "new"] /\ overtaken = {}
    /\ up = TRUE /\ asked = {} /\ taken = 0 /\ spool = NoSpool
    /\ taker = [c \in Captures |-> 0]
    /\ list = NoList /\ exp = NoExport
    /\ moved = [c \in Captures |-> {}] /\ steady = {}
    /\ edits = 0 /\ reads = 0 /\ faults = 0

-----------------------------------------------------------------------------
(* Transactions on experiments and groups. *)

Archived(d) == {r.cap : r \in d.archive}

\* assign_capture_group: every capture of the batch is checked before the first
\* row changes.
CanAssign(d, S, g) == KnownGroup(d, g) /\ S # {} /\ S \subseteq Archived(d)

AssignGroup(d, S, g) ==
    [d EXCEPT !.archive = {IF r.cap \in S THEN [r EXCEPT !.group = g] ELSE r : r \in @}]

\* A faulty variant: the upsert leaves the group of an earlier task.
RegisterKeepsGroup(d, s, save, g) ==
    [d EXCEPT !.policy = [session |-> s, save |-> save,
                          group |-> IF d.policy = NoPolicy THEN g ELSE @.group]]

\* register_delivery_policy: one row per device and boot.
RegisterPolicy(d, s, save, g) ==
    [d EXCEPT !.policy = [session |-> s, save |-> save, group |-> g]]

\* unregister_delivery_policy: only the row of this session.
UnregisterPolicy(d, s) ==
    IF d.policy.session = s THEN [d EXCEPT !.policy = NoPolicy] ELSE d

-----------------------------------------------------------------------------
(* Transactions that file a capture. *)

\* _archive_delivery: a row that is there stays as it is; row ids are never given twice.
ArchiveDelivery(d, c, s, g) ==
    IF c \in Archived(d) THEN d
    ELSE [d EXCEPT !.archive = @ \cup {[id |-> d.lastId + 1, cap |-> c,
                                        session |-> s, group |-> g]},
                   !.lastId = @ + 1]

Decided(d, c) == [d EXCEPT !.decided = @ \cup {c}]

\* commit_delivery: an earlier decision stands, whatever the caller brings.
CommitDelivery(d, c, s, save, g) ==
    IF c \in d.decided THEN d
    ELSE CASE save = "SAVE_ALL"  -> Decided(ArchiveDelivery(d, c, s, g), c)
           [] save = "SAVE_LAST" -> Decided([d EXCEPT !.rolling[s] = [cap |-> c, group |-> g]], c)
           [] save = "SAVE_NONE" -> Decided(d, c)

\* _finalize_latest_capture_in_connection: the rolling row has its own group.
FinalizeLatest(d, s) ==
    IF d.rolling[s] = NoRoll THEN d
    ELSE ArchiveDelivery([d EXCEPT !.rolling[s] = NoRoll], d.rolling[s].cap, s, d.rolling[s].group)

\* finalize_session_summary
FinalizeSession(d, s, save) ==
    [(IF save = "SAVE_LAST" THEN FinalizeLatest(d, s) ELSE d) EXCEPT !.state[s] = "ENDED"]

\* _commit_terminal_replay: a late frame of a SAVE_LAST task replaces its row.
TerminalReplay(d, c, s, save, g) ==
    LET room  == IF save = "SAVE_LAST"
                 THEN [d EXCEPT !.archive = {r \in @ : r.session # s}] ELSE d
        filed == IF save = "SAVE_NONE" THEN room ELSE ArchiveDelivery(room, c, s, g)
    IN  FinalizeSession(Decided(filed, c), s, save)

\* commit_replayed_delivery; without an earlier decision and without a policy it
\* raises.
CanReplay(d, c) == c \in d.decided \/ d.policy # NoPolicy

CommitReplayed(d, c) ==
    LET p == d.policy IN
    IF c \in d.decided THEN d
    ELSE IF d.state[p.session] = "ENDED" THEN TerminalReplay(d, c, p.session, p.save, p.group)
    ELSE CommitDelivery(d, c, p.session, p.save, p.group)

-----------------------------------------------------------------------------
(* Queries. *)

\* The filters of list_captures, over the joins with group and experiment.
Matches(d, f, r) ==
    CASE f.kind = "ALL"        -> TRUE
      [] f.kind = "GROUP"      -> r.group = f.of
      [] f.kind = "EXPERIMENT" -> r.group # NoGroup /\ d.home[r.group] = f.of
      [] f.kind = "SESSION"    -> r.session = f.of
      [] f.kind = "UNGROUPED"  -> r.group = NoGroup

\* A list by something that is not there is refused.
CanList(d, f) ==
    /\ f.kind = "GROUP" => d.group[f.of] # 0
    /\ f.kind = "EXPERIMENT" => d.experiment[f.of] # 0

\* The rows of a page: WHERE row_id > cursor ORDER BY row_id LIMIT n.
After(d, f, cursor) == {r \in d.archive : r.id > cursor /\ Matches(d, f, r)}

FirstOf(R, n) == {r \in R : Cardinality({q \in R : q.id <= r.id}) <= n}

LastId(R) == (CHOOSE r \in R : \A q \in R : q.id <= r.id).id

-----------------------------------------------------------------------------
(* Operators. *)

\* A transaction commits.
Commit(new) ==
    /\ db' = new
    /\ steady' = IF list.pc # "more" THEN steady
                 ELSE {r.cap : r \in {q \in new.archive :
                         /\ Matches(new, list.filter, q)
                         /\ q.cap \in steady \/ q.cap \notin Archived(db)}}

CreateExperiment(e) ==
    /\ db.experiment[e] = 0
    /\ Commit([db EXCEPT !.experiment[e] = 1])
    /\ UNCHANGED <<taskVars, up, deviceVars, list, exp, moved, bounds>>

\* A group belongs to one experiment, which update_group cannot change.
CreateGroup(g, e) ==
    /\ db.group[g] = 0 /\ db.experiment[e] # 0
    /\ Commit([db EXCEPT !.group[g] = 1, !.home[g] = e])
    /\ UNCHANGED <<taskVars, up, deviceVars, list, exp, moved, bounds>>

\* update_experiment and update_group
UpdateExperiment(e) ==
    /\ db.experiment[e] # 0 /\ edits < MaxEdits /\ Room /\ edits' = edits + 1
    /\ Commit([db EXCEPT !.experiment[e] = @ + 1])
    /\ UNCHANGED <<taskVars, up, deviceVars, list, exp, moved, reads, faults>>

UpdateGroup(g) ==
    /\ db.group[g] # 0 /\ edits < MaxEdits /\ Room /\ edits' = edits + 1
    /\ Commit([db EXCEPT !.group[g] = @ + 1])
    /\ UNCHANGED <<taskVars, up, deviceVars, list, exp, moved, reads, faults>>

Assign(S, g) ==
    /\ CanAssign(db, S, g) /\ edits < MaxEdits /\ Room /\ edits' = edits + 1
    /\ Commit(AssignGroup(db, S, g))
    /\ moved' = [c \in Captures |-> IF c \in S THEN {g} ELSE moved[c]]
    /\ UNCHANGED <<taskVars, up, deviceVars, list, exp, reads, faults>>

-----------------------------------------------------------------------------
(* Tasks and their captures. *)

\* Session ids are given in the order of the requests.
Fresh(s) == phase[s] = "new" /\ \A r \in Sessions : r < s => phase[r] # "new"

\* No run is active or, under the session lock, about to be: what _require_idle
\* and the start of a run look at.  Single captures do not count.
Idle == \A s \in Sessions : task[s].kind = "RUN" => phase[s] \notin {"registered", "begun"}

Undecided == spool # NoSpool /\ spool.cap \notin db.decided

\* A task whose captures are not all decided, or not all taken.
Unfinished(s) ==
    \/ s \in asked \/ phase[s] \in {"registered", "begun"}
    \/ Undecided /\ spool.session = s

\* capture_once freezes the group and checks that the core is idle; then it
\* gives the session lock back.  A single capture is its own last one.
CheckSingle(s, m, g) ==
    /\ m.kind = "SINGLE" /\ Fresh(s) /\ up /\ Idle /\ KnownGroup(db, g)
    /\ task' = [task EXCEPT ![s] = [kind |-> m.kind, group |-> g,
                   save |-> IF m.save = "SAVE_LAST" THEN "SAVE_ALL" ELSE m.save]]
    /\ phase' = [phase EXCEPT ![s] = "checked"]
    /\ UNCHANGED <<db, overtaken, up, deviceVars, list, exp, moved, steady, bounds>>

\* The policy of a task takes the place of the one that is registered for the
\* published boot, whatever may still be filed under that.
Registered(s, save, g) ==
    /\ up /\ phase' = [phase EXCEPT ![s] = "registered"]
    /\ overtaken' = overtaken \cup {t \in Sessions \ {s} : Unfinished(t)}
    /\ Commit(RegisterPolicy(db, s, save, g))
    /\ UNCHANGED <<up, taken, spool, taker, list, exp, moved, bounds>>

\* _register_delivery_policy of a single capture, which has no lock any more.
RegisterSingle(s) ==
    /\ phase[s] = "checked"
    /\ Registered(s, task[s].save, task[s].group)
    /\ UNCHANGED <<task, asked>>

\* A run registers under the session lock and then tells the device.
RegisterRun(s, m, g) ==
    /\ m.kind = "RUN" /\ Fresh(s) /\ Idle /\ KnownGroup(db, g)
    /\ task' = [task EXCEPT ![s] = [kind |-> m.kind, save |-> m.save, group |-> g]]
    /\ asked' = asked \cup {s}
    /\ Registered(s, m.save, g)

\* The row of the session: a run gets it once the device has accepted it, a
\* single capture before it asks the device.
Begin(s) ==
    /\ phase[s] = "registered" /\ phase' = [phase EXCEPT ![s] = "begun"]
    /\ Commit([db EXCEPT !.state[s] = "RUNNING"])
    /\ asked' = IF task[s].kind = "SINGLE" THEN asked \cup {s} ELSE asked
    /\ UNCHANGED <<task, overtaken, up, taken, spool, taker, list, exp, moved, bounds>>

\* The except clause of a run the device refused, or was not asked because a
\* delivery is pending; without a client it does not get to the policy.
StartFails(s) ==
    /\ phase[s] = "registered" /\ task[s].kind = "RUN"
    /\ up /\ s \in asked => \A c \in Captures : taker[c] # s
    /\ phase' = [phase EXCEPT ![s] = "over"]
    /\ Commit(IF up THEN UnregisterPolicy(db, s) ELSE db)
    /\ asked' = IF up THEN asked \ {s} ELSE asked
    /\ UNCHANGED <<task, overtaken, up, taken, spool, taker, list, exp, moved, bounds>>

\* The device takes a capture and the bridge stores it, also when the core has
\* ended the task and the device does not know.
Take(s) ==
    /\ spool = NoSpool /\ taken + 1 \in Captures
    /\ s \in asked \/ (task[s].kind = "SINGLE" /\ phase[s] = "begun")
    /\ task[s].kind = "SINGLE" => \A c \in Captures : taker[c] # s
    /\ taken' = taken + 1 /\ spool' = [cap |-> taken + 1, session |-> s]
    /\ taker' = [taker EXCEPT ![taken + 1] = s]
    /\ UNCHANGED <<db, taskVars, up, asked, list, exp, moved, steady, bounds>>

\* _persist_capture by the running task.
Persist ==
    /\ up /\ Undecided /\ phase[spool.session] = "begun"
    /\ LET t == task[spool.session] IN
       Commit(CommitDelivery(db, spool.cap, spool.session, t.save, t.group))
    /\ UNCHANGED <<taskVars, up, deviceVars, list, exp, moved, bounds>>

\* A restarted core has closed what it found running.
Reconciled == \A s \in Sessions : db.state[s] = "RUNNING" => phase[s] = "begun"

\* The replay of the spool on a new connection, again when its receipt was lost;
\* or on the published one, for a capture whose task has no handler any more.
Replay ==
    /\ spool # NoSpool /\ (up => phase[spool.session] = "over")
    /\ Reconciled /\ CanReplay(db, spool.cap)
    /\ Commit(CommitReplayed(db, spool.cap))
    /\ UNCHANGED <<taskVars, up, deviceVars, list, exp, moved, bounds>>

\* The receipt reaches the bridge.
Receipt ==
    /\ spool.cap \in db.decided /\ spool' = NoSpool
    /\ UNCHANGED <<db, taskVars, up, asked, taken, taker, list, exp, moved, steady, bounds>>

\* A task ends: its device work is done, unless the connection is gone or the
\* task fails over a delivery that stays pending in the client.
EndTask(s) ==
    /\ phase[s] = "begun" /\ phase' = [phase EXCEPT ![s] = "over"]
    /\ Commit(FinalizeSession(db, s, task[s].save))
    /\ asked' = IF up /\ ~Undecided THEN asked \ {s} ELSE asked
    /\ UNCHANGED <<task, overtaken, up, taken, spool, taker, list, exp, moved, bounds>>

\* A broken link, or the commit timeout of the bridge over a pending delivery.
Disconnect ==
    /\ up /\ up' = FALSE
    /\ \/ faults < MaxFaults /\ Room /\ faults' = faults + 1
       \/ Undecided /\ phase[spool.session] = "over" /\ UNCHANGED faults
    /\ UNCHANGED <<db, taskVars, deviceVars, list, exp, moved, steady, edits, reads>>

\* Another session of the device, whose boot has no policy yet.
Reconnect ==
    /\ ~up /\ spool = NoSpool /\ Reconciled /\ up' = TRUE
    /\ asked' = {} /\ Commit([db EXCEPT !.policy = NoPolicy])
    /\ UNCHANGED <<taskVars, taken, spool, taker, list, exp, moved, bounds>>

\* The core dies; readers are cut off.
CoreCrash ==
    /\ faults < MaxFaults /\ Room /\ faults' = faults + 1 /\ up' = FALSE
    /\ phase' = [s \in Sessions |-> IF phase[s] = "new" THEN "new" ELSE "over"]
    /\ list' = NoList /\ exp' = NoExport
    /\ UNCHANGED <<db, task, overtaken, deviceVars, moved, steady, edits, reads>>

\* reconcile_interrupted_sessions of the next core, by the save policy in the
\* summary of each task that ran.
Reconcile(s) ==
    /\ db.state[s] = "RUNNING" /\ phase[s] = "over"
    /\ Commit(FinalizeSession(db, s, task[s].save))
    /\ UNCHANGED <<taskVars, up, deviceVars, list, exp, moved, bounds>>

-----------------------------------------------------------------------------
(* Readers. *)

\* list_captures from the start.
StartList(f) ==
    /\ list.pc # "more" /\ reads < MaxReads /\ Room /\ reads' = reads + 1
    /\ CanList(db, f)
    /\ list' = [NoList EXCEPT !.pc = "more", !.filter = f]
    /\ steady' = {r.cap : r \in After(db, f, 0)}
    /\ UNCHANGED <<db, taskVars, up, deviceVars, exp, moved, edits, faults>>

\* A faulty variant: the cursor is that of the row that shows there is more.
CursorOfExtraRow(R) == LastId(FirstOf(R, Limit + 1))

\* next_cursor
NextCursor(R) == LastId(FirstOf(R, Limit))

\* The next page: one row more than the limit is read to see if there is more.
ReadPage ==
    /\ list.pc = "more"
    /\ LET R    == After(db, list.filter, list.cursor)
           page == {r.cap : r \in FirstOf(R, Limit)}
           more == Cardinality(R) > Limit
       IN  list' = [list EXCEPT !.pc = IF more THEN "more" ELSE "done",
                                !.cursor = IF more THEN NextCursor(R) ELSE @,
                                !.seen = @ \cup page,
                                !.again = @ \/ page \cap list.seen # {}]
    /\ UNCHANGED <<db, taskVars, up, deviceVars, exp, moved, steady, bounds>>

\* A faulty variant: every statement of an export sees the newest database.
NewestView(x) ==
    [rows |-> db.archive, group |-> db.group[x.of], experiment |-> db.experiment[db.home[x.of]]]

\* What the connection of an export sees: the snapshot its transaction pins.
View(x) == x.pin

\* group_export_snapshot: BEGIN and the row of the group, which pins the snapshot.
OpenExport(g) ==
    /\ exp.pc = "none" /\ db.group[g] # 0 /\ reads < MaxReads /\ Room /\ reads' = reads + 1
    /\ exp' = [NoExport EXCEPT !.pc = "experiment", !.of = g, !.group = db.group[g],
                  !.pin = [rows |-> db.archive, group |-> db.group[g],
                           experiment |-> db.experiment[db.home[g]]]]
    /\ UNCHANGED <<db, taskVars, up, deviceVars, list, moved, steady, edits, faults>>

\* The row of its experiment.
ExportExperiment ==
    /\ exp.pc = "experiment"
    /\ exp' = [exp EXCEPT !.pc = "members", !.experiment = View(exp).experiment]
    /\ UNCHANGED <<db, taskVars, up, deviceVars, list, moved, steady, bounds>>

\* A member's metadata: its group and experiment as the row's query joins them.
Member(r, v) == [cap |-> r.cap, group |-> v.group, experiment |-> v.experiment]

\* One member, or the manifest after the last of them.
ExportNext ==
    /\ exp.pc = "members"
    /\ LET v    == View(exp)
           left == {r \in v.rows : r.group = exp.of /\ r.id > exp.last}
       IN  \/ left = {} /\ exp' = [exp EXCEPT !.pc = "done"]
           \/ \E r \in FirstOf(left, 1) :
                 exp' = [exp EXCEPT !.last = r.id, !.members = @ \cup {Member(r, v)}]
    /\ UNCHANGED <<db, taskVars, up, deviceVars, list, moved, steady, bounds>>

-----------------------------------------------------------------------------
Next ==
    \/ \E e \in Experiments : CreateExperiment(e) \/ UpdateExperiment(e)
    \/ \E g \in Groups : UpdateGroup(g) \/ OpenExport(g) \/ \E e \in Experiments : CreateGroup(g, e)
    \/ \E S \in SUBSET Captures, g \in GroupIds : Assign(S, g)
    \/ \E s \in Sessions, m \in Menu, g \in GroupIds : CheckSingle(s, m, g) \/ RegisterRun(s, m, g)
    \/ \E s \in Sessions :
          RegisterSingle(s) \/ Begin(s) \/ StartFails(s) \/ Take(s) \/ EndTask(s) \/ Reconcile(s)
    \/ Persist \/ Replay \/ Receipt \/ Disconnect \/ Reconnect \/ CoreCrash
    \/ \E f \in Filters : StartList(f)
    \/ ReadPage \/ ExportExperiment \/ ExportNext

Spec == Init /\ [][Next]_vars

-----------------------------------------------------------------------------
(* Properties. *)

\* Session s and group g are where capture c belongs.
FiledFor(c, s, g) ==
    /\ g \in (IF moved[c] = {} THEN {task[s].group} ELSE moved[c])
    /\ s = taker[c] \/ taker[c] \in overtaken

\* A row is in the group an operator put it in last, or else in the group that
\* was frozen for the session it is filed under: late, repeated and replayed
\* deliveries, later tasks, restarts and the step from the rolling row to the
\* archive change nothing of it (_archive_delivery, commit_replayed_delivery).
\* That session is the one the capture was taken for, unless another task
\* registered its policy while this one still had captures to come: a single
\* capture that was past its idle check, or a run that did not look for it.
GroupAsFrozen == \A r \in db.archive : FiledFor(r.cap, r.session, r.group)

\* A list that was read to its end has shown every capture that matched since the
\* list began or since it was filed, and none of them twice, whatever was filed,
\* superseded and regrouped between the pages (list_captures, "one stable page").
ListIsComplete ==
    /\ ~list.again
    /\ list.pc = "done" => steady \subseteq list.seen

\* A finished export holds exactly the members its group had at one instant, and
\* the manifest and every member name group and experiment as they were at that
\* instant (group_export_snapshot, write_group_export).
ExportIsOneInstant ==
    exp.pc = "done" =>
        /\ exp.group = exp.pin.group /\ exp.experiment = exp.pin.experiment
        /\ exp.members = {[cap |-> r.cap, group |-> exp.group, experiment |-> exp.experiment] :
                             r \in {q \in exp.pin.rows : q.group = exp.of}}

-----------------------------------------------------------------------------
(* Parts of the inductive invariant that carries the properties above.      *)

\* No reference to a group that does not exist.
GroupThere(d, g) == g = NoGroup \/ d.group[g] # 0

\* A database in which a row id names one row and so does a capture, and what
\* rows, groups and policies refer to is there, though no foreign key checks it.
RowsKeyed(d) ==
    /\ \A r, q \in d.archive : r.id = q.id \/ r.cap = q.cap => r = q
    /\ \A r \in d.archive : r.id \in 1 .. d.lastId /\ GroupThere(d, r.group)
    /\ GroupThere(d, d.policy.group)
    /\ \A g \in Groups : d.group[g] # 0 =>
          d.home[g] \in Experiments /\ d.experiment[d.home[g]] # 0

\* The sessions and groups a capture may be filed under: only sessions that
\* were asked for.
Homes == [c \in Captures |->
            {h \in Sessions \X GroupIds : phase[h[1]] # "new" /\ FiledFor(c, h[1], h[2])}]

\* Only decided captures are filed, only taken ones decided, w being the homes
\* of each and n the number taken; a rolling capture is filed nowhere else.
Filing(d, w, n) ==
    /\ \A r \in d.archive : r.cap \in d.decided /\ <<r.session, r.group>> \in w[r.cap]
    /\ \A c \in d.decided : c <= n
    /\ \A s \in Sessions : d.rolling[s] # NoRoll =>
         /\ d.rolling[s].cap \in d.decided
         /\ <<s, d.rolling[s].group>> \in w[d.rolling[s].cap] /\ GroupThere(d, d.rolling[s].group)
         /\ \A r \in d.archive : r.cap # d.rolling[s].cap
         /\ \A q \in Sessions : q # s => d.rolling[q].cap # d.rolling[s].cap

StoreGood(d, w, n) == d \in Databases /\ RowsKeyed(d) /\ Filing(d, w, n)

\* A task is frozen before it is registered, and its group stays there.
TasksFrozen ==
    /\ \A s \in Sessions : GroupThere(db, task[s].group)
    /\ \A s \in Sessions : phase[s] = "new" => s # db.policy.session /\ s \notin asked
    /\ db.policy # NoPolicy =>
         /\ db.policy.session \in Sessions
         /\ db.policy.save = task[db.policy.session].save
         /\ db.policy.group = task[db.policy.session].group

\* A task with captures to come has its policy, or there is none, or another
\* one has registered over it.
PolicyIsOwn ==
    \A s \in Sessions : Unfinished(s) => db.policy.session \in {s, 0} \/ s \in overtaken

SpoolIsTaken ==
    /\ spool # NoSpool =>
         /\ spool.cap \in Captures /\ spool.cap <= taken
         /\ spool.session \in Sessions /\ spool.session = taker[spool.cap]
         /\ phase[spool.session] # "new"
    /\ \A c \in Captures : c > taken => taker[c] = 0
    /\ \A c \in Captures : moved[c] # {} => c \in db.decided

\* While a list is read: up to its cursor it has shown what it must, and what
\* it has shown comes nowhere after it, nor ever will.
ListInv ==
    list.pc = "more" =>
      /\ list.cursor <= db.lastId
      /\ list.seen \subseteq db.decided
      /\ \A s \in Sessions : db.rolling[s].cap \notin list.seen
      /\ steady \subseteq Archived(db)
      /\ \A r \in db.archive :
           /\ r.cap \in list.seen => r.id <= list.cursor
           /\ r.cap \in steady => Matches(db, list.filter, r)
           /\ r.cap \in steady /\ r.id <= list.cursor => r.cap \in list.seen

\* An export has written the members of its snapshot up to the last one.
ExportInv ==
    LET member(r) == [cap |-> r.cap, group |-> exp.pin.group, experiment |-> exp.pin.experiment] IN
    /\ exp.group = exp.pin.group
    /\ exp.pc \in {"members", "done"} => exp.experiment = exp.pin.experiment
    /\ IsFiniteSet(exp.pin.rows)
    /\ \A r, q \in exp.pin.rows : r.id = q.id => r = q
    /\ \A r \in exp.pin.rows : r.id > 0
    /\ exp.members = {member(r) : r \in {q \in exp.pin.rows : q.group = exp.of /\ q.id <= exp.last}}
    /\ exp.pc = "done" => \A r \in exp.pin.rows : r.group = exp.of => r.id <= exp.last

CatalogInv ==
    /\ TypeOK
    /\ StoreGood(db, Homes, taken)
    /\ TasksFrozen
    /\ PolicyIsOwn
    /\ SpoolIsTaken
    /\ ListIsComplete
    /\ ListInv
    /\ ExportInv
=============================================================================
