---------------------------- MODULE CoreSessions ----------------------------
(***************************************************************************)
(* The acquisition sessions of the core: start_periodic, the periodic       *)
(* worker, stop_periodic, capture_once and their captures, over the         *)
(* database of CoreStore, while the bridge reconnects and the core crashes. *)
(*                                                                          *)
(* The executor lock admits one device operation at a time (io).  While an  *)
(* operation waits for its answer it takes in the captures that come first. *)
(* The device and the bridge are seen through what BridgeDelivery shows of  *)
(* them: one undecided capture at a time (spool), replayed on the next      *)
(* connection before that is published.                                     *)
(***************************************************************************)
EXTENDS CoreStore

CONSTANTS
    Menu,           \* what clients ask for: kind, save policy and number of captures,
                    \* 0 for no limit
    MaxFaults       \* bound on lost connections and core crashes

ASSUME SessionConstants ==
    /\ Menu \subseteq [kind : {"PERIODIC", "SINGLE"}, save : SavePolicies, limit : Nat]
    /\ MaxFaults \in Nat
    /\ 1 \in Boots

VARIABLES
    db,         \* the database
    \* device and bridge
    taken,      \* captures taken so far
    sched,      \* session whose schedule the device runs, 0 for none
    fired,      \* captures that schedule has taken
    spool,      \* the frame the bridge holds, or NoFrame
    boot,       \* boot session of the newest connection
    acc,        \* acceptor: "idle", "replay", "receipt" or "ready"
    link,       \* published client: "up", "dead" (not noticed yet) or "down"
    stuck,      \* the client holds a pending delivery that no thread will decide
    \* core, volatile
    plan,       \* plan[s]: kind, save policy and limit of session s
    pc,         \* pc[s]: the thread of start_periodic or capture_once
    wpc,        \* wpc[s]: the periodic worker
    spc,        \* spc[s]: the thread of stop_periodic
    mem,        \* mem[s]: the session object
    listed,     \* _sessions
    slock,      \* holder of _session_lock, 0 for none
    handler,    \* session whose capture handler the client has, 0 for none
    io,         \* the device operation under way
    \* history and bound
    asker,      \* asker[c]: the session whose request led to capture c, 0 before it
    owner,      \* owner[c]: the session a capture was decided for, 0 for none
    live,       \* captures decided by the thread that took them in, not by a replay
    faults

devVars  == <<taken, sched, fired, spool, asker>>
linkVars == <<boot, acc, link, stuck>>
thrVars  == <<plan, pc, wpc, spc>>
histVars == <<owner, live>>
vars == <<db, devVars, linkVars, thrVars, mem, listed, slock, handler, io, histVars, faults>>

-----------------------------------------------------------------------------
Ops == {"START", "RENEW", "POLL", "STOP", "ABORT", "ONCE", "QUERY"}

\* pc: where the operation is; sess: whose it is; frame, via: the capture it
\* takes in and the session that persists it (0: the replay path), with the
\* resolution the store returned; boot: the client it speaks to.
NoIo == [op |-> "QUERY", sess |-> 0, pc |-> "free", frame |-> NoFrame, via |-> 0,
         res |-> "RAW_ARCHIVED", boot |-> 0]
Ios  == [op : Ops, sess : Sessions \cup {0},
         pc : {"free", "sent", "answered", "stage", "commit", "record", "confirm"},
         frame : AllFrames \cup {NoFrame}, via : Sessions \cup {0}, res : Resolutions,
         boot : Boots \cup {0}]

Plans  == [kind : {"PERIODIC", "SINGLE"}, save : SavePolicies, limit : Nat,
           boot : Boots \cup {0}]
NoPlan == [kind |-> "SINGLE", save |-> "SAVE_NONE", limit |-> 0, boot |-> 0]

Objects == [state : {"NONE"} \cup Active \cup Terminal, count : Nat, saved : Nat,
            discarded : Nat, last : Nat, lastSaved : Nat, stop : BOOLEAN]
NoObject == [state |-> "NONE", count |-> 0, saved |-> 0, discarded |-> 0, last |-> 0,
             lastSaved |-> 0, stop |-> FALSE]

ThreadPcs == {"new", "checked", "registered", "saved", "io", "wait", "cleanup", "started", "captured", "failed",
              "cut", "done"}
WorkerPcs == {"none", "top", "renew", "poll", "wait", "tail", "error", "abort",
              "aborted", "exit", "done"}
StopPcs   == {"none", "io", "wait", "ok", "failed", "clear", "done"}

TypeOK ==
    /\ db \in Databases
    /\ taken \in Nat /\ sched \in Sessions \cup {0} /\ fired \in Nat /\ spool \in AllFrames \cup {NoFrame}
    /\ boot \in Boots /\ acc \in {"idle", "replay", "receipt", "ready"}
    /\ link \in {"up", "dead", "down"} /\ stuck \in BOOLEAN
    /\ plan \in [Sessions -> Plans] /\ pc \in [Sessions -> ThreadPcs]
    /\ wpc \in [Sessions -> WorkerPcs] /\ spc \in [Sessions -> StopPcs]
    /\ mem \in [Sessions -> Objects] /\ listed \subseteq Sessions
    /\ slock \in Sessions \cup {0} /\ handler \in Sessions \cup {0} /\ io \in Ios
    /\ asker \in [Captures -> Sessions \cup {0}] /\ owner \in [Captures -> Sessions \cup {0}] /\ live \subseteq Captures
    /\ faults \in Nat

Init ==
    /\ db = EmptyStore
    /\ taken = 0 /\ sched = 0 /\ fired = 0 /\ spool = NoFrame
    /\ boot = 1 /\ acc = "idle" /\ link = "up" /\ stuck = FALSE
    /\ plan = [s \in Sessions |-> NoPlan]
    /\ pc = [s \in Sessions |-> "new"]
    /\ wpc = [s \in Sessions |-> "none"] /\ spc = [s \in Sessions |-> "none"]
    /\ mem = [s \in Sessions |-> NoObject] /\ listed = {}
    /\ slock = 0 /\ handler = 0 /\ io = NoIo
    /\ asker = [c \in Captures |-> 0] /\ owner = [c \in Captures |-> 0] /\ live = {}
    /\ faults = 0

\* The first unused session id.
Fresh(s) == pc[s] = "new" /\ \A r \in Sessions : r < s => pc[r] # "new"

\* A core that starts closes the sessions the last one left, before anything else.
Starting == \E s \in Sessions : pc[s] = "cut"

Busy == \E s \in listed : mem[s].state \in Active

Go(p, s, where) == [p EXCEPT ![s] = where]

\* The summary of a session as the object has it.
Payload(o) == [state |-> o.state, acquired |-> o.count, saved |-> o.saved,
               discarded |-> o.discarded, last |-> o.last, lastSaved |-> o.lastSaved]

\* _finish_session_locked: the database decides the counts.
Finish(s, state) ==
    LET d == FinalizeSummary(db, s, state, plan[s].save)
        r == d.summary[s]
    IN  /\ db' = d
        /\ mem' = [mem EXCEPT ![s] = [@ EXCEPT !.state = state, !.count = r.acquired,
                                               !.saved = r.saved, !.discarded = r.discarded,
                                               !.lastSaved = r.lastSaved]]

\* An operation starts: it has the executor and speaks to the current client.
Begin(op, s) ==
    /\ io.pc = "free"
    /\ io' = [NoIo EXCEPT !.op = op, !.sess = s, !.pc = "sent", !.boot = boot]

\* Inside a call of the reconnectable proxy.  The persistence of a polled or a
\* requested capture is not one.
Locked ==
    \/ io.pc \in {"sent", "answered", "confirm"}
    \/ io.pc \in {"stage", "commit", "record"}
       /\ ~(io.op = "POLL" \/ (io.op = "ONCE" /\ io.via = io.sess))

-----------------------------------------------------------------------------
(* Device, bridge and acceptor. *)

\* A capture is taken for session s.
Take(s) ==
    /\ taken + 1 \in Captures
    /\ taken' = taken + 1
    /\ spool' = [cap |-> taken + 1, req |-> s, boot |-> boot]
    /\ asker' = [asker EXCEPT ![taken + 1] = s]

\* A due capture of the schedule; the last one ends it.
PeriodicCapture ==
    /\ sched # 0 /\ spool = NoFrame
    /\ Take(sched)
    /\ IF plan[sched].limit = fired + 1 THEN sched' = 0 /\ fired' = 0
       ELSE fired' = fired + 1 /\ UNCHANGED sched
    /\ UNCHANGED <<db, linkVars, thrVars, mem, listed, slock, handler, io, histVars, faults>>

\* The lease runs out, the device meets a fault, or DTR falls.
ScheduleEnds ==
    /\ sched # 0 /\ sched' = 0 /\ fired' = 0
    /\ UNCHANGED <<db, taken, spool, asker, linkVars, thrVars, mem, listed, slock, handler, io,
                   histVars, faults>>

\* The bridge session ends under a published client.
BridgeLost ==
    /\ link = "up" /\ faults < MaxFaults
    /\ link' = "dead" /\ sched' = 0 /\ fired' = 0 /\ faults' = faults + 1
    /\ UNCHANGED <<db, taken, spool, asker, boot, acc, stuck, thrVars, mem, listed, slock, handler,
                   io, histVars>>

\* The acceptor has a new connection.
Connect ==
    /\ acc = "idle" /\ link # "up" /\ sched = 0 /\ boot + 1 \in Boots /\ ~Starting
    /\ acc' = IF spool = NoFrame THEN "ready" ELSE "replay"
    /\ UNCHANGED <<db, devVars, boot, link, stuck, thrVars, mem, listed, slock, handler, io, histVars,
                   faults>>

\* The session a decision about frame f goes to, if it is made now.
Decider(f, s) == IF Decided(db, f.cap) THEN owner ELSE [owner EXCEPT ![f.cap] = s]

Replay ==
    /\ acc = "replay" /\ CanReplay(db, spool)
    /\ db' = CommitReplayed(db, spool)
    /\ owner' = Decider(spool, db.policy[spool.boot].session)
    /\ acc' = "receipt"
    /\ UNCHANGED <<devVars, boot, link, stuck, thrVars, mem, listed, slock, handler, io, live, faults>>

ReplayReceipt ==
    /\ acc = "receipt"
    /\ acc' = "ready" /\ spool' = NoFrame
    /\ UNCHANGED <<db, taken, sched, fired, asker, boot, link, stuck, thrVars, mem, listed, slock, handler, io,
                   histVars, faults>>

\* replace()
Publish ==
    /\ acc = "ready" /\ ~Locked
    /\ acc' = "idle" /\ link' = "up" /\ boot' = boot + 1 /\ handler' = 0 /\ stuck' = FALSE
    /\ UNCHANGED <<db, devVars, thrVars, mem, listed, slock, io, histVars, faults>>

-----------------------------------------------------------------------------
(* Device operations. *)

\* Where the threads go when operation io ends.
After(ok) ==
    LET s == io.sess IN
    /\ io' = NoIo
    /\ pc' = CASE io.op = "START" -> Go(pc, s, IF ok THEN "started" ELSE "cleanup")
               [] io.op = "ONCE"  -> Go(pc, s, IF ok THEN "captured" ELSE "failed")
               [] OTHER -> pc
    /\ wpc' = CASE io.op = "RENEW" -> Go(wpc, s, CASE ~ok -> "error"
                                              [] ok /\ mem[s].stop -> "exit"
                                              [] OTHER -> "poll")
                [] io.op = "POLL"  -> Go(wpc, s, IF ok THEN "tail" ELSE "error")
                [] io.op = "ABORT" -> Go(wpc, s, "aborted")
                [] OTHER -> wpc
    /\ spc' = IF io.op = "STOP" THEN Go(spc, s, IF ok THEN "ok" ELSE "failed") ELSE spc
    /\ UNCHANGED plan

Blocked == io.pc = "sent" /\ stuck /\ io.boot = boot /\ link # "down"

\* The client was replaced before its pending delivery was fetched.
Stale == ~Locked /\ io.boot # boot

\* The operation raises.  ConnectionError and TimeoutError unpublish the
\* client they come from; a wait may also time out on a working link.
IoFails ==
    /\ io.pc \in {"sent", "answered", "confirm"} \/ (io.pc = "commit" /\ Stale)
    /\ ~Blocked
    /\ \/ /\ io.boot = boot /\ link # "down"
          /\ link = "dead" \/ (faults < MaxFaults /\ (io.op = "POLL" => io.pc = "confirm"))
          /\ faults' = IF link = "up" THEN faults + 1 ELSE faults
          /\ link' = "down" /\ handler' = 0 /\ stuck' = FALSE
       \/ /\ io.boot # boot \/ link = "down"
          /\ UNCHANGED <<faults, link, handler, stuck>>
    /\ After(FALSE)
    /\ UNCHANGED <<db, devVars, boot, acc, mem, listed, slock, histVars>>

\* A client with a pending delivery sends no command and polls nothing; what
\* it raises is no loss of the connection.
BlockedIo ==
    /\ Blocked
    /\ After(io.op = "POLL")
    /\ UNCHANGED <<db, devVars, linkVars, mem, listed, slock, handler, histVars, faults>>

OnLine == link = "up" /\ io.boot = boot /\ ~stuck

\* What the device can carry out; CAPTURE_ONCE also while a schedule runs.
Accepts ==
    CASE io.op = "START" -> sched = 0
      [] io.op = "RENEW" -> sched = io.sess
      [] io.op \in {"STOP", "ABORT"} -> sched \in {0, io.sess}
      [] io.op \in {"ONCE", "POLL", "QUERY"} -> TRUE

\* The bridge holds commands and answers back while a capture is undecided.
Execute ==
    /\ io.pc = "sent" /\ OnLine /\ spool = NoFrame /\ Accepts
    /\ io' = [io EXCEPT !.pc = "answered"]
    /\ \/ io.op = "START" /\ sched' = io.sess /\ UNCHANGED <<taken, fired, spool, asker>>
       \/ /\ io.op = "ONCE"
          /\ Take(io.sess) /\ UNCHANGED <<sched, fired>>
    /\ UNCHANGED <<db, linkVars, thrVars, mem, listed, slock, handler, histVars, faults>>

\* An answer arrives.  START and a single capture are also refused for reasons
\* of their own, and a poll that finds nothing ends at once.
Reply ==
    /\ OnLine
    /\ \/ /\ io.pc = "sent" /\ spool = NoFrame
          /\ After(Accepts /\ io.op \notin {"START", "ONCE"})
          /\ IF io.op \in {"STOP", "ABORT"} /\ Accepts THEN sched' = 0 /\ fired' = 0
             ELSE UNCHANGED <<sched, fired>>
       \/ /\ io.pc = "answered" /\ io.op = "START"
          /\ After(TRUE) /\ UNCHANGED <<sched, fired>>
    /\ UNCHANGED <<db, taken, spool, asker, linkVars, mem, listed, slock, handler, histVars, faults>>

\* A capture arrives: polled, requested, or in front of the awaited answer,
\* where the handler of the running session takes its own captures and the
\* replay path all others.
TakeIn ==
    LET polled == io.op = "POLL" /\ io.pc = "sent"
        asked  == io.op = "ONCE" /\ io.pc = "answered"
        via    == IF polled \/ asked THEN io.sess ELSE IF handler = spool.req THEN handler ELSE 0
    IN
    /\ OnLine /\ spool # NoFrame
    /\ asked \/ io.pc = "sent"
    /\ (polled \/ asked) => spool.req = io.sess
    /\ io' = [io EXCEPT !.frame = spool, !.via = via,
                        !.pc = IF via = 0 THEN "commit" ELSE "stage"]
    /\ UNCHANGED <<db, devVars, linkVars, thrVars, mem, listed, slock, handler, histVars, faults>>

\* The handler of the polling session declines a capture of another schedule,
\* and nobody else looks at it.
Declined ==
    /\ OnLine /\ io.op = "POLL" /\ io.pc = "sent"
    /\ spool # NoFrame /\ spool.req # io.sess
    /\ stuck' = TRUE
    /\ After(TRUE)
    /\ UNCHANGED <<db, devVars, boot, acc, link, mem, listed, slock, handler, histVars, faults>>

\* _persist_capture, step by step: the configuration is staged,
Stage ==
    /\ io.pc = "stage"
    /\ db' = StageConfiguration(db, io.frame.req)
    /\ io' = [io EXCEPT !.pc = "commit"]
    /\ UNCHANGED <<devVars, linkVars, thrVars, mem, listed, slock, handler, histVars, faults>>

\* the decision is made durable, under the policy of the session or, on the
\* replay path, under the registered one,
Commit ==
    LET f == io.frame
        d == IF io.via = 0 THEN CommitReplayed(db, f)
             ELSE CommitDelivery(db, f, io.via, plan[io.via].save)
    IN
    /\ io.pc = "commit"
    /\ io.via = 0 => CanReplay(db, f)
    /\ db' = d
    /\ owner' = Decider(f, IF io.via = 0 THEN db.policy[f.boot].session ELSE io.via)
    /\ io' = [io EXCEPT !.pc = IF io.via = 0 THEN "confirm" ELSE "record",
                        !.res = Resolution(d, f.cap)]
    /\ live' = IF io.via = 0 \/ Decided(db, f.cap) THEN live ELSE live \cup {f.cap}
    /\ UNCHANGED <<devVars, linkVars, thrVars, mem, listed, slock, handler, faults>>

\* _record_capture on a session object
Counted(o, c, res) ==
    LET n == o.count + 1 IN
    [o EXCEPT !.count = n, !.last = c,
              !.saved = IF res = "RAW_ARCHIVED" THEN @ + 1 ELSE @,
              !.lastSaved = IF res = "RAW_ARCHIVED" THEN c ELSE @,
              !.discarded = CASE res = "RAW_ARCHIVED" -> @
                              [] res = "DISCARDED_BY_POLICY" -> @ + 1
                              [] res = "ROLLING_LATEST" -> n - 1]

\* the session counts it and saves its summary,
Record ==
    LET o == Counted(mem[io.via], io.frame.cap, io.res) IN
    /\ io.pc = "record"
    /\ mem' = [mem EXCEPT ![io.via] = o]
    /\ db' = SaveSummary(db, io.via, Payload(o))
    /\ io' = [io EXCEPT !.pc = "confirm"]
    /\ UNCHANGED <<devVars, linkVars, thrVars, listed, slock, handler, histVars, faults>>

\* and the bridge gets its receipt.
Confirm ==
    /\ io.pc = "confirm" /\ OnLine
    /\ spool' = NoFrame
    /\ IF io.op = "POLL" \/ (io.op = "ONCE" /\ io.via = io.sess)
       THEN After(TRUE)
       ELSE io' = [io EXCEPT !.pc = "sent", !.frame = NoFrame, !.via = 0, !.res = NoIo.res]
            /\ UNCHANGED thrVars
    /\ UNCHANGED <<db, taken, sched, fired, asker, linkVars, mem, listed, slock, handler, histVars,
                   faults>>

-----------------------------------------------------------------------------
(* start_periodic *)

\* Under _session_lock: no active session, a connected device, and the
\* configuration snapshot, which waits for the executor.
StartPeriodic(s, m) ==
    /\ m.kind = "PERIODIC"
    /\ Fresh(s) /\ slock = 0 /\ ~Busy /\ link # "down" /\ io.pc = "free"
    /\ plan' = [plan EXCEPT ![s] = [kind |-> m.kind, save |-> m.save, limit |-> m.limit,
                                     boot |-> 0]]
    /\ pc' = Go(pc, s, "checked")
    /\ slock' = s
    /\ UNCHANGED <<db, devVars, linkVars, wpc, spc, mem, listed, handler, io, histVars, faults>>

\* The policy is registered and the handler installed before the command.
StartRegister(s) ==
    /\ pc[s] = "checked" /\ plan[s].kind = "PERIODIC" /\ ~Locked
    /\ IF link = "down"
       THEN /\ pc' = Go(pc, s, "done") /\ slock' = 0
            /\ UNCHANGED <<db, plan, mem, handler>>
       ELSE /\ pc' = Go(pc, s, "io")
            /\ plan' = [plan EXCEPT ![s].boot = boot]
            /\ mem' = [mem EXCEPT ![s].state = "RUNNING"]
            /\ db' = RegisterPolicy(db, boot, s, plan[s].save)
            /\ handler' = s
            /\ UNCHANGED slock
    /\ UNCHANGED <<devVars, linkVars, wpc, spc, listed, io, histVars, faults>>

StartIo(s) ==
    /\ pc[s] = "io" /\ plan[s].kind = "PERIODIC"
    /\ Begin("START", s)
    /\ pc' = Go(pc, s, "wait")
    /\ UNCHANGED <<db, devVars, linkVars, plan, wpc, spc, mem, listed, slock, handler, histVars,
                   faults>>

\* The except clause, which gets no further than its first call while no
\* client is published.
StartCleanup(s) ==
    /\ pc[s] = "cleanup" /\ ~Locked
    /\ db' = IF link = "down" THEN db ELSE UnregisterPolicy(db, plan[s].boot, s)
    /\ handler' = IF handler = s THEN 0 ELSE handler
    /\ mem' = [mem EXCEPT ![s] = NoObject]
    /\ slock' = 0 /\ pc' = Go(pc, s, "done")
    /\ UNCHANGED <<devVars, linkVars, plan, wpc, spc, listed, io, histVars, faults>>

\* Only now does the session get a row in the database.
StartSave(s) ==
    /\ pc[s] = "started"
    /\ listed' = listed \cup {s}
    /\ db' = SaveSummary(db, s, Payload(mem[s]))
    /\ wpc' = Go(wpc, s, "top")
    /\ slock' = 0 /\ pc' = Go(pc, s, "done")
    /\ UNCHANGED <<devVars, linkVars, plan, spc, mem, handler, io, histVars, faults>>

-----------------------------------------------------------------------------
(* capture_once *)

\* A single capture is its own last one.
OnceStorage(save) == IF save = "SAVE_LAST" THEN "SAVE_ALL" ELSE save

\* _require_idle gives _session_lock back before anything else happens.
OnceCheck(s, m) ==
    /\ m.kind = "SINGLE"
    /\ Fresh(s) /\ slock = 0 /\ ~Busy /\ link # "down"
    /\ plan' = [plan EXCEPT ![s] = [kind |-> "SINGLE", save |-> OnceStorage(m.save),
                                     limit |-> 1, boot |-> 0]]
    /\ pc' = Go(pc, s, "checked")
    /\ UNCHANGED <<db, devVars, linkVars, wpc, spc, mem, listed, slock, handler, io, histVars,
                   faults>>

OnceRegister(s) ==
    /\ pc[s] = "checked" /\ plan[s].kind = "SINGLE"
    /\ IF link = "down"
       THEN pc' = Go(pc, s, "done") /\ UNCHANGED <<db, mem>>
       ELSE /\ pc' = Go(pc, s, "registered")
            /\ mem' = [mem EXCEPT ![s].state = "RUNNING"]
            /\ db' = RegisterPolicy(db, boot, s, plan[s].save)
    /\ UNCHANGED <<devVars, linkVars, plan, wpc, spc, listed, slock, handler, io, histVars,
                   faults>>

OnceSave(s) ==
    /\ pc[s] = "registered"
    /\ db' = SaveSummary(db, s, Payload(mem[s]))
    /\ pc' = Go(pc, s, "saved")
    /\ UNCHANGED <<devVars, linkVars, plan, wpc, spc, mem, listed, slock, handler, io, histVars,
                   faults>>

\* _operation_activity is set under _session_lock.
OnceActivity(s) ==
    /\ pc[s] = "saved" /\ slock = 0
    /\ pc' = Go(pc, s, "io")
    /\ UNCHANGED <<db, devVars, linkVars, plan, wpc, spc, mem, listed, slock, handler, io, histVars,
                   faults>>

OnceIo(s) ==
    /\ pc[s] = "io" /\ plan[s].kind = "SINGLE"
    /\ Begin("ONCE", s)
    /\ pc' = Go(pc, s, "wait")
    /\ UNCHANGED <<db, devVars, linkVars, plan, wpc, spc, mem, listed, slock, handler, histVars,
                   faults>>

OnceEnd(s) ==
    /\ pc[s] \in {"captured", "failed"}
    /\ db' = FinalizeSummary(db, s, IF pc[s] = "captured" THEN "COMPLETED" ELSE "FAILED",
                             plan[s].save)
    /\ mem' = [mem EXCEPT ![s] = NoObject]
    /\ pc' = Go(pc, s, "done")
    /\ UNCHANGED <<devVars, linkVars, plan, wpc, spc, listed, slock, handler, io, histVars,
                   faults>>

-----------------------------------------------------------------------------
(* The periodic worker. *)

Reached(s) == plan[s].limit # 0 /\ mem[s].count >= plan[s].limit

WorkerTo(s, where) ==
    /\ wpc' = Go(wpc, s, where)
    /\ UNCHANGED <<devVars, linkVars, plan, pc, spc, listed, slock, handler, histVars, faults>>

\* The head of the loop, then renew_if_due, due or not.
WorkerTop(s) ==
    /\ wpc[s] = "top"
    /\ IF mem[s].stop \/ mem[s].state # "RUNNING"
       THEN WorkerTo(s, "exit") /\ UNCHANGED <<db, mem>>
       ELSE IF Reached(s) THEN Finish(s, "COMPLETED") /\ WorkerTo(s, "exit")
       ELSE (WorkerTo(s, "renew") \/ WorkerTo(s, "poll")) /\ UNCHANGED <<db, mem>>
    /\ UNCHANGED io

WorkerIo(s) ==
    /\ \/ wpc[s] = "renew" /\ Begin("RENEW", s)
       \/ wpc[s] = "poll" /\ Begin("POLL", s)
       \/ wpc[s] = "abort" /\ Begin("ABORT", s)
    /\ WorkerTo(s, "wait")
    /\ UNCHANGED <<db, mem>>

\* The count is looked at again, the state is not.
WorkerTail(s) ==
    /\ wpc[s] = "tail"
    /\ IF Reached(s) THEN Finish(s, "COMPLETED") /\ WorkerTo(s, "exit")
       ELSE WorkerTo(s, "top") /\ UNCHANGED <<db, mem>>
    /\ UNCHANGED io

\* The except clause: completed after all, stopped, or to be stopped.
WorkerError(s) ==
    /\ wpc[s] = "error"
    /\ IF mem[s].stop THEN Finish(s, "STOPPED") /\ WorkerTo(s, "exit")
       ELSE IF Reached(s) THEN Finish(s, "COMPLETED") /\ WorkerTo(s, "exit")
       ELSE WorkerTo(s, "abort") /\ UNCHANGED <<db, mem>>
    /\ UNCHANGED io

WorkerAborted(s) ==
    /\ wpc[s] = "aborted"
    /\ Finish(s, "FAILED") /\ WorkerTo(s, "exit")
    /\ UNCHANGED io

\* The finally clause: STOP keeps the handler until it is answered.
WorkerExit(s) ==
    /\ wpc[s] = "exit" /\ ~Locked
    /\ wpc' = Go(wpc, s, "done")
    /\ handler' = IF mem[s].state # "STOPPING" /\ handler = s THEN 0 ELSE handler
    /\ UNCHANGED <<db, devVars, linkVars, plan, pc, spc, mem, listed, slock, io, histVars, faults>>

Worker(s) ==
    \/ WorkerTop(s) \/ WorkerIo(s) \/ WorkerTail(s)
    \/ WorkerError(s) \/ WorkerAborted(s) \/ WorkerExit(s)

-----------------------------------------------------------------------------
(* stop_periodic *)

StopBegin(s) ==
    /\ s \in listed /\ slock = 0 /\ spc[s] = "none"
    /\ mem[s].state = "RUNNING"
    /\ mem' = [mem EXCEPT ![s].state = "STOPPING", ![s].stop = TRUE]
    /\ spc' = Go(spc, s, "io")
    /\ UNCHANGED <<db, devVars, linkVars, plan, pc, wpc, listed, slock, handler, io, histVars,
                   faults>>

StopIo(s) ==
    /\ spc[s] = "io"
    /\ Begin("STOP", s)
    /\ spc' = Go(spc, s, "wait")
    /\ UNCHANGED <<db, devVars, linkVars, plan, pc, wpc, mem, listed, slock, handler, histVars,
                   faults>>

\* A faulty variant: a STOP that fails leaves the session as it is.
StopEndQuiet(s) ==
    /\ spc[s] \in {"ok", "failed"}
    /\ IF spc[s] = "ok" THEN Finish(s, "STOPPED") ELSE UNCHANGED <<db, mem>>
    /\ spc' = Go(spc, s, "clear")
    /\ UNCHANGED <<devVars, linkVars, plan, pc, wpc, listed, slock, handler, io, histVars, faults>>

StopEnd(s) ==
    /\ spc[s] \in {"ok", "failed"}
    /\ Finish(s, IF spc[s] = "ok" THEN "STOPPED" ELSE "FAILED")
    /\ spc' = Go(spc, s, "clear")
    /\ UNCHANGED <<devVars, linkVars, plan, pc, wpc, listed, slock, handler, io, histVars, faults>>

StopClear(s) ==
    /\ spc[s] = "clear" /\ ~Locked
    /\ handler' = IF handler = s THEN 0 ELSE handler
    /\ spc' = Go(spc, s, "done")
    /\ UNCHANGED <<db, devVars, linkVars, plan, pc, wpc, mem, listed, slock, io, histVars, faults>>

\* A request for the status of the device: it matters when it meets a capture
\* or a link that is lost.
Query ==
    /\ (spool # NoFrame \/ link = "dead") /\ ~Starting
    /\ Begin("QUERY", 0)
    /\ UNCHANGED <<db, devVars, linkVars, thrVars, mem, listed, slock, handler, histVars, faults>>

\* The core dies and starts again, maybe in the middle of a start: every thread
\* is gone, and reconcile_interrupted_sessions finds the sessions it left.
CoreCrash ==
    /\ faults < MaxFaults /\ faults' = faults + 1
    /\ pc' = [s \in Sessions |-> IF db.summary[s].state \in Active THEN "cut"
                                ELSE IF pc[s] = "new" THEN "new" ELSE "done"]
    /\ wpc' = [s \in Sessions |-> "none"] /\ spc' = [s \in Sessions |-> "none"]
    /\ mem' = [s \in Sessions |-> NoObject] /\ listed' = {} /\ slock' = 0
    /\ handler' = 0 /\ io' = NoIo /\ link' = "down" /\ acc' = "idle" /\ stuck' = FALSE
    /\ UNCHANGED <<db, devVars, boot, plan, histVars>>

\* It closes them one transaction at a time.
Reconcile(s) ==
    /\ pc[s] = "cut"
    /\ db' = FinalizeSummary(db, s, "INTERRUPTED", plan[s].save)
    /\ pc' = Go(pc, s, "done")
    /\ UNCHANGED <<devVars, linkVars, plan, wpc, spc, mem, listed, slock, handler, io, histVars,
                   faults>>

-----------------------------------------------------------------------------
Environment == PeriodicCapture \/ ScheduleEnds \/ BridgeLost
Acceptor == Connect \/ Replay \/ ReplayReceipt \/ Publish
Io == IoFails \/ BlockedIo \/ Declined \/ Execute \/ Reply \/ TakeIn \/ Stage \/ Commit \/ Record \/ Confirm
Threads(s) ==
    \/ StartRegister(s) \/ StartIo(s) \/ StartCleanup(s) \/ StartSave(s)
    \/ OnceRegister(s) \/ OnceSave(s) \/ OnceActivity(s) \/ OnceIo(s) \/ OnceEnd(s)
    \/ Worker(s) \/ StopIo(s) \/ StopEnd(s) \/ StopClear(s) \/ Reconcile(s)
Requests(s) ==
    \/ \E m \in Menu : StartPeriodic(s, m) \/ OnceCheck(s, m)
    \/ StopBegin(s)

Next ==
    \/ Environment \/ Acceptor \/ Io \/ Query \/ CoreCrash
    \/ \E s \in Sessions : Threads(s) \/ Requests(s)

Spec == Init /\ [][Next]_vars

-----------------------------------------------------------------------------
(* What the sessions promise. *)

\* A thread is still at work on session s.
Working(s) ==
    \/ pc[s] \notin {"new", "done"} \/ wpc[s] \notin {"none", "done"}
    \/ spc[s] \notin {"none", "done"} \/ io.via = s

\* The captures decided for session s, and those of them in the archive.
Owned(s) == {c \in Captures : owner[c] = s}
Filed(s) == {row.cap : row \in RowsOf(db, s)}

Closed(s) == db.summary[s].state \in Terminal

\* The terminal summary of a session counts every capture decided for it
\* exactly once and tells the archived from the discarded, whether the capture
\* came by a poll, in front of another thread's answer, by a replay before or
\* after the end of the session, or twice because its receipt was lost, and
\* whether the session was completed, stopped, failed or cut off by a crash.
TerminalCounts ==
    \A s \in Sessions : Closed(s) =>
      /\ db.summary[s].acquired = Cardinality(Owned(s))
      /\ db.summary[s].saved = Cardinality(Filed(s))
      /\ db.summary[s].discarded = Cardinality(Owned(s) \ Filed(s))
      /\ Owned(s) # {} => db.summary[s].last = Max(Owned(s))
      /\ db.summary[s].lastSaved = IF Filed(s) = {} THEN 0 ELSE Max(Filed(s))

\* The archive holds what the policy of a session says of the captures decided
\* for it: all of them, none, or, once the session is closed, exactly the
\* newest, also when that one is replayed after the session's end.
SavePolicyKept ==
    \A s \in Sessions :
      CASE plan[s].save = "SAVE_ALL" -> Filed(s) = Owned(s)
        [] plan[s].save = "SAVE_NONE" -> Filed(s) = {}
        [] plan[s].save = "SAVE_LAST" ->
             Closed(s) /\ Owned(s) # {} => Filed(s) = {Max(Owned(s))}

\* Every capture is decided for the session that asked for it.
OwnerIsAsker == \A c \in Captures : owner[c] \in {0, asker[c]}

\* A capture a session decided itself is archived with the configuration and
\* the run plan staged for it, although a schedule's captures share one staged
\* row, which every decision may delete, and a rolling frame is archived much
\* later, by another thread or by the next core.
PlanKept ==
    OwnerIsAsker => \A row \in db.archive : row.cap \in live => row.plan

\* No session is left RUNNING or STOPPING, in the database or in the core,
\* without a thread that will end it: such a session would refuse every later
\* one.
NoSessionLeftActive ==
    /\ \A s \in Sessions : db.summary[s].state \in Active => Working(s)
    /\ \A s \in listed : mem[s].state \in Active =>
         wpc[s] \notin {"none", "done"} \/ spc[s] \notin {"none", "done"}

\* No thread is refused because a delivery is pending that nobody decides:
\* what _send asserts.
NoCommandBlocked == ~(Blocked /\ io.op # "POLL")
=============================================================================
