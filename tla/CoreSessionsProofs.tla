------------------------- MODULE CoreSessionsProofs -------------------------
(***************************************************************************)
(* The sessions of the core keep their promises for every number of         *)
(* sessions, captures, boots and faults, every menu of requests and every   *)
(* number of tombstones kept.                                               *)
(*                                                                          *)
(* The invariant has three layers.  StoreInv says what the tables of        *)
(* core_store.py mean: who owns a capture, what the archive, the rolling    *)
(* frame, the tombstones and the statistics say of it, and that a terminal  *)
(* summary agrees with them.  ThreadInv says which thread is where.  Over   *)
(* them, QuietInv says why no capture is persisted for a session that is    *)
(* over: the schedule is off, or the client that would take it in is gone   *)
(* or stuck.                                                                *)
(***************************************************************************)
EXTENDS CoreSessions, CoreStoreProofs

Periodic(s) == plan[s].kind = "PERIODIC"

\* The captures session s asked for.
Asked(s) == {c \in Captures : asker[c] = s}
NumberAsked(s) == Cardinality(Asked(s))

-----------------------------------------------------------------------------
Saves == [s \in Sessions |-> plan[s].save]

StoreInv ==
    /\ StoreGood(db, owner, asker, Saves, live)
    /\ OwnerIsAsker /\ io.pc = "commit" /\ io.via # 0 /\ owner[io.frame.cap] = 0 =>
         io.frame.req \in db.staged

-----------------------------------------------------------------------------
(* The threads and the frame under way. *)

InHand == {"stage", "commit", "record", "confirm"}

\* There is one undecided capture at a time, the newest.
FramesTrue ==
    /\ taken \in Captures \cup {0}
    /\ \A c \in Captures : c > taken => asker[c] = 0
    /\ \A c \in Captures : owner[c] # 0 => asker[c] # 0
    /\ spool # NoFrame => spool.cap = taken /\ spool.req = asker[taken]
    /\ io.frame # NoFrame <=> io.pc \in InHand
    /\ io.frame # NoFrame =>
         /\ io.frame.cap = taken /\ io.frame.req = asker[taken]
         /\ spool = io.frame \/ (spool = NoFrame /\ sched = 0)
    /\ io.via # 0 => io.pc \in InHand /\ io.frame.req = io.via
    /\ io.pc \in {"stage", "record"} => io.via # 0
    /\ io.pc = "answered" => io.op \in {"START", "ONCE"}
    /\ io.pc = "free" => io.op = "QUERY"

\* Nothing new comes while a connection is set up, or to an operation whose
\* client was replaced.
LinksTrue ==
    /\ acc # "idle" => link # "up" /\ sched = 0 /\ boot + 1 \in Boots
    /\ acc = "ready" => spool = NoFrame
    /\ acc \in {"replay", "receipt"} => spool # NoFrame
    /\ io.pc # "free" /\ io.boot # boot => sched = 0 /\ spool = NoFrame

\* A session id that is not used yet appears nowhere.
Known(s) == s = 0 \/ pc[s] # "new"
NamesKnown ==
    /\ \A c \in Captures : Known(asker[c]) /\ Known(owner[c])
    /\ \A b \in Boots : Known(db.policy[b].session)
    /\ Known(sched) /\ Known(handler)

\* The operation under way is that of a thread that waits for it.
Waits ==
    /\ io.op \in {"START", "ONCE"} =>
         io.sess # 0 /\ pc[io.sess] = "wait" /\ (io.op = "START" <=> Periodic(io.sess))
    /\ io.op \in {"RENEW", "POLL", "ABORT"} => io.sess # 0 /\ wpc[io.sess] = "wait"
    /\ io.op = "STOP" => io.sess # 0 /\ spc[io.sess] = "wait"
    /\ \A s \in Sessions : pc[s] = "wait" => io.op \in {"START", "ONCE"} /\ io.sess = s

\* The life of session s.
LifeOf(s) ==
    /\ pc[s] \in {"started", "cleanup"} => Periodic(s)
    /\ pc[s] \in {"registered", "saved", "captured", "failed"} => ~Periodic(s)
    /\ s \in listed <=> wpc[s] # "none"
    /\ s \in listed => Periodic(s) /\ pc[s] = "done"
    /\ spc[s] # "none" => s \in listed
    /\ mem[s].state \in Active <=>
         \/ pc[s] \in {"registered", "saved", "io", "wait", "captured", "failed", "cleanup", "started"}
         \/ s \in listed /\ mem[s].state \in Active
    /\ s \notin listed /\ mem[s].state \notin Active => mem[s] = NoObject
    /\ mem[s].stop \/ mem[s].state = "STOPPING" => spc[s] # "none"
    /\ spc[s] \in {"clear", "done"} => mem[s].state \notin Active
    /\ s \in listed /\ mem[s].state \in Active =>
         wpc[s] \notin {"exit", "done"} \/ spc[s] \in {"io", "wait", "ok", "failed"}

\* The summary in the database and the session object agree on whether the
\* session runs.
RowOf(s) ==
    /\ pc[s] \in {"new", "checked", "registered"} => db.summary[s].state = "NONE"
    /\ Periodic(s) /\ pc[s] \in {"io", "wait", "cleanup"} => db.summary[s].state = "NONE"
    /\ db.summary[s].state \in Active => pc[s] = "cut" \/ mem[s].state \in Active
    /\ pc[s] = "cut" => db.summary[s].state \in Active
    /\ db.summary[s].state \in Terminal => mem[s].state \notin Active
    /\ mem[s].state \in Terminal => db.summary[s].state \in Terminal

\* Who takes captures in for whom.
ViaTrue ==
    /\ handler # 0 => Periodic(handler) /\ pc[handler] \notin {"checked", "cut"}
    /\ io.via # 0 =>
         IF Periodic(io.via) THEN pc[io.via] \in {"started", "done"}
         ELSE io.op = "ONCE" /\ io.sess = io.via

ThreadInv ==
    /\ FramesTrue /\ LinksTrue /\ NamesKnown /\ Waits /\ ViaTrue
    /\ \A s \in Sessions : LifeOf(s) /\ RowOf(s)

-----------------------------------------------------------------------------
(* Why nothing comes after the end. *)

Persisting(s) == io.via = s /\ io.pc \in {"stage", "commit", "record"}

\* No further capture of session s can be taken in for it.
Quiet(s) ==
    \/ link # "up" \/ stuck
    \/ sched # s /\ (spool.req = s => io.via = s /\ io.pc = "confirm")

\* Session s is over, or a thread has begun to end it.
Over(s) ==
    \/ mem[s].state \notin Active \/ pc[s] = "cleanup"
    \/ wpc[s] \in {"error", "abort", "aborted"} \/ (io.op = "ABORT" /\ io.sess = s)
    \/ spc[s] \in {"ok", "failed", "clear", "done"}

OverIsQuiet(s) == Periodic(s) /\ Over(s) => Quiet(s) /\ ~Persisting(s)

\* No capture before the START command is carried out.
NotBefore(s) ==
    Periodic(s) /\ (pc[s] \in {"checked", "io"} \/ (pc[s] = "wait" /\ io.pc # "answered")) =>
      sched # s /\ Asked(s) = {}

\* A capture of session s that the session has not counted yet.
Pending(s) ==
    \/ Persisting(s)
    \/ link = "up" /\ spool.req = s /\ ~(io.via = s /\ io.pc = "confirm")

\* The session counts no capture twice,
CountTrue(s) ==
    Periodic(s) /\ mem[s].state \in Active =>
      mem[s].count + (IF Pending(s) THEN 1 ELSE 0) <= NumberAsked(s)

\* and the device takes no more than the session asked for.
ScheduleTrue ==
    /\ sched = 0 => fired = 0
    /\ sched # 0 => /\ Periodic(sched) /\ fired = NumberAsked(sched)
                    /\ plan[sched].limit # 0 => fired < plan[sched].limit
    /\ \A s \in Sessions :
         Periodic(s) /\ plan[s].limit # 0 => NumberAsked(s) <= plan[s].limit

QuietInv ==
    /\ ScheduleTrue
    /\ \A s \in Sessions : OverIsQuiet(s) /\ NotBefore(s) /\ CountTrue(s)

SessionInv == TypeOK /\ StoreInv /\ ThreadInv /\ QuietInv

-----------------------------------------------------------------------------
(* One lemma for each action: it keeps every part of the invariant. *)

Parts ==
    /\ TypeOK /\ StoreInv /\ FramesTrue /\ LinksTrue /\ NamesKnown /\ Waits /\ ViaTrue
    /\ ScheduleTrue

EachSession ==
    \A s \in Sessions : LifeOf(s) /\ RowOf(s) /\ OverIsQuiet(s) /\ NotBefore(s) /\ CountTrue(s)

LEMMA PartsOf == ASSUME SessionInv PROVE Parts /\ EachSession
  BY DEF SessionInv, ThreadInv, QuietInv, Parts, EachSession

LEMMA AskedFinite ==
    ASSUME FramesTrue, NEW s \in Sessions
    PROVE  IsFiniteSet(Asked(s)) /\ NumberAsked(s) \in Nat
  <1>0. taken \in Captures \cup {0} /\ \A c \in Captures : c > taken => asker[c] = 0
    BY DEF FramesTrue
  <1>1. taken \in Nat
    BY <1>0, Constants
  <1>2. Asked(s) \subseteq 1 .. taken
    <2> SUFFICES ASSUME NEW c \in Captures, asker[c] = s PROVE c \in 1 .. taken
      BY DEF Asked
    <2>1. c \in Nat /\ c # 0 /\ s # 0
      BY Constants
    <2>2. QED
      BY <1>0, <1>1, <2>1
  <1>3. IsFiniteSet(1 .. taken)
    BY <1>1, FS_Interval
  <1>4. IsFiniteSet(Asked(s))
    BY <1>2, <1>3, FS_Subset
  <1>5. QED
    BY <1>4, FS_CardinalityType DEF NumberAsked

LEMMA Numbers ==
    ASSUME Parts, NEW s \in Sessions
    PROVE  NumberAsked(s) \in Nat /\ mem[s].count \in Nat
  <1>1. mem[s] \in Objects
    BY DEF Parts, TypeOK
  <1>2. QED
    BY <1>1, AskedFinite DEF Parts, Objects

LEMMA ScheduleEndsStep ==
    ASSUME SessionInv, ScheduleEnds
    PROVE  SessionInv'
  <1>i. Parts /\ EachSession
    BY PartsOf
  <1>u. /\ db' = db /\ taken' = taken /\ spool' = spool /\ boot' = boot /\ acc' = acc
        /\ link' = link /\ stuck' = stuck /\ plan' = plan /\ pc' = pc /\ wpc' = wpc
        /\ spc' = spc /\ mem' = mem /\ listed' = listed /\ slock' = slock /\ handler' = handler
        /\ io' = io /\ asker' = asker /\ owner' = owner /\ live' = live /\ faults' = faults
    BY DEF ScheduleEnds, devVars, linkVars, thrVars, histVars
  <1>c. sched' = 0 /\ fired' = 0
    BY DEF ScheduleEnds
  <1>k. \A r : Asked(r)' = Asked(r) /\ NumberAsked(r)' = NumberAsked(r)
    BY <1>u DEF Asked, NumberAsked
  <1>T. TypeOK'
    BY <1>i, <1>u, <1>c, <1>k DEF Parts, TypeOK
  <1>S. StoreInv'
    BY <1>i, <1>u, <1>c, <1>k DEF Parts, StoreInv, Saves, OwnerIsAsker
  <1>F. FramesTrue'
    BY <1>i, <1>u, <1>c, <1>k DEF Parts, FramesTrue, InHand
  <1>L. LinksTrue'
    BY <1>i, <1>u, <1>c, <1>k DEF Parts, LinksTrue
  <1>N. NamesKnown'
    BY <1>i, <1>u, <1>c, <1>k DEF Parts, NamesKnown, Known
  <1>W. Waits'
    BY <1>i, <1>u, <1>c, <1>k DEF Parts, Waits, Periodic
  <1>V. ViaTrue'
    BY <1>i, <1>u, <1>c, <1>k DEF Parts, ViaTrue, Periodic
  <1>P. ScheduleTrue'
    BY <1>i, <1>u, <1>c, <1>k DEF Parts, ScheduleTrue, Periodic
  <1>r. ASSUME NEW r \in Sessions
        PROVE  LifeOf(r)' /\ RowOf(r)' /\ OverIsQuiet(r)' /\ NotBefore(r)' /\ CountTrue(r)'
    <2>h. /\ LifeOf(r) /\ RowOf(r) /\ OverIsQuiet(r) /\ NotBefore(r) /\ CountTrue(r)
          /\ NumberAsked(r) \in Nat /\ mem[r].count \in Nat
      BY <1>i, Numbers DEF EachSession
    <2>k. Asked(r)' = Asked(r) /\ NumberAsked(r)' = NumberAsked(r)
      BY <1>k
    <2>A. LifeOf(r)'
      BY <1>i, <2>h, <1>u, <1>c, <2>k DEF LifeOf, Periodic, Active
    <2>R. RowOf(r)'
      BY <1>i, <2>h, <1>u, <1>c, <2>k DEF RowOf, Periodic, Active, Terminal
    <2>O. OverIsQuiet(r)'
      BY <1>i, <2>h, <1>u, <1>c, <2>k, NoFrameIsNone, Constants
         DEF OverIsQuiet, Over, Quiet, Persisting, Periodic
    <2>B. NotBefore(r)'
      BY <1>i, <2>h, <1>u, <1>c, <2>k, Constants DEF NotBefore, Periodic
    <2>C. CountTrue(r)'
      BY <1>i, <2>h, <1>u, <1>c, <2>k, NoFrameIsNone, Constants
         DEF CountTrue, Pending, Persisting, Periodic
    <2>q. QED
      BY <2>A, <2>R, <2>O, <2>B, <2>C
  <1>q. QED
    BY <1>T, <1>S, <1>F, <1>L, <1>N, <1>W, <1>V, <1>P, <1>r DEF SessionInv, ThreadInv, QuietInv

LEMMA BridgeLostStep ==
    ASSUME SessionInv, BridgeLost
    PROVE  SessionInv'
  <1>i. Parts /\ EachSession
    BY PartsOf
  <1>u. /\ db' = db /\ taken' = taken /\ spool' = spool /\ boot' = boot /\ acc' = acc
        /\ stuck' = stuck /\ plan' = plan /\ pc' = pc /\ wpc' = wpc /\ spc' = spc
        /\ mem' = mem /\ listed' = listed /\ slock' = slock /\ handler' = handler /\ io' = io
        /\ asker' = asker /\ owner' = owner /\ live' = live
    BY DEF BridgeLost, devVars, linkVars, thrVars, histVars
  <1>c. link' = "dead" /\ sched' = 0 /\ fired' = 0 /\ faults' = faults + 1 /\ link = "up"
    BY DEF BridgeLost
  <1>k. \A r : Asked(r)' = Asked(r) /\ NumberAsked(r)' = NumberAsked(r)
    BY <1>u DEF Asked, NumberAsked
  <1>T. TypeOK'
    BY <1>i, <1>u, <1>c, <1>k DEF Parts, TypeOK
  <1>S. StoreInv'
    BY <1>i, <1>u, <1>c, <1>k DEF Parts, StoreInv, Saves, OwnerIsAsker
  <1>F. FramesTrue'
    BY <1>i, <1>u, <1>c, <1>k DEF Parts, FramesTrue, InHand
  <1>L. LinksTrue'
    BY <1>i, <1>u, <1>c, <1>k DEF Parts, LinksTrue
  <1>N. NamesKnown'
    BY <1>i, <1>u, <1>c, <1>k DEF Parts, NamesKnown, Known
  <1>W. Waits'
    BY <1>i, <1>u, <1>c, <1>k DEF Parts, Waits, Periodic
  <1>V. ViaTrue'
    BY <1>i, <1>u, <1>c, <1>k DEF Parts, ViaTrue, Periodic
  <1>P. ScheduleTrue'
    BY <1>i, <1>u, <1>c, <1>k DEF Parts, ScheduleTrue, Periodic
  <1>r. ASSUME NEW r \in Sessions
        PROVE  LifeOf(r)' /\ RowOf(r)' /\ OverIsQuiet(r)' /\ NotBefore(r)' /\ CountTrue(r)'
    <2>h. /\ LifeOf(r) /\ RowOf(r) /\ OverIsQuiet(r) /\ NotBefore(r) /\ CountTrue(r)
          /\ NumberAsked(r) \in Nat /\ mem[r].count \in Nat
      BY <1>i, Numbers DEF EachSession
    <2>k. Asked(r)' = Asked(r) /\ NumberAsked(r)' = NumberAsked(r)
      BY <1>k
    <2>A. LifeOf(r)'
      BY <1>i, <2>h, <1>u, <1>c, <2>k DEF LifeOf, Periodic, Active
    <2>R. RowOf(r)'
      BY <1>i, <2>h, <1>u, <1>c, <2>k DEF RowOf, Periodic, Active, Terminal
    <2>O. OverIsQuiet(r)'
      BY <1>i, <2>h, <1>u, <1>c, <2>k, NoFrameIsNone, Constants
         DEF OverIsQuiet, Over, Quiet, Persisting, Periodic
    <2>B. NotBefore(r)'
      BY <1>i, <2>h, <1>u, <1>c, <2>k, Constants DEF NotBefore, Periodic
    <2>C. CountTrue(r)'
      BY <1>i, <2>h, <1>u, <1>c, <2>k, NoFrameIsNone, Constants
         DEF CountTrue, Pending, Persisting, Periodic
    <2>q. QED
      BY <2>A, <2>R, <2>O, <2>B, <2>C
  <1>q. QED
    BY <1>T, <1>S, <1>F, <1>L, <1>N, <1>W, <1>V, <1>P, <1>r DEF SessionInv, ThreadInv, QuietInv

LEMMA ConnectStep ==
    ASSUME SessionInv, Connect
    PROVE  SessionInv'
  <1>i. Parts /\ EachSession
    BY PartsOf
  <1>u. /\ db' = db /\ taken' = taken /\ sched' = sched /\ fired' = fired /\ spool' = spool
        /\ boot' = boot /\ link' = link /\ stuck' = stuck /\ plan' = plan /\ pc' = pc
        /\ wpc' = wpc /\ spc' = spc /\ mem' = mem /\ listed' = listed /\ slock' = slock
        /\ handler' = handler /\ io' = io /\ asker' = asker /\ owner' = owner /\ live' = live
        /\ faults' = faults
    BY DEF Connect, devVars, linkVars, thrVars, histVars
  <1>c. /\ acc = "idle" /\ link # "up" /\ sched = 0 /\ boot + 1 \in Boots
        /\ acc' = IF spool = NoFrame THEN "ready" ELSE "replay"
    BY DEF Connect
  <1>k. \A r : Asked(r)' = Asked(r) /\ NumberAsked(r)' = NumberAsked(r)
    BY <1>u DEF Asked, NumberAsked
  <1>T. TypeOK'
    BY <1>i, <1>u, <1>c, <1>k DEF Parts, TypeOK
  <1>S. StoreInv'
    BY <1>i, <1>u, <1>c, <1>k DEF Parts, StoreInv, Saves, OwnerIsAsker
  <1>F. FramesTrue'
    BY <1>i, <1>u, <1>c, <1>k DEF Parts, FramesTrue, InHand
  <1>L. LinksTrue'
    BY <1>i, <1>u, <1>c, <1>k DEF Parts, LinksTrue
  <1>N. NamesKnown'
    BY <1>i, <1>u, <1>c, <1>k DEF Parts, NamesKnown, Known
  <1>W. Waits'
    BY <1>i, <1>u, <1>c, <1>k DEF Parts, Waits, Periodic
  <1>V. ViaTrue'
    BY <1>i, <1>u, <1>c, <1>k DEF Parts, ViaTrue, Periodic
  <1>P. ScheduleTrue'
    BY <1>i, <1>u, <1>c, <1>k DEF Parts, ScheduleTrue, Periodic
  <1>r. ASSUME NEW r \in Sessions
        PROVE  LifeOf(r)' /\ RowOf(r)' /\ OverIsQuiet(r)' /\ NotBefore(r)' /\ CountTrue(r)'
    <2>h. /\ LifeOf(r) /\ RowOf(r) /\ OverIsQuiet(r) /\ NotBefore(r) /\ CountTrue(r)
          /\ NumberAsked(r) \in Nat /\ mem[r].count \in Nat
      BY <1>i, Numbers DEF EachSession
    <2>k. Asked(r)' = Asked(r) /\ NumberAsked(r)' = NumberAsked(r)
      BY <1>k
    <2>A. LifeOf(r)'
      BY <1>i, <2>h, <1>u, <1>c, <2>k DEF LifeOf, Periodic, Active
    <2>R. RowOf(r)'
      BY <1>i, <2>h, <1>u, <1>c, <2>k DEF RowOf, Periodic, Active, Terminal
    <2>O. OverIsQuiet(r)'
      BY <1>i, <2>h, <1>u, <1>c, <2>k, NoFrameIsNone, Constants
         DEF OverIsQuiet, Over, Quiet, Persisting, Periodic
    <2>B. NotBefore(r)'
      BY <1>i, <2>h, <1>u, <1>c, <2>k, Constants DEF NotBefore, Periodic
    <2>C. CountTrue(r)'
      BY <1>i, <2>h, <1>u, <1>c, <2>k, NoFrameIsNone, Constants
         DEF CountTrue, Pending, Persisting, Periodic
    <2>q. QED
      BY <2>A, <2>R, <2>O, <2>B, <2>C
  <1>q. QED
    BY <1>T, <1>S, <1>F, <1>L, <1>N, <1>W, <1>V, <1>P, <1>r DEF SessionInv, ThreadInv, QuietInv

LEMMA ReplayReceiptStep ==
    ASSUME SessionInv, ReplayReceipt
    PROVE  SessionInv'
  <1>i. Parts /\ EachSession
    BY PartsOf
  <1>u. /\ db' = db /\ taken' = taken /\ sched' = sched /\ fired' = fired /\ boot' = boot
        /\ link' = link /\ stuck' = stuck /\ plan' = plan /\ pc' = pc /\ wpc' = wpc
        /\ spc' = spc /\ mem' = mem /\ listed' = listed /\ slock' = slock /\ handler' = handler
        /\ io' = io /\ asker' = asker /\ owner' = owner /\ live' = live /\ faults' = faults
    BY DEF ReplayReceipt, devVars, linkVars, thrVars, histVars
  <1>c. acc = "receipt" /\ acc' = "ready" /\ spool' = NoFrame
    BY DEF ReplayReceipt
  <1>k. \A r : Asked(r)' = Asked(r) /\ NumberAsked(r)' = NumberAsked(r)
    BY <1>u DEF Asked, NumberAsked
  <1>T. TypeOK'
    BY <1>i, <1>u, <1>c, <1>k DEF Parts, TypeOK
  <1>S. StoreInv'
    BY <1>i, <1>u, <1>c, <1>k DEF Parts, StoreInv, Saves, OwnerIsAsker
  <1>F. FramesTrue'
    BY <1>i, <1>u, <1>c, <1>k DEF Parts, FramesTrue, InHand, LinksTrue
  <1>L. LinksTrue'
    BY <1>i, <1>u, <1>c, <1>k DEF Parts, LinksTrue
  <1>N. NamesKnown'
    BY <1>i, <1>u, <1>c, <1>k DEF Parts, NamesKnown, Known
  <1>W. Waits'
    BY <1>i, <1>u, <1>c, <1>k DEF Parts, Waits, Periodic
  <1>V. ViaTrue'
    BY <1>i, <1>u, <1>c, <1>k DEF Parts, ViaTrue, Periodic
  <1>P. ScheduleTrue'
    BY <1>i, <1>u, <1>c, <1>k DEF Parts, ScheduleTrue, Periodic
  <1>r. ASSUME NEW r \in Sessions
        PROVE  LifeOf(r)' /\ RowOf(r)' /\ OverIsQuiet(r)' /\ NotBefore(r)' /\ CountTrue(r)'
    <2>h. /\ LifeOf(r) /\ RowOf(r) /\ OverIsQuiet(r) /\ NotBefore(r) /\ CountTrue(r)
          /\ NumberAsked(r) \in Nat /\ mem[r].count \in Nat
      BY <1>i, Numbers DEF EachSession
    <2>k. Asked(r)' = Asked(r) /\ NumberAsked(r)' = NumberAsked(r)
      BY <1>k
    <2>A. LifeOf(r)'
      BY <1>i, <2>h, <1>u, <1>c, <2>k DEF LifeOf, Periodic, Active
    <2>R. RowOf(r)'
      BY <1>i, <2>h, <1>u, <1>c, <2>k DEF RowOf, Periodic, Active, Terminal
    <2>O. OverIsQuiet(r)'
      BY <1>i, <2>h, <1>u, <1>c, <2>k, NoFrameIsNone, Constants
         DEF OverIsQuiet, Over, Quiet, Persisting, Periodic
    <2>B. NotBefore(r)'
      BY <1>i, <2>h, <1>u, <1>c, <2>k, Constants DEF NotBefore, Periodic
    <2>C. CountTrue(r)'
      BY <1>i, <2>h, <1>u, <1>c, <2>k, NoFrameIsNone, Constants
         DEF CountTrue, Pending, Persisting, Periodic
    <2>q. QED
      BY <2>A, <2>R, <2>O, <2>B, <2>C
  <1>q. QED
    BY <1>T, <1>S, <1>F, <1>L, <1>N, <1>W, <1>V, <1>P, <1>r DEF SessionInv, ThreadInv, QuietInv

LEMMA PublishStep ==
    ASSUME SessionInv, Publish
    PROVE  SessionInv'
  <1>i. Parts /\ EachSession
    BY PartsOf
  <1>u. /\ db' = db /\ taken' = taken /\ sched' = sched /\ fired' = fired /\ spool' = spool
        /\ plan' = plan /\ pc' = pc /\ wpc' = wpc /\ spc' = spc /\ mem' = mem
        /\ listed' = listed /\ slock' = slock /\ io' = io /\ asker' = asker /\ owner' = owner
        /\ live' = live /\ faults' = faults
    BY DEF Publish, devVars, linkVars, thrVars, histVars
  <1>c. /\ acc = "ready" /\ acc' = "idle" /\ link' = "up" /\ boot' = boot + 1
        /\ handler' = 0 /\ stuck' = FALSE /\ ~Locked
    BY DEF Publish
  <1>k. \A r : Asked(r)' = Asked(r) /\ NumberAsked(r)' = NumberAsked(r)
    BY <1>u DEF Asked, NumberAsked
  <1>T. TypeOK'
    BY <1>i, <1>u, <1>c, <1>k DEF Parts, TypeOK, LinksTrue
  <1>S. StoreInv'
    BY <1>i, <1>u, <1>c, <1>k DEF Parts, StoreInv, Saves, OwnerIsAsker
  <1>F. FramesTrue'
    BY <1>i, <1>u, <1>c, <1>k DEF Parts, FramesTrue, InHand
  <1>L. LinksTrue'
    BY <1>i, <1>u, <1>c, <1>k DEF Parts, LinksTrue
  <1>N. NamesKnown'
    BY <1>i, <1>u, <1>c, <1>k DEF Parts, NamesKnown, Known
  <1>W. Waits'
    BY <1>i, <1>u, <1>c, <1>k DEF Parts, Waits, Periodic
  <1>V. ViaTrue'
    BY <1>i, <1>u, <1>c, <1>k DEF Parts, ViaTrue, Periodic
  <1>P. ScheduleTrue'
    BY <1>i, <1>u, <1>c, <1>k DEF Parts, ScheduleTrue, Periodic
  <1>r. ASSUME NEW r \in Sessions
        PROVE  LifeOf(r)' /\ RowOf(r)' /\ OverIsQuiet(r)' /\ NotBefore(r)' /\ CountTrue(r)'
    <2>h. /\ LifeOf(r) /\ RowOf(r) /\ OverIsQuiet(r) /\ NotBefore(r) /\ CountTrue(r)
          /\ NumberAsked(r) \in Nat /\ mem[r].count \in Nat
      BY <1>i, Numbers DEF EachSession
    <2>k. Asked(r)' = Asked(r) /\ NumberAsked(r)' = NumberAsked(r)
      BY <1>k
    <2>A. LifeOf(r)'
      BY <1>i, <2>h, <1>u, <1>c, <2>k DEF LifeOf, Periodic, Active
    <2>R. RowOf(r)'
      BY <1>i, <2>h, <1>u, <1>c, <2>k DEF RowOf, Periodic, Active, Terminal
    <2>O. OverIsQuiet(r)'
      BY <1>i, <2>h, <1>u, <1>c, <2>k, NoFrameIsNone, Constants
         DEF OverIsQuiet, Over, Quiet, Persisting, Periodic, LinksTrue, Parts
    <2>B. NotBefore(r)'
      BY <1>i, <2>h, <1>u, <1>c, <2>k, Constants DEF NotBefore, Periodic
    <2>C. CountTrue(r)'
      BY <1>i, <2>h, <1>u, <1>c, <2>k, NoFrameIsNone, Constants
         DEF CountTrue, Pending, Persisting, Periodic, LinksTrue, Parts
    <2>q. QED
      BY <2>A, <2>R, <2>O, <2>B, <2>C
  <1>q. QED
    BY <1>T, <1>S, <1>F, <1>L, <1>N, <1>W, <1>V, <1>P, <1>r DEF SessionInv, ThreadInv, QuietInv

\* A capture is taken for session s.
TakeEffect(s) ==
    /\ taken' = taken + 1 /\ taken' \in Captures
    /\ spool' \in AllFrames /\ spool' # NoFrame /\ spool'.cap = taken' /\ spool'.req = s
    /\ asker' \in [Captures -> Sessions \cup {0}] /\ asker'[taken'] = s
    /\ \A c \in Captures : c # taken' => asker'[c] = asker[c]
    /\ \A c \in Captures : owner[c] # 0 => asker'[c] = asker[c]
    /\ \A r \in Sessions : r # s => Asked(r)' = Asked(r) /\ NumberAsked(r)' = NumberAsked(r)
    /\ NumberAsked(s)' = NumberAsked(s) + 1

LEMMA TakeIs ==
    ASSUME Parts, NEW s \in Sessions, Take(s)
    PROVE  TakeEffect(s)
  <1> DEFINE n == taken + 1
  <1>1. /\ taken \in Captures \cup {0} /\ \A c \in Captures : c > taken => asker[c] = 0
        /\ \A c \in Captures : owner[c] # 0 => asker[c] # 0
    BY DEF Parts, FramesTrue
  <1>2. asker \in [Captures -> Sessions \cup {0}] /\ boot \in Boots
    BY DEF Parts, TypeOK
  <1>3. /\ taken' = n /\ n \in Captures /\ spool' = [cap |-> n, req |-> s, boot |-> boot]
        /\ asker' = [asker EXCEPT ![n] = s]
    BY DEF Take
  <1>4. taken \in Nat /\ n > taken
    BY <1>1, Constants
  <1>5. asker[n] = 0 /\ owner[n] = 0
    BY <1>1, <1>3, <1>4
  <1>6. spool' \in AllFrames /\ spool' # NoFrame /\ spool'.cap = n /\ spool'.req = s
    BY <1>2, <1>3, NoFrameIsNone DEF AllFrames
  <1> HIDE DEF n
  <1>7. /\ asker' \in [Captures -> Sessions \cup {0}] /\ asker'[n] = s
        /\ \A c \in Captures : c # n => asker'[c] = asker[c]
    BY <1>2, <1>3
  <1>8. \A r \in Sessions : r # s => Asked(r)' = Asked(r) /\ NumberAsked(r)' = NumberAsked(r)
    <2> SUFFICES ASSUME NEW r \in Sessions, r # s PROVE Asked(r)' = Asked(r)
      BY DEF NumberAsked
    <2>1. QED
      BY <1>3, <1>5, <1>7, Constants DEF Asked
  <1>9. Asked(s)' = Asked(s) \cup {n} /\ n \notin Asked(s)
    BY <1>3, <1>5, <1>7, Constants DEF Asked
  <1>10. NumberAsked(s)' = NumberAsked(s) + 1
    <2>1. IsFiniteSet(Asked(s))
      BY AskedFinite DEF Parts
    <2>2. QED
      BY <1>9, <2>1, FS_AddElement DEF NumberAsked
  <1>11. QED
    BY <1>3, <1>5, <1>6, <1>7, <1>8, <1>10 DEF TakeEffect, n

LEMMA TakeKeepsStore ==
    ASSUME Parts, NEW s \in Sessions, TakeEffect(s), io'.pc # "commit",
           db' = db, plan' = plan, owner' = owner, live' = live
    PROVE  StoreInv'
  <1>1. owner \in Owners /\ \A c \in Captures : owner[c] # 0 => asker'[c] = asker[c]
    BY DEF Parts, TypeOK, Owners, TakeEffect
  <1>2. StoreGood(db, owner, asker, Saves, live)
    BY DEF Parts, StoreInv
  <1>3. StoreGood(db, owner, asker', Saves, live)
    BY <1>1, <1>2, AskedGood
  <1>4. Saves' = Saves
    BY DEF Saves
  <1>5. QED
    BY <1>3, <1>4 DEF StoreInv

LEMMA PeriodicCaptureStep ==
    ASSUME SessionInv, PeriodicCapture
    PROVE  SessionInv'
  <1>i. Parts /\ EachSession
    BY PartsOf
  <1>u. /\ db' = db /\ boot' = boot /\ acc' = acc /\ link' = link /\ stuck' = stuck
        /\ plan' = plan /\ pc' = pc /\ wpc' = wpc /\ spc' = spc /\ mem' = mem
        /\ listed' = listed /\ slock' = slock /\ handler' = handler /\ io' = io /\ owner' = owner
        /\ live' = live /\ faults' = faults
    BY DEF PeriodicCapture, devVars, linkVars, thrVars, histVars
  <1>c. PICK p \in Sessions :
          /\ p = sched /\ sched # 0 /\ spool = NoFrame /\ fired \in Nat
          /\ plan[p].limit \in Nat
    BY <1>i DEF PeriodicCapture, Parts, TypeOK, Plans
  <1>e. TakeEffect(p)
    BY <1>i, <1>c, TakeIs DEF PeriodicCapture
  <1>d. \/ plan[p].limit = fired + 1 /\ sched' = 0 /\ fired' = 0
        \/ plan[p].limit # fired + 1 /\ sched' = sched /\ fired' = fired + 1
    BY <1>c DEF PeriodicCapture
  <1>f. io.frame = NoFrame /\ io.pc \notin InHand /\ io.via = 0
    BY <1>i, <1>c DEF Parts, FramesTrue
  <1>T. TypeOK'
    BY <1>i, <1>u, <1>c, <1>e, <1>d, <1>f DEF Parts, TypeOK, TakeEffect
  <1>S. StoreInv'
    <2>1. io'.pc # "commit"
      BY <1>u, <1>f DEF InHand
    <2>2. QED
      BY <1>i, <1>c, <1>e, <1>u, <2>1, TakeKeepsStore
  <1>F. FramesTrue'
    <2>1. taken \in Nat /\ Captures \subseteq Nat /\ 0 \notin Sessions
      BY <1>i, Constants DEF Parts, TypeOK
    <2>2. /\ \A c \in Captures : c > taken' => asker'[c] = 0
          /\ \A c \in Captures : owner'[c] # 0 => asker'[c] # 0
      BY <1>i, <1>u, <1>e, <2>1 DEF Parts, FramesTrue, TakeEffect
    <2>3. QED
      BY <1>i, <1>u, <1>e, <1>f, <2>2 DEF Parts, FramesTrue, TakeEffect
  <1>L. LinksTrue'
    BY <1>i, <1>u, <1>c, <1>e, <1>d, <1>f DEF Parts, LinksTrue, TakeEffect
  <1>N. NamesKnown'
    BY <1>i, <1>u, <1>c, <1>e, <1>d, <1>f DEF Parts, NamesKnown, Known, TakeEffect
  <1>W. Waits'
    BY <1>i, <1>u, <1>c, <1>e, <1>d, <1>f DEF Parts, Waits, Periodic
  <1>V. ViaTrue'
    BY <1>i, <1>u, <1>c, <1>e, <1>d, <1>f DEF Parts, ViaTrue, Periodic
  <1>P. ScheduleTrue'
    <2>1. /\ Periodic(p) /\ fired = NumberAsked(p) /\ (plan[p].limit # 0 => fired < plan[p].limit)
          /\ \A s \in Sessions :
               Periodic(s) /\ plan[s].limit # 0 => NumberAsked(s) <= plan[s].limit
      BY <1>i, <1>c DEF Parts, ScheduleTrue
    <2>2. \A s \in Sessions : Periodic(s)' <=> Periodic(s)
      BY <1>u DEF Periodic
    <2>3. \A s \in Sessions : s # p => NumberAsked(s)' = NumberAsked(s)
      BY <1>e DEF TakeEffect
    <2>4. NumberAsked(p)' = fired + 1
      BY <1>e, <2>1 DEF TakeEffect
    <2>5. plan[p].limit # 0 => fired + 1 <= plan[p].limit
      BY <1>c, <2>1
    <2>6. \A s \in Sessions : Periodic(s)' /\ plan'[s].limit # 0 => NumberAsked(s)' <= plan'[s].limit
      BY <1>u, <2>1, <2>2, <2>3, <2>4, <2>5
    <2>7. CASE plan[p].limit = fired + 1 /\ sched' = 0 /\ fired' = 0
      BY <2>6, <2>7 DEF ScheduleTrue
    <2>8. CASE plan[p].limit # fired + 1 /\ sched' = sched /\ fired' = fired + 1
      <3>1. plan[p].limit # 0 => fired + 1 < plan[p].limit
        BY <1>c, <2>5, <2>8
      <3>2. QED
        BY <1>u, <1>c, <2>1, <2>2, <2>4, <2>6, <2>8, <3>1 DEF ScheduleTrue
    <2>9. QED
      BY <1>d, <2>7, <2>8
  <1>r. ASSUME NEW r \in Sessions
        PROVE  LifeOf(r)' /\ RowOf(r)' /\ OverIsQuiet(r)' /\ NotBefore(r)' /\ CountTrue(r)'
    <2>h. /\ LifeOf(r) /\ RowOf(r) /\ OverIsQuiet(r) /\ NotBefore(r) /\ CountTrue(r)
          /\ NumberAsked(r) \in Nat /\ mem[r].count \in Nat
      BY <1>i, Numbers DEF EachSession
    <2>A. LifeOf(r)'
      BY <1>i, <2>h, <1>u, <1>c, <1>e, <1>d, <1>f DEF LifeOf, Periodic, Active
    <2>R. RowOf(r)'
      BY <1>i, <2>h, <1>u, <1>c, <1>e, <1>d, <1>f DEF RowOf, Periodic, Active, Terminal
    <2>O. OverIsQuiet(r)'
      BY <1>i, <2>h, <1>u, <1>c, <1>e, <1>d, <1>f, NoFrameIsNone, Constants
         DEF OverIsQuiet, Over, Quiet, Persisting, Periodic, TakeEffect
    <2>B. NotBefore(r)'
      BY <1>i, <2>h, <1>u, <1>c, <1>e, <1>d, <1>f, Constants DEF NotBefore, Periodic, TakeEffect
    <2>C. CountTrue(r)'
      <3>1. ~Pending(r)
        BY <1>c, <1>f, NoFrameIsNone, Constants DEF Pending, Persisting
      <3>2. NumberAsked(r)' = IF r = p THEN NumberAsked(r) + 1 ELSE NumberAsked(r)
        BY <1>e DEF TakeEffect
      <3>3. r # p => ~Pending(r)'
        BY <1>u, <1>e, <1>f, Constants DEF Pending, Persisting, TakeEffect
      <3>4. QED
        BY <1>u, <2>h, <3>1, <3>2, <3>3 DEF CountTrue, Periodic
    <2>q. QED
      BY <2>A, <2>R, <2>O, <2>B, <2>C
  <1>q. QED
    BY <1>T, <1>S, <1>F, <1>L, <1>N, <1>W, <1>V, <1>P, <1>r DEF SessionInv, ThreadInv, QuietInv

LEMMA ExecuteStartStep ==
    ASSUME SessionInv, Execute, io.op = "START"
    PROVE  SessionInv'
  <1>i. Parts /\ EachSession
    BY PartsOf
  <1>u. /\ db' = db /\ taken' = taken /\ fired' = fired /\ spool' = spool /\ boot' = boot
        /\ acc' = acc /\ link' = link /\ stuck' = stuck /\ plan' = plan /\ pc' = pc
        /\ wpc' = wpc /\ spc' = spc /\ mem' = mem /\ listed' = listed /\ slock' = slock
        /\ handler' = handler /\ asker' = asker /\ owner' = owner /\ live' = live /\ faults' = faults
    BY DEF Execute, devVars, linkVars, thrVars, histVars
  <1>c. /\ io.pc = "sent" /\ sched = 0 /\ spool = NoFrame /\ io.boot = boot /\ link = "up"
    BY DEF Execute, OnLine, Accepts
  <1>d. /\ io' \in Ios /\ io'.pc = "answered" /\ io'.boot = io.boot
        /\ io'.op = io.op /\ io'.sess = io.sess /\ io'.frame = io.frame /\ io'.via = io.via
    BY <1>i DEF Execute, Parts, TypeOK, Ios
  <1>p. PICK p \in Sessions : p = io.sess /\ sched' = p /\ pc[p] = "wait" /\ Periodic(p)
    BY <1>i DEF Execute, Parts, Waits, TypeOK, Ios
  <1>n. fired = 0 /\ Asked(p) = {} /\ NumberAsked(p) = 0 /\ plan[p].limit \in Nat
    <2>1. NotBefore(p) /\ fired = 0
      BY <1>i, <1>c DEF Parts, EachSession, ScheduleTrue
    <2>2. Asked(p) = {}
      BY <1>c, <1>p, <2>1 DEF NotBefore
    <2>3. QED
      BY <1>i, <2>1, <2>2, FS_EmptySet DEF NumberAsked, Parts, TypeOK, Plans
  <1>k. \A r : Asked(r)' = Asked(r) /\ NumberAsked(r)' = NumberAsked(r)
    BY <1>u DEF Asked, NumberAsked
  <1>T. TypeOK'
    BY <1>i, <1>u, <1>c, <1>d, <1>p, <1>n, <1>k DEF Parts, TypeOK
  <1>S. StoreInv'
    BY <1>i, <1>u, <1>c, <1>d, <1>p, <1>n, <1>k DEF Parts, StoreInv, Saves, OwnerIsAsker
  <1>F. FramesTrue'
    BY <1>i, <1>u, <1>c, <1>d, Constants DEF Parts, FramesTrue, InHand
  <1>L. LinksTrue'
    BY <1>i, <1>u, <1>c, <1>d, <1>p, <1>n, <1>k DEF Parts, LinksTrue
  <1>N. NamesKnown'
    BY <1>i, <1>u, <1>c, <1>d, <1>p, <1>n, <1>k DEF Parts, NamesKnown, Known
  <1>W. Waits'
    BY <1>i, <1>u, <1>c, <1>d, <1>p, <1>n, <1>k DEF Parts, Waits, Periodic
  <1>V. ViaTrue'
    BY <1>i, <1>u, <1>c, <1>d, <1>p, <1>n, <1>k DEF Parts, ViaTrue, Periodic
  <1>P. ScheduleTrue'
    BY <1>i, <1>u, <1>c, <1>d, <1>p, <1>n, <1>k DEF Parts, ScheduleTrue, Periodic
  <1>r. ASSUME NEW r \in Sessions
        PROVE  LifeOf(r)' /\ RowOf(r)' /\ OverIsQuiet(r)' /\ NotBefore(r)' /\ CountTrue(r)'
    <2>h. /\ LifeOf(r) /\ RowOf(r) /\ OverIsQuiet(r) /\ NotBefore(r) /\ CountTrue(r)
          /\ NumberAsked(r) \in Nat /\ mem[r].count \in Nat
      BY <1>i, Numbers DEF EachSession
    <2>k. Asked(r)' = Asked(r) /\ NumberAsked(r)' = NumberAsked(r)
      BY <1>k
    <2>A. LifeOf(r)'
      BY <1>i, <2>h, <1>u, <1>c, <1>d, <1>p, <1>n, <2>k DEF LifeOf, Periodic, Active
    <2>R. RowOf(r)'
      BY <1>i, <2>h, <1>u, <1>c, <1>d, <1>p, <1>n, <2>k DEF RowOf, Periodic, Active, Terminal
    <2>O. OverIsQuiet(r)'
      BY <1>i, <2>h, <1>u, <1>c, <1>d, <1>p, <1>n, <2>k, NoFrameIsNone, Constants
         DEF OverIsQuiet, Over, Quiet, Persisting, Periodic, LifeOf
    <2>B. NotBefore(r)'
      BY <1>i, <2>h, <1>u, <1>c, <1>d, <1>p, <1>n, <2>k, Constants DEF NotBefore, Periodic
    <2>C. CountTrue(r)'
      BY <1>i, <2>h, <1>u, <1>c, <1>d, <1>p, <1>n, <2>k, NoFrameIsNone, Constants
         DEF CountTrue, Pending, Persisting, Periodic
    <2>q. QED
      BY <2>A, <2>R, <2>O, <2>B, <2>C
  <1>q. QED
    BY <1>T, <1>S, <1>F, <1>L, <1>N, <1>W, <1>V, <1>P, <1>r DEF SessionInv, ThreadInv, QuietInv

LEMMA ExecuteOnceStep ==
    ASSUME SessionInv, Execute, io.op = "ONCE"
    PROVE  SessionInv'
  <1>i. Parts /\ EachSession
    BY PartsOf
  <1>u. /\ db' = db /\ sched' = sched /\ fired' = fired /\ boot' = boot /\ acc' = acc
        /\ link' = link /\ stuck' = stuck /\ plan' = plan /\ pc' = pc /\ wpc' = wpc
        /\ spc' = spc /\ mem' = mem /\ listed' = listed /\ slock' = slock /\ handler' = handler
        /\ owner' = owner /\ live' = live /\ faults' = faults
    BY DEF Execute, devVars, linkVars, thrVars, histVars
  <1>c. /\ io.pc = "sent" /\ spool = NoFrame /\ io.boot = boot /\ link = "up"
    BY DEF Execute, OnLine, Accepts
  <1>d. /\ io' \in Ios /\ io'.pc = "answered" /\ io'.boot = io.boot
        /\ io'.op = io.op /\ io'.sess = io.sess /\ io'.frame = io.frame /\ io'.via = io.via
    BY <1>i DEF Execute, Parts, TypeOK, Ios
  <1>p. PICK p \in Sessions : p = io.sess /\ pc[p] = "wait" /\ ~Periodic(p) /\ Take(p)
    BY <1>i DEF Execute, Parts, Waits, TypeOK, Ios
  <1>e. TakeEffect(p)
    BY <1>i, <1>p, TakeIs
  <1>f. io.frame = NoFrame /\ io.pc \notin InHand /\ io.via = 0
    BY <1>i, <1>c DEF Parts, FramesTrue, InHand
  <1>T. TypeOK'
    BY <1>i, <1>u, <1>c, <1>d, <1>p, <1>e, <1>f DEF Parts, TypeOK, TakeEffect
  <1>S. StoreInv'
    BY <1>i, <1>d, <1>e, <1>u, TakeKeepsStore
  <1>F. FramesTrue'
    <2>1. taken \in Nat /\ Captures \subseteq Nat /\ 0 \notin Sessions
      BY <1>i, Constants DEF Parts, TypeOK
    <2>2. /\ \A c \in Captures : c > taken' => asker'[c] = 0
          /\ \A c \in Captures : owner'[c] # 0 => asker'[c] # 0
      BY <1>i, <1>u, <1>e, <2>1 DEF Parts, FramesTrue, TakeEffect
    <2>3. QED
      BY <1>i, <1>u, <1>d, <1>e, <1>f, <2>2 DEF Parts, FramesTrue, TakeEffect, InHand
  <1>L. LinksTrue'
    BY <1>i, <1>u, <1>c, <1>d, <1>p, <1>e, <1>f DEF Parts, LinksTrue, TakeEffect
  <1>N. NamesKnown'
    BY <1>i, <1>u, <1>c, <1>d, <1>p, <1>e, <1>f DEF Parts, NamesKnown, Known, TakeEffect
  <1>W. Waits'
    BY <1>i, <1>u, <1>c, <1>d, <1>p, <1>e, <1>f DEF Parts, Waits, Periodic
  <1>V. ViaTrue'
    BY <1>i, <1>u, <1>c, <1>d, <1>p, <1>e, <1>f DEF Parts, ViaTrue, Periodic
  <1>P. ScheduleTrue'
    <2>1. \A s \in Sessions : (Periodic(s)' <=> Periodic(s)) /\ (Periodic(s) => s # p)
      BY <1>u, <1>p DEF Periodic
    <2>2. \A s \in Sessions : s # p => NumberAsked(s)' = NumberAsked(s)
      BY <1>e DEF TakeEffect
    <2>3. ScheduleTrue /\ sched \in Sessions \cup {0}
      BY <1>i DEF Parts, TypeOK
    <2>4. sched' = 0 => fired' = 0
      BY <1>u, <2>3 DEF ScheduleTrue
    <2>5. sched' # 0 => /\ Periodic(sched)' /\ fired' = NumberAsked(sched)'
                        /\ plan'[sched'].limit # 0 => fired' < plan'[sched'].limit
      <3>1. SUFFICES ASSUME sched # 0
            PROVE  /\ Periodic(sched)' /\ fired' = NumberAsked(sched)'
                   /\ plan'[sched'].limit # 0 => fired' < plan'[sched'].limit
        BY <1>u
      <3>2. sched \in Sessions /\ Periodic(sched) /\ fired = NumberAsked(sched)
        BY <2>3, <3>1 DEF ScheduleTrue
      <3>3. sched' = sched /\ NumberAsked(sched)' = NumberAsked(sched)
        BY <1>u, <2>1, <2>2, <3>2
      <3>4. Periodic(sched)' /\ fired' = NumberAsked(sched)'
        BY <1>u, <2>1, <3>2, <3>3
      <3>5. QED
        BY <1>u, <2>3, <3>1, <3>4 DEF ScheduleTrue
    <2>6. \A s \in Sessions :
            Periodic(s)' /\ plan'[s].limit # 0 => NumberAsked(s)' <= plan'[s].limit
      BY <1>u, <2>1, <2>2, <2>3 DEF ScheduleTrue
    <2>7. QED
      BY <2>4, <2>5, <2>6 DEF ScheduleTrue
  <1>r. ASSUME NEW r \in Sessions
        PROVE  LifeOf(r)' /\ RowOf(r)' /\ OverIsQuiet(r)' /\ NotBefore(r)' /\ CountTrue(r)'
    <2>h. /\ LifeOf(r) /\ RowOf(r) /\ OverIsQuiet(r) /\ NotBefore(r) /\ CountTrue(r)
          /\ NumberAsked(r) \in Nat /\ mem[r].count \in Nat
      BY <1>i, Numbers DEF EachSession
    <2>p. Periodic(r) => r # p /\ Asked(r)' = Asked(r) /\ NumberAsked(r)' = NumberAsked(r)
      BY <1>p, <1>e DEF TakeEffect
    <2>A. LifeOf(r)'
      BY <1>i, <2>h, <1>u, <1>c, <1>d, <1>p, <1>e, <1>f, <2>p DEF LifeOf, Periodic, Active
    <2>R. RowOf(r)'
      BY <1>i, <2>h, <1>u, <1>c, <1>d, <1>p, <1>e, <1>f, <2>p DEF RowOf, Periodic, Active, Terminal
    <2>O. OverIsQuiet(r)'
      BY <1>i, <2>h, <1>u, <1>c, <1>d, <1>p, <1>e, <1>f, <2>p, NoFrameIsNone, Constants
         DEF OverIsQuiet, Over, Quiet, Persisting, Periodic, TakeEffect
    <2>B. NotBefore(r)'
      BY <1>i, <2>h, <1>u, <1>c, <1>d, <1>p, <1>e, <1>f, <2>p, Constants DEF NotBefore, Periodic
    <2>C. CountTrue(r)'
      BY <1>i, <2>h, <1>u, <1>c, <1>d, <1>p, <1>e, <1>f, <2>p, NoFrameIsNone, Constants
         DEF CountTrue, Pending, Persisting, Periodic, TakeEffect
    <2>q. QED
      BY <2>A, <2>R, <2>O, <2>B, <2>C
  <1>q. QED
    BY <1>T, <1>S, <1>F, <1>L, <1>N, <1>W, <1>V, <1>P, <1>r DEF SessionInv, ThreadInv, QuietInv

LEMMA QueryStep ==
    ASSUME SessionInv, Query
    PROVE  SessionInv'
  <1>i. Parts /\ EachSession
    BY PartsOf
  <1>u. /\ db' = db /\ taken' = taken /\ sched' = sched /\ fired' = fired /\ spool' = spool
        /\ boot' = boot /\ acc' = acc /\ link' = link /\ stuck' = stuck /\ plan' = plan
        /\ pc' = pc /\ wpc' = wpc /\ spc' = spc /\ mem' = mem /\ listed' = listed
        /\ slock' = slock /\ handler' = handler /\ asker' = asker /\ owner' = owner /\ live' = live
        /\ faults' = faults
    BY DEF Query, devVars, linkVars, thrVars, histVars
  <1>c. io.pc = "free" /\ io'.op = "QUERY" /\ io'.sess = 0 /\ io'.pc = "sent" /\ io'.boot = boot
        /\ io'.via = 0 /\ io'.frame = NoFrame /\ io' \in Ios
    BY <1>i DEF Query, Begin, NoIo, Parts, TypeOK, Ios, Ops, Resolutions
  <1>k. \A r : Asked(r)' = Asked(r) /\ NumberAsked(r)' = NumberAsked(r)
    BY <1>u DEF Asked, NumberAsked
  <1>T. TypeOK'
    BY <1>i, <1>u, <1>c, <1>k DEF Parts, TypeOK
  <1>S. StoreInv'
    BY <1>i, <1>u, <1>c, <1>k DEF Parts, StoreInv, Saves, OwnerIsAsker
  <1>F. FramesTrue'
    BY <1>i, <1>u, <1>c, <1>k DEF Parts, FramesTrue, InHand
  <1>L. LinksTrue'
    BY <1>i, <1>u, <1>c, <1>k DEF Parts, LinksTrue
  <1>N. NamesKnown'
    BY <1>i, <1>u, <1>c, <1>k DEF Parts, NamesKnown, Known
  <1>W. Waits'
    BY <1>i, <1>u, <1>c, <1>k DEF Parts, Waits, Periodic, FramesTrue
  <1>V. ViaTrue'
    BY <1>i, <1>u, <1>c, <1>k DEF Parts, ViaTrue, Periodic
  <1>P. ScheduleTrue'
    BY <1>i, <1>u, <1>c, <1>k DEF Parts, ScheduleTrue, Periodic
  <1>r. ASSUME NEW r \in Sessions
        PROVE  LifeOf(r)' /\ RowOf(r)' /\ OverIsQuiet(r)' /\ NotBefore(r)' /\ CountTrue(r)'
    <2>h. /\ LifeOf(r) /\ RowOf(r) /\ OverIsQuiet(r) /\ NotBefore(r) /\ CountTrue(r)
          /\ NumberAsked(r) \in Nat /\ mem[r].count \in Nat
      BY <1>i, Numbers DEF EachSession
    <2>k. Asked(r)' = Asked(r) /\ NumberAsked(r)' = NumberAsked(r)
      BY <1>k
    <2>A. LifeOf(r)'
      BY <1>i, <2>h, <1>u, <1>c, <2>k DEF LifeOf, Periodic, Active
    <2>R. RowOf(r)'
      BY <1>i, <2>h, <1>u, <1>c, <2>k DEF RowOf, Periodic, Active, Terminal
    <2>O. OverIsQuiet(r)'
      BY <1>i, <2>h, <1>u, <1>c, <2>k, NoFrameIsNone, Constants
         DEF OverIsQuiet, Over, Quiet, Persisting, Periodic
    <2>B. NotBefore(r)'
      BY <1>i, <2>h, <1>u, <1>c, <2>k, Constants DEF NotBefore, Periodic
    <2>C. CountTrue(r)'
      BY <1>i, <2>h, <1>u, <1>c, <2>k, NoFrameIsNone, Constants
         DEF CountTrue, Pending, Persisting, Periodic
    <2>q. QED
      BY <2>A, <2>R, <2>O, <2>B, <2>C
  <1>q. QED
    BY <1>T, <1>S, <1>F, <1>L, <1>N, <1>W, <1>V, <1>P, <1>r DEF SessionInv, ThreadInv, QuietInv

LEMMA StartIoStep ==
    ASSUME SessionInv, NEW s \in Sessions, StartIo(s)
    PROVE  SessionInv'
  <1>i. Parts /\ EachSession
    BY PartsOf
  <1>u. /\ db' = db /\ taken' = taken /\ sched' = sched /\ fired' = fired /\ spool' = spool
        /\ boot' = boot /\ acc' = acc /\ link' = link /\ stuck' = stuck /\ plan' = plan
        /\ wpc' = wpc /\ spc' = spc /\ mem' = mem /\ listed' = listed /\ slock' = slock
        /\ handler' = handler /\ asker' = asker /\ owner' = owner /\ live' = live /\ faults' = faults
    BY DEF StartIo, WorkerTo, devVars, linkVars, thrVars, histVars
  <1>c. /\ io.pc = "free" /\ io'.op = "START" /\ io'.sess = s /\ io'.pc = "sent" /\ io'.boot = boot
        /\ io'.via = 0 /\ io'.frame = NoFrame /\ io' \in Ios
    BY <1>i DEF StartIo, WorkerTo, Begin, NoIo, Parts, TypeOK, Ios, Ops, Resolutions
  <1>d. /\ pc' \in [Sessions -> ThreadPcs] /\ pc'[s] = "wait"
        /\ \A r \in Sessions : r # s => pc'[r] = pc[r]
        /\ pc[s] = "io" /\ plan[s].kind = "PERIODIC"
    BY <1>i DEF StartIo, WorkerTo, Begin, Go, Parts, TypeOK, ThreadPcs
  <1>k. \A r : Asked(r)' = Asked(r) /\ NumberAsked(r)' = NumberAsked(r)
    BY <1>u DEF Asked, NumberAsked
  <1>T. TypeOK'
    BY <1>i, <1>u, <1>c, <1>d, <1>k DEF Parts, TypeOK
  <1>S. StoreInv'
    BY <1>i, <1>u, <1>c, <1>d, <1>k DEF Parts, StoreInv, Saves, OwnerIsAsker
  <1>F. FramesTrue'
    BY <1>i, <1>u, <1>c, <1>d, <1>k DEF Parts, FramesTrue, InHand
  <1>L. LinksTrue'
    BY <1>i, <1>u, <1>c, <1>d, <1>k DEF Parts, LinksTrue
  <1>N. NamesKnown'
    <2>1. \A r \in Sessions : pc[r] # "new" => pc'[r] # "new"
      BY <1>d
    <2>2. \A r \in Sessions \cup {0} : Known(r) => Known(r)'
      BY <2>1 DEF Known
    <2>3. /\ \A x \in Captures : asker[x] \in Sessions \cup {0} /\ owner[x] \in Sessions \cup {0}
          /\ \A b \in Boots : db.policy[b].session \in Sessions \cup {0}
          /\ sched \in Sessions \cup {0} /\ handler \in Sessions \cup {0}
      BY <1>i, PolicyType DEF Parts, TypeOK
    <2>4. QED
      BY <1>i, <1>u, <2>2, <2>3 DEF Parts, NamesKnown
  <1>W. Waits'
    <2>1. (\A r \in Sessions : pc[r] # "wait") /\ s # 0
      BY <1>i, <1>c, Constants DEF Parts, Waits, FramesTrue
    <2>2. QED
      BY <1>u, <1>c, <1>d, <2>1 DEF Waits, Periodic
  <1>V. ViaTrue'
    <2>1. handler \in Sessions \cup {0} /\ \A r \in Sessions : Periodic(r)' <=> Periodic(r)
      BY <1>i, <1>u DEF Parts, TypeOK, Periodic
    <2>2. \A r \in Sessions : pc[r] \notin {"checked", "cut"} => pc'[r] \notin {"checked", "cut"}
      BY <1>d
    <2>3. QED
      BY <1>i, <1>u, <1>c, <2>1, <2>2 DEF Parts, ViaTrue
  <1>P. ScheduleTrue'
    BY <1>i, <1>u, <1>c, <1>d, <1>k DEF Parts, ScheduleTrue, Periodic
  <1>r. ASSUME NEW r \in Sessions
        PROVE  LifeOf(r)' /\ RowOf(r)' /\ OverIsQuiet(r)' /\ NotBefore(r)' /\ CountTrue(r)'
    <2>h. /\ LifeOf(r) /\ RowOf(r) /\ OverIsQuiet(r) /\ NotBefore(r) /\ CountTrue(r)
          /\ NumberAsked(r) \in Nat /\ mem[r].count \in Nat
      BY <1>i, Numbers DEF EachSession
    <2>k. Asked(r)' = Asked(r) /\ NumberAsked(r)' = NumberAsked(r)
      BY <1>k
    <2>A. LifeOf(r)'
      BY <1>i, <2>h, <1>u, <1>c, <1>d, <2>k DEF LifeOf, Periodic, Active
    <2>R. RowOf(r)'
      BY <1>i, <2>h, <1>u, <1>c, <1>d, <2>k DEF RowOf, Periodic, Active, Terminal
    <2>O. OverIsQuiet(r)'
      BY <1>i, <2>h, <1>u, <1>c, <1>d, <2>k, NoFrameIsNone, Constants
         DEF OverIsQuiet, Over, Quiet, Persisting, Periodic
    <2>B. NotBefore(r)'
      BY <1>i, <2>h, <1>u, <1>c, <1>d, <2>k, Constants DEF NotBefore, Periodic
    <2>C. CountTrue(r)'
      BY <1>i, <2>h, <1>u, <1>c, <1>d, <2>k, NoFrameIsNone, Constants
         DEF CountTrue, Pending, Persisting, Periodic
    <2>q. QED
      BY <2>A, <2>R, <2>O, <2>B, <2>C
  <1>q. QED
    BY <1>T, <1>S, <1>F, <1>L, <1>N, <1>W, <1>V, <1>P, <1>r DEF SessionInv, ThreadInv, QuietInv

LEMMA OnceIoStep ==
    ASSUME SessionInv, NEW s \in Sessions, OnceIo(s)
    PROVE  SessionInv'
  <1>i. Parts /\ EachSession
    BY PartsOf
  <1>u. /\ db' = db /\ taken' = taken /\ sched' = sched /\ fired' = fired /\ spool' = spool
        /\ boot' = boot /\ acc' = acc /\ link' = link /\ stuck' = stuck /\ plan' = plan
        /\ wpc' = wpc /\ spc' = spc /\ mem' = mem /\ listed' = listed /\ slock' = slock
        /\ handler' = handler /\ asker' = asker /\ owner' = owner /\ live' = live /\ faults' = faults
    BY DEF OnceIo, WorkerTo, devVars, linkVars, thrVars, histVars
  <1>c. /\ io.pc = "free" /\ io'.op = "ONCE" /\ io'.sess = s /\ io'.pc = "sent" /\ io'.boot = boot
        /\ io'.via = 0 /\ io'.frame = NoFrame /\ io' \in Ios
    BY <1>i DEF OnceIo, WorkerTo, Begin, NoIo, Parts, TypeOK, Ios, Ops, Resolutions
  <1>d. /\ pc' \in [Sessions -> ThreadPcs] /\ pc'[s] = "wait"
        /\ \A r \in Sessions : r # s => pc'[r] = pc[r]
        /\ pc[s] = "io" /\ plan[s].kind = "SINGLE"
    BY <1>i DEF OnceIo, WorkerTo, Begin, Go, Parts, TypeOK, ThreadPcs
  <1>k. \A r : Asked(r)' = Asked(r) /\ NumberAsked(r)' = NumberAsked(r)
    BY <1>u DEF Asked, NumberAsked
  <1>T. TypeOK'
    BY <1>i, <1>u, <1>c, <1>d, <1>k DEF Parts, TypeOK
  <1>S. StoreInv'
    BY <1>i, <1>u, <1>c, <1>d, <1>k DEF Parts, StoreInv, Saves, OwnerIsAsker
  <1>F. FramesTrue'
    BY <1>i, <1>u, <1>c, <1>d, <1>k DEF Parts, FramesTrue, InHand
  <1>L. LinksTrue'
    BY <1>i, <1>u, <1>c, <1>d, <1>k DEF Parts, LinksTrue
  <1>N. NamesKnown'
    <2>1. \A r \in Sessions : pc[r] # "new" => pc'[r] # "new"
      BY <1>d
    <2>2. \A r \in Sessions \cup {0} : Known(r) => Known(r)'
      BY <2>1 DEF Known
    <2>3. /\ \A x \in Captures : asker[x] \in Sessions \cup {0} /\ owner[x] \in Sessions \cup {0}
          /\ \A b \in Boots : db.policy[b].session \in Sessions \cup {0}
          /\ sched \in Sessions \cup {0} /\ handler \in Sessions \cup {0}
      BY <1>i, PolicyType DEF Parts, TypeOK
    <2>4. QED
      BY <1>i, <1>u, <2>2, <2>3 DEF Parts, NamesKnown
  <1>W. Waits'
    <2>1. (\A r \in Sessions : pc[r] # "wait") /\ s # 0
      BY <1>i, <1>c, Constants DEF Parts, Waits, FramesTrue
    <2>2. QED
      BY <1>u, <1>c, <1>d, <2>1 DEF Waits, Periodic
  <1>V. ViaTrue'
    <2>1. handler \in Sessions \cup {0} /\ \A r \in Sessions : Periodic(r)' <=> Periodic(r)
      BY <1>i, <1>u DEF Parts, TypeOK, Periodic
    <2>2. \A r \in Sessions : pc[r] \notin {"checked", "cut"} => pc'[r] \notin {"checked", "cut"}
      BY <1>d
    <2>3. QED
      BY <1>i, <1>u, <1>c, <2>1, <2>2 DEF Parts, ViaTrue
  <1>P. ScheduleTrue'
    BY <1>i, <1>u, <1>c, <1>d, <1>k DEF Parts, ScheduleTrue, Periodic
  <1>r. ASSUME NEW r \in Sessions
        PROVE  LifeOf(r)' /\ RowOf(r)' /\ OverIsQuiet(r)' /\ NotBefore(r)' /\ CountTrue(r)'
    <2>h. /\ LifeOf(r) /\ RowOf(r) /\ OverIsQuiet(r) /\ NotBefore(r) /\ CountTrue(r)
          /\ NumberAsked(r) \in Nat /\ mem[r].count \in Nat
      BY <1>i, Numbers DEF EachSession
    <2>k. Asked(r)' = Asked(r) /\ NumberAsked(r)' = NumberAsked(r)
      BY <1>k
    <2>A. LifeOf(r)'
      BY <1>i, <2>h, <1>u, <1>c, <1>d, <2>k DEF LifeOf, Periodic, Active
    <2>R. RowOf(r)'
      BY <1>i, <2>h, <1>u, <1>c, <1>d, <2>k DEF RowOf, Periodic, Active, Terminal
    <2>O. OverIsQuiet(r)'
      BY <1>i, <2>h, <1>u, <1>c, <1>d, <2>k, NoFrameIsNone, Constants
         DEF OverIsQuiet, Over, Quiet, Persisting, Periodic
    <2>B. NotBefore(r)'
      BY <1>i, <2>h, <1>u, <1>c, <1>d, <2>k, Constants DEF NotBefore, Periodic
    <2>C. CountTrue(r)'
      BY <1>i, <2>h, <1>u, <1>c, <1>d, <2>k, NoFrameIsNone, Constants
         DEF CountTrue, Pending, Persisting, Periodic
    <2>q. QED
      BY <2>A, <2>R, <2>O, <2>B, <2>C
  <1>q. QED
    BY <1>T, <1>S, <1>F, <1>L, <1>N, <1>W, <1>V, <1>P, <1>r DEF SessionInv, ThreadInv, QuietInv

LEMMA StopIoStep ==
    ASSUME SessionInv, NEW s \in Sessions, StopIo(s)
    PROVE  SessionInv'
  <1>i. Parts /\ EachSession
    BY PartsOf
  <1>u. /\ db' = db /\ taken' = taken /\ sched' = sched /\ fired' = fired /\ spool' = spool
        /\ boot' = boot /\ acc' = acc /\ link' = link /\ stuck' = stuck /\ plan' = plan
        /\ pc' = pc /\ wpc' = wpc /\ mem' = mem /\ listed' = listed /\ slock' = slock
        /\ handler' = handler /\ asker' = asker /\ owner' = owner /\ live' = live /\ faults' = faults
    BY DEF StopIo, WorkerTo, devVars, linkVars, thrVars, histVars
  <1>c. /\ io.pc = "free" /\ io'.op = "STOP" /\ io'.sess = s /\ io'.pc = "sent" /\ io'.boot = boot
        /\ io'.via = 0 /\ io'.frame = NoFrame /\ io' \in Ios
    BY <1>i DEF StopIo, WorkerTo, Begin, NoIo, Parts, TypeOK, Ios, Ops, Resolutions
  <1>d. /\ spc' \in [Sessions -> StopPcs] /\ spc'[s] = "wait"
        /\ \A r \in Sessions : r # s => spc'[r] = spc[r]
        /\ spc[s] = "io"
    BY <1>i DEF StopIo, WorkerTo, Begin, Go, Parts, TypeOK, StopPcs
  <1>k. \A r : Asked(r)' = Asked(r) /\ NumberAsked(r)' = NumberAsked(r)
    BY <1>u DEF Asked, NumberAsked
  <1>T. TypeOK'
    BY <1>i, <1>u, <1>c, <1>d, <1>k DEF Parts, TypeOK
  <1>S. StoreInv'
    BY <1>i, <1>u, <1>c, <1>d, <1>k DEF Parts, StoreInv, Saves, OwnerIsAsker
  <1>F. FramesTrue'
    BY <1>i, <1>u, <1>c, <1>d, <1>k DEF Parts, FramesTrue, InHand
  <1>L. LinksTrue'
    BY <1>i, <1>u, <1>c, <1>d, <1>k DEF Parts, LinksTrue
  <1>N. NamesKnown'
    BY <1>i, <1>u, <1>c, <1>d, <1>k DEF Parts, NamesKnown, Known
  <1>W. Waits'
    <2>1. (\A r \in Sessions : pc[r] # "wait") /\ s # 0
      BY <1>i, <1>c, Constants DEF Parts, Waits, FramesTrue
    <2>2. QED
      BY <1>u, <1>c, <1>d, <2>1 DEF Waits, Periodic
  <1>V. ViaTrue'
    BY <1>i, <1>u, <1>c, <1>d, <1>k DEF Parts, ViaTrue, Periodic
  <1>P. ScheduleTrue'
    BY <1>i, <1>u, <1>c, <1>d, <1>k DEF Parts, ScheduleTrue, Periodic
  <1>r. ASSUME NEW r \in Sessions
        PROVE  LifeOf(r)' /\ RowOf(r)' /\ OverIsQuiet(r)' /\ NotBefore(r)' /\ CountTrue(r)'
    <2>h. /\ LifeOf(r) /\ RowOf(r) /\ OverIsQuiet(r) /\ NotBefore(r) /\ CountTrue(r)
          /\ NumberAsked(r) \in Nat /\ mem[r].count \in Nat
      BY <1>i, Numbers DEF EachSession
    <2>k. Asked(r)' = Asked(r) /\ NumberAsked(r)' = NumberAsked(r)
      BY <1>k
    <2>A. LifeOf(r)'
      BY <1>i, <2>h, <1>u, <1>c, <1>d, <2>k DEF LifeOf, Periodic, Active
    <2>R. RowOf(r)'
      BY <1>i, <2>h, <1>u, <1>c, <1>d, <2>k DEF RowOf, Periodic, Active, Terminal
    <2>O. OverIsQuiet(r)'
      BY <1>i, <2>h, <1>u, <1>c, <1>d, <2>k, NoFrameIsNone, Constants
         DEF OverIsQuiet, Over, Quiet, Persisting, Periodic
    <2>B. NotBefore(r)'
      BY <1>i, <2>h, <1>u, <1>c, <1>d, <2>k, Constants DEF NotBefore, Periodic
    <2>C. CountTrue(r)'
      BY <1>i, <2>h, <1>u, <1>c, <1>d, <2>k, NoFrameIsNone, Constants
         DEF CountTrue, Pending, Persisting, Periodic
    <2>q. QED
      BY <2>A, <2>R, <2>O, <2>B, <2>C
  <1>q. QED
    BY <1>T, <1>S, <1>F, <1>L, <1>N, <1>W, <1>V, <1>P, <1>r DEF SessionInv, ThreadInv, QuietInv

LEMMA WorkerRenewStep ==
    ASSUME SessionInv, NEW s \in Sessions, WorkerIo(s), wpc[s] = "renew"
    PROVE  SessionInv'
  <1>i. Parts /\ EachSession
    BY PartsOf
  <1>u. /\ db' = db /\ taken' = taken /\ sched' = sched /\ fired' = fired /\ spool' = spool
        /\ boot' = boot /\ acc' = acc /\ link' = link /\ stuck' = stuck /\ plan' = plan
        /\ pc' = pc /\ spc' = spc /\ mem' = mem /\ listed' = listed /\ slock' = slock
        /\ handler' = handler /\ asker' = asker /\ owner' = owner /\ live' = live /\ faults' = faults
    BY DEF WorkerIo, WorkerTo, devVars, linkVars, thrVars, histVars
  <1>c. /\ io.pc = "free" /\ io'.op = "RENEW" /\ io'.sess = s /\ io'.pc = "sent" /\ io'.boot = boot
        /\ io'.via = 0 /\ io'.frame = NoFrame /\ io' \in Ios
    BY <1>i DEF WorkerIo, WorkerTo, Begin, NoIo, Parts, TypeOK, Ios, Ops, Resolutions
  <1>d. /\ wpc' \in [Sessions -> WorkerPcs] /\ wpc'[s] = "wait"
        /\ \A r \in Sessions : r # s => wpc'[r] = wpc[r]
        /\ wpc[s] = "renew"
    BY <1>i DEF WorkerIo, WorkerTo, Begin, Go, Parts, TypeOK, WorkerPcs
  <1>k. \A r : Asked(r)' = Asked(r) /\ NumberAsked(r)' = NumberAsked(r)
    BY <1>u DEF Asked, NumberAsked
  <1>T. TypeOK'
    BY <1>i, <1>u, <1>c, <1>d, <1>k DEF Parts, TypeOK
  <1>S. StoreInv'
    BY <1>i, <1>u, <1>c, <1>d, <1>k DEF Parts, StoreInv, Saves, OwnerIsAsker
  <1>F. FramesTrue'
    BY <1>i, <1>u, <1>c, <1>d, <1>k DEF Parts, FramesTrue, InHand
  <1>L. LinksTrue'
    BY <1>i, <1>u, <1>c, <1>d, <1>k DEF Parts, LinksTrue
  <1>N. NamesKnown'
    BY <1>i, <1>u, <1>c, <1>d, <1>k DEF Parts, NamesKnown, Known
  <1>W. Waits'
    <2>1. (\A r \in Sessions : pc[r] # "wait") /\ s # 0
      BY <1>i, <1>c, Constants DEF Parts, Waits, FramesTrue
    <2>2. QED
      BY <1>u, <1>c, <1>d, <2>1 DEF Waits, Periodic
  <1>V. ViaTrue'
    BY <1>i, <1>u, <1>c, <1>d, <1>k DEF Parts, ViaTrue, Periodic
  <1>P. ScheduleTrue'
    BY <1>i, <1>u, <1>c, <1>d, <1>k DEF Parts, ScheduleTrue, Periodic
  <1>r. ASSUME NEW r \in Sessions
        PROVE  LifeOf(r)' /\ RowOf(r)' /\ OverIsQuiet(r)' /\ NotBefore(r)' /\ CountTrue(r)'
    <2>h. /\ LifeOf(r) /\ RowOf(r) /\ OverIsQuiet(r) /\ NotBefore(r) /\ CountTrue(r)
          /\ NumberAsked(r) \in Nat /\ mem[r].count \in Nat
      BY <1>i, Numbers DEF EachSession
    <2>k. Asked(r)' = Asked(r) /\ NumberAsked(r)' = NumberAsked(r)
      BY <1>k
    <2>A. LifeOf(r)'
      BY <1>i, <2>h, <1>u, <1>c, <1>d, <2>k DEF LifeOf, Periodic, Active
    <2>R. RowOf(r)'
      BY <1>i, <2>h, <1>u, <1>c, <1>d, <2>k DEF RowOf, Periodic, Active, Terminal
    <2>O. OverIsQuiet(r)'
      BY <1>i, <2>h, <1>u, <1>c, <1>d, <2>k, NoFrameIsNone, Constants
         DEF OverIsQuiet, Over, Quiet, Persisting, Periodic
    <2>B. NotBefore(r)'
      BY <1>i, <2>h, <1>u, <1>c, <1>d, <2>k, Constants DEF NotBefore, Periodic
    <2>C. CountTrue(r)'
      BY <1>i, <2>h, <1>u, <1>c, <1>d, <2>k, NoFrameIsNone, Constants
         DEF CountTrue, Pending, Persisting, Periodic
    <2>q. QED
      BY <2>A, <2>R, <2>O, <2>B, <2>C
  <1>q. QED
    BY <1>T, <1>S, <1>F, <1>L, <1>N, <1>W, <1>V, <1>P, <1>r DEF SessionInv, ThreadInv, QuietInv

LEMMA WorkerPollStep ==
    ASSUME SessionInv, NEW s \in Sessions, WorkerIo(s), wpc[s] = "poll"
    PROVE  SessionInv'
  <1>i. Parts /\ EachSession
    BY PartsOf
  <1>u. /\ db' = db /\ taken' = taken /\ sched' = sched /\ fired' = fired /\ spool' = spool
        /\ boot' = boot /\ acc' = acc /\ link' = link /\ stuck' = stuck /\ plan' = plan
        /\ pc' = pc /\ spc' = spc /\ mem' = mem /\ listed' = listed /\ slock' = slock
        /\ handler' = handler /\ asker' = asker /\ owner' = owner /\ live' = live /\ faults' = faults
    BY DEF WorkerIo, WorkerTo, devVars, linkVars, thrVars, histVars
  <1>c. /\ io.pc = "free" /\ io'.op = "POLL" /\ io'.sess = s /\ io'.pc = "sent" /\ io'.boot = boot
        /\ io'.via = 0 /\ io'.frame = NoFrame /\ io' \in Ios
    BY <1>i DEF WorkerIo, WorkerTo, Begin, NoIo, Parts, TypeOK, Ios, Ops, Resolutions
  <1>d. /\ wpc' \in [Sessions -> WorkerPcs] /\ wpc'[s] = "wait"
        /\ \A r \in Sessions : r # s => wpc'[r] = wpc[r]
        /\ wpc[s] = "poll"
    BY <1>i DEF WorkerIo, WorkerTo, Begin, Go, Parts, TypeOK, WorkerPcs
  <1>k. \A r : Asked(r)' = Asked(r) /\ NumberAsked(r)' = NumberAsked(r)
    BY <1>u DEF Asked, NumberAsked
  <1>T. TypeOK'
    BY <1>i, <1>u, <1>c, <1>d, <1>k DEF Parts, TypeOK
  <1>S. StoreInv'
    BY <1>i, <1>u, <1>c, <1>d, <1>k DEF Parts, StoreInv, Saves, OwnerIsAsker
  <1>F. FramesTrue'
    BY <1>i, <1>u, <1>c, <1>d, <1>k DEF Parts, FramesTrue, InHand
  <1>L. LinksTrue'
    BY <1>i, <1>u, <1>c, <1>d, <1>k DEF Parts, LinksTrue
  <1>N. NamesKnown'
    BY <1>i, <1>u, <1>c, <1>d, <1>k DEF Parts, NamesKnown, Known
  <1>W. Waits'
    <2>1. (\A r \in Sessions : pc[r] # "wait") /\ s # 0
      BY <1>i, <1>c, Constants DEF Parts, Waits, FramesTrue
    <2>2. QED
      BY <1>u, <1>c, <1>d, <2>1 DEF Waits, Periodic
  <1>V. ViaTrue'
    BY <1>i, <1>u, <1>c, <1>d, <1>k DEF Parts, ViaTrue, Periodic
  <1>P. ScheduleTrue'
    BY <1>i, <1>u, <1>c, <1>d, <1>k DEF Parts, ScheduleTrue, Periodic
  <1>r. ASSUME NEW r \in Sessions
        PROVE  LifeOf(r)' /\ RowOf(r)' /\ OverIsQuiet(r)' /\ NotBefore(r)' /\ CountTrue(r)'
    <2>h. /\ LifeOf(r) /\ RowOf(r) /\ OverIsQuiet(r) /\ NotBefore(r) /\ CountTrue(r)
          /\ NumberAsked(r) \in Nat /\ mem[r].count \in Nat
      BY <1>i, Numbers DEF EachSession
    <2>k. Asked(r)' = Asked(r) /\ NumberAsked(r)' = NumberAsked(r)
      BY <1>k
    <2>A. LifeOf(r)'
      BY <1>i, <2>h, <1>u, <1>c, <1>d, <2>k DEF LifeOf, Periodic, Active
    <2>R. RowOf(r)'
      BY <1>i, <2>h, <1>u, <1>c, <1>d, <2>k DEF RowOf, Periodic, Active, Terminal
    <2>O. OverIsQuiet(r)'
      BY <1>i, <2>h, <1>u, <1>c, <1>d, <2>k, NoFrameIsNone, Constants
         DEF OverIsQuiet, Over, Quiet, Persisting, Periodic
    <2>B. NotBefore(r)'
      BY <1>i, <2>h, <1>u, <1>c, <1>d, <2>k, Constants DEF NotBefore, Periodic
    <2>C. CountTrue(r)'
      BY <1>i, <2>h, <1>u, <1>c, <1>d, <2>k, NoFrameIsNone, Constants
         DEF CountTrue, Pending, Persisting, Periodic
    <2>q. QED
      BY <2>A, <2>R, <2>O, <2>B, <2>C
  <1>q. QED
    BY <1>T, <1>S, <1>F, <1>L, <1>N, <1>W, <1>V, <1>P, <1>r DEF SessionInv, ThreadInv, QuietInv

LEMMA WorkerAbortStep ==
    ASSUME SessionInv, NEW s \in Sessions, WorkerIo(s), wpc[s] = "abort"
    PROVE  SessionInv'
  <1>i. Parts /\ EachSession
    BY PartsOf
  <1>u. /\ db' = db /\ taken' = taken /\ sched' = sched /\ fired' = fired /\ spool' = spool
        /\ boot' = boot /\ acc' = acc /\ link' = link /\ stuck' = stuck /\ plan' = plan
        /\ pc' = pc /\ spc' = spc /\ mem' = mem /\ listed' = listed /\ slock' = slock
        /\ handler' = handler /\ asker' = asker /\ owner' = owner /\ live' = live /\ faults' = faults
    BY DEF WorkerIo, WorkerTo, devVars, linkVars, thrVars, histVars
  <1>c. /\ io.pc = "free" /\ io'.op = "ABORT" /\ io'.sess = s /\ io'.pc = "sent" /\ io'.boot = boot
        /\ io'.via = 0 /\ io'.frame = NoFrame /\ io' \in Ios
    BY <1>i DEF WorkerIo, WorkerTo, Begin, NoIo, Parts, TypeOK, Ios, Ops, Resolutions
  <1>d. /\ wpc' \in [Sessions -> WorkerPcs] /\ wpc'[s] = "wait"
        /\ \A r \in Sessions : r # s => wpc'[r] = wpc[r]
        /\ wpc[s] = "abort"
    BY <1>i DEF WorkerIo, WorkerTo, Begin, Go, Parts, TypeOK, WorkerPcs
  <1>k. \A r : Asked(r)' = Asked(r) /\ NumberAsked(r)' = NumberAsked(r)
    BY <1>u DEF Asked, NumberAsked
  <1>T. TypeOK'
    BY <1>i, <1>u, <1>c, <1>d, <1>k DEF Parts, TypeOK
  <1>S. StoreInv'
    BY <1>i, <1>u, <1>c, <1>d, <1>k DEF Parts, StoreInv, Saves, OwnerIsAsker
  <1>F. FramesTrue'
    BY <1>i, <1>u, <1>c, <1>d, <1>k DEF Parts, FramesTrue, InHand
  <1>L. LinksTrue'
    BY <1>i, <1>u, <1>c, <1>d, <1>k DEF Parts, LinksTrue
  <1>N. NamesKnown'
    BY <1>i, <1>u, <1>c, <1>d, <1>k DEF Parts, NamesKnown, Known
  <1>W. Waits'
    <2>1. (\A r \in Sessions : pc[r] # "wait") /\ s # 0
      BY <1>i, <1>c, Constants DEF Parts, Waits, FramesTrue
    <2>2. QED
      BY <1>u, <1>c, <1>d, <2>1 DEF Waits, Periodic
  <1>V. ViaTrue'
    BY <1>i, <1>u, <1>c, <1>d, <1>k DEF Parts, ViaTrue, Periodic
  <1>P. ScheduleTrue'
    BY <1>i, <1>u, <1>c, <1>d, <1>k DEF Parts, ScheduleTrue, Periodic
  <1>r. ASSUME NEW r \in Sessions
        PROVE  LifeOf(r)' /\ RowOf(r)' /\ OverIsQuiet(r)' /\ NotBefore(r)' /\ CountTrue(r)'
    <2>h. /\ LifeOf(r) /\ RowOf(r) /\ OverIsQuiet(r) /\ NotBefore(r) /\ CountTrue(r)
          /\ NumberAsked(r) \in Nat /\ mem[r].count \in Nat
      BY <1>i, Numbers DEF EachSession
    <2>k. Asked(r)' = Asked(r) /\ NumberAsked(r)' = NumberAsked(r)
      BY <1>k
    <2>A. LifeOf(r)'
      BY <1>i, <2>h, <1>u, <1>c, <1>d, <2>k DEF LifeOf, Periodic, Active
    <2>R. RowOf(r)'
      BY <1>i, <2>h, <1>u, <1>c, <1>d, <2>k DEF RowOf, Periodic, Active, Terminal
    <2>O. OverIsQuiet(r)'
      BY <1>i, <2>h, <1>u, <1>c, <1>d, <2>k, NoFrameIsNone, Constants
         DEF OverIsQuiet, Over, Quiet, Persisting, Periodic
    <2>B. NotBefore(r)'
      BY <1>i, <2>h, <1>u, <1>c, <1>d, <2>k, Constants DEF NotBefore, Periodic
    <2>C. CountTrue(r)'
      BY <1>i, <2>h, <1>u, <1>c, <1>d, <2>k, NoFrameIsNone, Constants
         DEF CountTrue, Pending, Persisting, Periodic
    <2>q. QED
      BY <2>A, <2>R, <2>O, <2>B, <2>C
  <1>q. QED
    BY <1>T, <1>S, <1>F, <1>L, <1>N, <1>W, <1>V, <1>P, <1>r DEF SessionInv, ThreadInv, QuietInv

LEMMA NamesKept ==
    ASSUME Parts, \A r \in Sessions : pc[r] # "new" => pc'[r] # "new",
           asker' = asker, owner' = owner, sched' \in {0, sched},
           handler' \in {0, handler} \/ pc'[handler'] # "new",
           \A b \in Boots : \/ db'.policy[b].session \in {0, db.policy[b].session}
                            \/ pc'[db'.policy[b].session] # "new"
    PROVE  NamesKnown'
  <1>1. \A r \in Sessions \cup {0} : Known(r) => Known(r)'
    BY DEF Known
  <1>2. /\ \A c \in Captures : asker[c] \in Sessions \cup {0} /\ owner[c] \in Sessions \cup {0}
        /\ \A b \in Boots : db.policy[b].session \in Sessions \cup {0}
        /\ sched \in Sessions \cup {0} /\ handler \in Sessions \cup {0}
    BY PolicyType DEF Parts, TypeOK
  <1>3. Known(0)' /\ \A r : pc'[r] # "new" => Known(r)'
    BY DEF Known
  <1>4. Known(sched) /\ Known(handler) /\ \A b \in Boots : Known(db.policy[b].session)
    BY DEF Parts, NamesKnown
  <1>5. \A b \in Boots : db'.policy[b].session = 0 \/ pc'[db'.policy[b].session] # "new"
    BY <1>1, <1>2, <1>4 DEF Known
  <1>6. (handler' = 0 \/ pc'[handler'] # "new") /\ (sched' = 0 \/ pc'[sched'] # "new")
    BY <1>1, <1>2, <1>4 DEF Known
  <1>7. \A c \in Captures : /\ asker'[c] = 0 \/ pc'[asker'[c]] # "new"
                            /\ owner'[c] = 0 \/ pc'[owner'[c]] # "new"
    BY <1>1, <1>2 DEF Parts, NamesKnown, Known
  <1>8. QED
    BY <1>5, <1>6, <1>7 DEF NamesKnown, Known

LEMMA WaitsKept ==
    ASSUME Parts, io'.op = io.op, io'.sess = io.sess,
           \A r \in Sessions : (pc'[r] = "wait" <=> pc[r] = "wait"),
           \A r \in Sessions : pc[r] = "wait" => (Periodic(r)' <=> Periodic(r)),
           \A r \in Sessions : wpc[r] = "wait" => wpc'[r] = "wait",
           \A r \in Sessions : spc[r] = "wait" => spc'[r] = "wait"
    PROVE  Waits'
  <1>1. Waits /\ io.sess \in Sessions \cup {0}
    BY DEF Parts, TypeOK, Ios
  <1>2. ASSUME io.op \in {"START", "ONCE"}
        PROVE  io.sess # 0 /\ pc'[io.sess] = "wait" /\ (io.op = "START" <=> Periodic(io.sess))
    BY <1>1, <1>2 DEF Waits
  <1>3. PICK p \in Sessions \cup {0} : p = io.sess
    BY <1>1
  <1>4. io.op \in {"START", "ONCE"} => p # 0 /\ pc'[p] = "wait" /\ (io.op = "START" <=> Periodic(p)')
    BY <1>1, <1>2, <1>3 DEF Waits
  <1>5. (io.op = "START" <=> Periodic(p)') <=> (io'.op = "START" <=> Periodic(io.sess)')
    BY <1>3 DEF Periodic
  <1>6. QED
    BY <1>1, <1>3, <1>4, <1>5 DEF Waits, Periodic

LEMMA ViaKept ==
    ASSUME Parts, io'.via = io.via, io'.op = io.op, io'.sess = io.sess,
           \/ handler' \in {0, handler}
           \/ \E h \in Sessions : handler' = h /\ Periodic(h)' /\ pc'[h] \notin {"checked", "cut"},
           \A r \in Sessions :
             pc[r] \notin {"new", "checked", "cut"} => pc'[r] \notin {"checked", "cut"},
           \A r \in Sessions : pc[r] \in {"started", "done"} => pc'[r] \in {"started", "done"},
           \A r \in Sessions : pc[r] # "new" => (Periodic(r)' <=> Periodic(r))
    PROVE  ViaTrue'
  <1>1. ViaTrue /\ NamesKnown /\ handler \in Sessions \cup {0} /\ io.via \in Sessions \cup {0}
        /\ FramesTrue /\ taken \in Captures \cup {0}
    BY DEF Parts, TypeOK, Ios, FramesTrue
  <1>2. handler # 0 => Periodic(handler) /\ pc[handler] \notin {"checked", "cut"} /\ pc[handler] # "new"
    BY <1>1 DEF ViaTrue, NamesKnown, Known
  <1>3. PICK h \in Sessions \cup {0} : h = handler
    BY <1>1
  <1>4. h # 0 => Periodic(h)' /\ pc'[h] \notin {"checked", "cut"}
    BY <1>2, <1>3
  <1>5. PICK v \in Sessions \cup {0} : v = io.via
    BY <1>1
  <1>6. v # 0 => pc[v] # "new"
    <2> SUFFICES ASSUME v # 0 PROVE pc[v] # "new"
      OBVIOUS
    <2>1. io.frame # NoFrame /\ asker[taken] = v
      BY <1>1, <1>5 DEF FramesTrue
    <2>2. io.frame \in AllFrames /\ io.frame.cap = taken
      BY <1>1, <2>1 DEF FramesTrue, Parts, TypeOK, Ios
    <2>3. taken \in Captures
      BY <2>2, FrameType
    <2>4. QED
      BY <1>1, <2>1, <2>3 DEF NamesKnown, Known
  <1>7. v # 0 => IF Periodic(v)' THEN pc'[v] \in {"started", "done"}
                 ELSE io'.op = "ONCE" /\ io'.sess = v
    BY <1>1, <1>5, <1>6 DEF ViaTrue
  <1>8. handler' # 0 => Periodic(handler)' /\ pc'[handler'] \notin {"checked", "cut"}
    <2>1. CASE handler' \in {0, handler}
      BY <1>3, <1>4, <2>1 DEF Periodic
    <2>2. CASE \E j \in Sessions : handler' = j /\ Periodic(j)' /\ pc'[j] \notin {"checked", "cut"}
      BY <2>2 DEF Periodic
    <2>3. QED
      BY <2>1, <2>2
  <1>9. io'.via # 0 => IF Periodic(io.via)' THEN pc'[io'.via] \in {"started", "done"}
                       ELSE io'.op = "ONCE" /\ io'.sess = io'.via
    BY <1>5, <1>7 DEF Periodic
  <1>10. QED
    BY <1>8, <1>9 DEF ViaTrue

LEMMA OnceActivityStep ==
    ASSUME SessionInv, NEW s \in Sessions, OnceActivity(s)
    PROVE  SessionInv'
  <1>i. Parts /\ EachSession
    BY PartsOf
  <1>u. /\ db' = db /\ taken' = taken /\ sched' = sched /\ fired' = fired /\ spool' = spool
        /\ boot' = boot /\ acc' = acc /\ link' = link /\ stuck' = stuck /\ plan' = plan
        /\ wpc' = wpc /\ spc' = spc /\ mem' = mem /\ listed' = listed /\ slock' = slock
        /\ handler' = handler /\ io' = io /\ asker' = asker /\ owner' = owner /\ live' = live
        /\ faults' = faults
    BY DEF OnceActivity, devVars, linkVars, thrVars, histVars
  <1>d. /\ pc' \in [Sessions -> ThreadPcs] /\ pc'[s] = "io"
        /\ (\A r \in Sessions : r # s => pc'[r] = pc[r]) /\ pc[s] \in {"saved"}
    BY <1>i DEF OnceActivity, Go, Parts, TypeOK, ThreadPcs, WorkerPcs, StopPcs
  <1>k. \A r : Asked(r)' = Asked(r) /\ NumberAsked(r)' = NumberAsked(r)
    BY <1>u DEF Asked, NumberAsked
  <1>T. TypeOK'
    BY <1>i, <1>u, <1>d, <1>k DEF Parts, TypeOK
  <1>S. StoreInv'
    BY <1>i, <1>u, <1>d, <1>k DEF Parts, StoreInv, Saves, OwnerIsAsker
  <1>F. FramesTrue'
    BY <1>i, <1>u, <1>d, <1>k DEF Parts, FramesTrue, InHand
  <1>L. LinksTrue'
    BY <1>i, <1>u, <1>d, <1>k DEF Parts, LinksTrue
  <1>N. NamesKnown'
    BY <1>i, <1>u, <1>d, NamesKept
  <1>W. Waits'
    <2>1. \A r \in Sessions : Periodic(r)' <=> Periodic(r)
      BY <1>u DEF Periodic
    <2>2. QED
      BY <1>i, <1>u, <1>d, <2>1, WaitsKept
  <1>V. ViaTrue'
    <2>1. \A r \in Sessions : Periodic(r)' <=> Periodic(r)
      BY <1>u DEF Periodic
    <2>2. QED
      BY <1>i, <1>u, <1>d, <2>1, ViaKept
  <1>P. ScheduleTrue'
    BY <1>i, <1>u, <1>d, <1>k DEF Parts, ScheduleTrue, Periodic
  <1>r. ASSUME NEW r \in Sessions
        PROVE  LifeOf(r)' /\ RowOf(r)' /\ OverIsQuiet(r)' /\ NotBefore(r)' /\ CountTrue(r)'
    <2>h. /\ LifeOf(r) /\ RowOf(r) /\ OverIsQuiet(r) /\ NotBefore(r) /\ CountTrue(r)
          /\ NumberAsked(r) \in Nat /\ mem[r].count \in Nat
      BY <1>i, Numbers DEF EachSession
    <2>k. Asked(r)' = Asked(r) /\ NumberAsked(r)' = NumberAsked(r)
      BY <1>k
    <2>A. LifeOf(r)'
      BY <1>i, <2>h, <1>u, <1>d, <2>k DEF LifeOf, Periodic, Active
    <2>R. RowOf(r)'
      BY <1>i, <2>h, <1>u, <1>d, <2>k DEF RowOf, Periodic, Active, Terminal, LifeOf
    <2>O. OverIsQuiet(r)'
      BY <1>i, <2>h, <1>u, <1>d, <2>k, NoFrameIsNone, Constants
         DEF OverIsQuiet, Over, Quiet, Persisting, Periodic
    <2>B. NotBefore(r)'
      BY <1>i, <2>h, <1>u, <1>d, <2>k, Constants DEF NotBefore, Periodic, LifeOf
    <2>C. CountTrue(r)'
      BY <1>i, <2>h, <1>u, <1>d, <2>k, NoFrameIsNone, Constants
         DEF CountTrue, Pending, Persisting, Periodic
    <2>q. QED
      BY <2>A, <2>R, <2>O, <2>B, <2>C
  <1>q. QED
    BY <1>T, <1>S, <1>F, <1>L, <1>N, <1>W, <1>V, <1>P, <1>r DEF SessionInv, ThreadInv, QuietInv

LEMMA StopBeginStep ==
    ASSUME SessionInv, NEW s \in Sessions, StopBegin(s)
    PROVE  SessionInv'
  <1>i. Parts /\ EachSession
    BY PartsOf
  <1>u. /\ db' = db /\ taken' = taken /\ sched' = sched /\ fired' = fired /\ spool' = spool
        /\ boot' = boot /\ acc' = acc /\ link' = link /\ stuck' = stuck /\ plan' = plan
        /\ pc' = pc /\ wpc' = wpc /\ listed' = listed /\ slock' = slock /\ handler' = handler
        /\ io' = io /\ asker' = asker /\ owner' = owner /\ live' = live /\ faults' = faults
    BY DEF StopBegin, devVars, linkVars, thrVars, histVars
  <1>d. /\ spc' \in [Sessions -> StopPcs] /\ spc'[s] = "io"
        /\ (\A r \in Sessions : r # s => spc'[r] = spc[r]) /\ spc[s] \in {"none"} /\ s \in listed
    BY <1>i DEF StopBegin, Go, Parts, TypeOK, ThreadPcs, WorkerPcs, StopPcs
  <1>m. /\ mem' \in [Sessions -> Objects] /\ mem[s].state = "RUNNING" /\ mem'[s].state = "STOPPING"
        /\ mem'[s].count = mem[s].count /\ mem'[s].stop = TRUE
        /\ \A r \in Sessions : r # s => mem'[r] = mem[r]
    <2>1. /\ mem' = [mem EXCEPT ![s].state = "STOPPING", ![s].stop = TRUE]
          /\ mem[s].state = "RUNNING" /\ mem \in [Sessions -> Objects]
      BY <1>i DEF StopBegin, Parts, TypeOK
    <2> DEFINE o == [mem[s] EXCEPT !.state = "STOPPING", !.stop = TRUE]
    <2>2. mem' = [mem EXCEPT ![s] = o]
      BY <2>1
    <2>3. o \in Objects /\ o.state = "STOPPING" /\ o.count = mem[s].count /\ o.stop = TRUE
      <3>1. mem[s] \in Objects
        BY <2>1
      <3>2. QED
        BY <3>1 DEF Objects, Active
    <2> HIDE DEF o
    <2>4. QED
      BY <2>1, <2>2, <2>3
  <1>k. \A r : Asked(r)' = Asked(r) /\ NumberAsked(r)' = NumberAsked(r)
    BY <1>u DEF Asked, NumberAsked
  <1>T. TypeOK'
    BY <1>i, <1>u, <1>d, <1>m, <1>k DEF Parts, TypeOK
  <1>S. StoreInv'
    BY <1>i, <1>u, <1>d, <1>m, <1>k DEF Parts, StoreInv, Saves, OwnerIsAsker
  <1>F. FramesTrue'
    BY <1>i, <1>u, <1>d, <1>m, <1>k DEF Parts, FramesTrue, InHand
  <1>L. LinksTrue'
    BY <1>i, <1>u, <1>d, <1>m, <1>k DEF Parts, LinksTrue
  <1>N. NamesKnown'
    BY <1>i, <1>u, <1>d, <1>m, <1>k DEF Parts, NamesKnown, Known
  <1>W. Waits'
    <2>1. \A r \in Sessions : Periodic(r)' <=> Periodic(r)
      BY <1>u DEF Periodic
    <2>2. QED
      BY <1>i, <1>u, <1>d, <2>1, WaitsKept
  <1>V. ViaTrue'
    BY <1>i, <1>u, <1>d, <1>m, <1>k DEF Parts, ViaTrue, Periodic
  <1>P. ScheduleTrue'
    BY <1>i, <1>u, <1>d, <1>m, <1>k DEF Parts, ScheduleTrue, Periodic
  <1>r. ASSUME NEW r \in Sessions
        PROVE  LifeOf(r)' /\ RowOf(r)' /\ OverIsQuiet(r)' /\ NotBefore(r)' /\ CountTrue(r)'
    <2>h. /\ LifeOf(r) /\ RowOf(r) /\ OverIsQuiet(r) /\ NotBefore(r) /\ CountTrue(r)
          /\ NumberAsked(r) \in Nat /\ mem[r].count \in Nat
      BY <1>i, Numbers DEF EachSession
    <2>k. Asked(r)' = Asked(r) /\ NumberAsked(r)' = NumberAsked(r)
      BY <1>k
    <2>m. (mem'[r].state \in Active <=> mem[r].state \in Active) /\ mem'[r].count = mem[r].count
      BY <1>m DEF Active
    <2>A. LifeOf(r)'
      BY <1>i, <2>h, <1>u, <1>d, <1>m, <2>k, <2>m DEF LifeOf, Periodic, Active
    <2>R. RowOf(r)'
      BY <1>i, <2>h, <1>u, <1>d, <1>m, <2>k, <2>m DEF RowOf, Periodic, Active, Terminal
    <2>O. OverIsQuiet(r)'
      BY <1>i, <2>h, <1>u, <1>d, <1>m, <2>k, <2>m, NoFrameIsNone, Constants
         DEF OverIsQuiet, Over, Quiet, Persisting, Periodic
    <2>B. NotBefore(r)'
      BY <1>i, <2>h, <1>u, <1>d, <1>m, <2>k, <2>m, Constants DEF NotBefore, Periodic
    <2>C. CountTrue(r)'
      BY <1>i, <2>h, <1>u, <1>d, <1>m, <2>k, <2>m, NoFrameIsNone, Constants
         DEF CountTrue, Pending, Persisting, Periodic
    <2>q. QED
      BY <2>A, <2>R, <2>O, <2>B, <2>C
  <1>q. QED
    BY <1>T, <1>S, <1>F, <1>L, <1>N, <1>W, <1>V, <1>P, <1>r DEF SessionInv, ThreadInv, QuietInv

LEMMA StopClearStep ==
    ASSUME SessionInv, NEW s \in Sessions, StopClear(s)
    PROVE  SessionInv'
  <1>i. Parts /\ EachSession
    BY PartsOf
  <1>u. /\ db' = db /\ taken' = taken /\ sched' = sched /\ fired' = fired /\ spool' = spool
        /\ boot' = boot /\ acc' = acc /\ link' = link /\ stuck' = stuck /\ plan' = plan
        /\ pc' = pc /\ wpc' = wpc /\ mem' = mem /\ listed' = listed /\ slock' = slock
        /\ io' = io /\ asker' = asker /\ owner' = owner /\ live' = live /\ faults' = faults
    BY DEF StopClear, devVars, linkVars, thrVars, histVars
  <1>d. /\ spc' \in [Sessions -> StopPcs] /\ spc'[s] = "done"
        /\ (\A r \in Sessions : r # s => spc'[r] = spc[r]) /\ spc[s] \in {"clear"}
    BY <1>i DEF StopClear, Go, Parts, TypeOK, ThreadPcs, WorkerPcs, StopPcs
  <1>m. handler' \in {0, handler}
    BY DEF StopClear
  <1>k. \A r : Asked(r)' = Asked(r) /\ NumberAsked(r)' = NumberAsked(r)
    BY <1>u DEF Asked, NumberAsked
  <1>T. TypeOK'
    BY <1>i, <1>u, <1>d, <1>m, <1>k DEF Parts, TypeOK
  <1>S. StoreInv'
    BY <1>i, <1>u, <1>d, <1>m, <1>k DEF Parts, StoreInv, Saves, OwnerIsAsker
  <1>F. FramesTrue'
    BY <1>i, <1>u, <1>d, <1>m, <1>k DEF Parts, FramesTrue, InHand
  <1>L. LinksTrue'
    BY <1>i, <1>u, <1>d, <1>m, <1>k DEF Parts, LinksTrue
  <1>N. NamesKnown'
    BY <1>i, <1>u, <1>d, <1>m, <1>k DEF Parts, NamesKnown, Known
  <1>W. Waits'
    <2>1. \A r \in Sessions : Periodic(r)' <=> Periodic(r)
      BY <1>u DEF Periodic
    <2>2. QED
      BY <1>i, <1>u, <1>d, <2>1, WaitsKept
  <1>V. ViaTrue'
    BY <1>i, <1>u, <1>d, <1>m, <1>k DEF Parts, ViaTrue, Periodic
  <1>P. ScheduleTrue'
    BY <1>i, <1>u, <1>d, <1>m, <1>k DEF Parts, ScheduleTrue, Periodic
  <1>r. ASSUME NEW r \in Sessions
        PROVE  LifeOf(r)' /\ RowOf(r)' /\ OverIsQuiet(r)' /\ NotBefore(r)' /\ CountTrue(r)'
    <2>h. /\ LifeOf(r) /\ RowOf(r) /\ OverIsQuiet(r) /\ NotBefore(r) /\ CountTrue(r)
          /\ NumberAsked(r) \in Nat /\ mem[r].count \in Nat
      BY <1>i, Numbers DEF EachSession
    <2>k. Asked(r)' = Asked(r) /\ NumberAsked(r)' = NumberAsked(r)
      BY <1>k
    <2>A. LifeOf(r)'
      BY <1>i, <2>h, <1>u, <1>d, <1>m, <2>k DEF LifeOf, Periodic, Active
    <2>R. RowOf(r)'
      BY <1>i, <2>h, <1>u, <1>d, <1>m, <2>k DEF RowOf, Periodic, Active, Terminal
    <2>O. OverIsQuiet(r)'
      BY <1>i, <2>h, <1>u, <1>d, <1>m, <2>k, NoFrameIsNone, Constants
         DEF OverIsQuiet, Over, Quiet, Persisting, Periodic
    <2>B. NotBefore(r)'
      BY <1>i, <2>h, <1>u, <1>d, <1>m, <2>k, Constants DEF NotBefore, Periodic
    <2>C. CountTrue(r)'
      BY <1>i, <2>h, <1>u, <1>d, <1>m, <2>k, NoFrameIsNone, Constants
         DEF CountTrue, Pending, Persisting, Periodic
    <2>q. QED
      BY <2>A, <2>R, <2>O, <2>B, <2>C
  <1>q. QED
    BY <1>T, <1>S, <1>F, <1>L, <1>N, <1>W, <1>V, <1>P, <1>r DEF SessionInv, ThreadInv, QuietInv

LEMMA WorkerExitStep ==
    ASSUME SessionInv, NEW s \in Sessions, WorkerExit(s)
    PROVE  SessionInv'
  <1>i. Parts /\ EachSession
    BY PartsOf
  <1>u. /\ db' = db /\ taken' = taken /\ sched' = sched /\ fired' = fired /\ spool' = spool
        /\ boot' = boot /\ acc' = acc /\ link' = link /\ stuck' = stuck /\ plan' = plan
        /\ pc' = pc /\ spc' = spc /\ mem' = mem /\ listed' = listed /\ slock' = slock
        /\ io' = io /\ asker' = asker /\ owner' = owner /\ live' = live /\ faults' = faults
    BY DEF WorkerExit, devVars, linkVars, thrVars, histVars
  <1>d. /\ wpc' \in [Sessions -> WorkerPcs] /\ wpc'[s] = "done"
        /\ (\A r \in Sessions : r # s => wpc'[r] = wpc[r]) /\ wpc[s] \in {"exit"}
    BY <1>i DEF WorkerExit, Go, Parts, TypeOK, ThreadPcs, WorkerPcs, StopPcs
  <1>m. handler' \in {0, handler}
    BY DEF WorkerExit
  <1>k. \A r : Asked(r)' = Asked(r) /\ NumberAsked(r)' = NumberAsked(r)
    BY <1>u DEF Asked, NumberAsked
  <1>T. TypeOK'
    BY <1>i, <1>u, <1>d, <1>m, <1>k DEF Parts, TypeOK
  <1>S. StoreInv'
    BY <1>i, <1>u, <1>d, <1>m, <1>k DEF Parts, StoreInv, Saves, OwnerIsAsker
  <1>F. FramesTrue'
    BY <1>i, <1>u, <1>d, <1>m, <1>k DEF Parts, FramesTrue, InHand
  <1>L. LinksTrue'
    BY <1>i, <1>u, <1>d, <1>m, <1>k DEF Parts, LinksTrue
  <1>N. NamesKnown'
    BY <1>i, <1>u, <1>d, <1>m, <1>k DEF Parts, NamesKnown, Known
  <1>W. Waits'
    <2>1. \A r \in Sessions : Periodic(r)' <=> Periodic(r)
      BY <1>u DEF Periodic
    <2>2. QED
      BY <1>i, <1>u, <1>d, <2>1, WaitsKept
  <1>V. ViaTrue'
    BY <1>i, <1>u, <1>d, <1>m, <1>k DEF Parts, ViaTrue, Periodic
  <1>P. ScheduleTrue'
    BY <1>i, <1>u, <1>d, <1>m, <1>k DEF Parts, ScheduleTrue, Periodic
  <1>r. ASSUME NEW r \in Sessions
        PROVE  LifeOf(r)' /\ RowOf(r)' /\ OverIsQuiet(r)' /\ NotBefore(r)' /\ CountTrue(r)'
    <2>h. /\ LifeOf(r) /\ RowOf(r) /\ OverIsQuiet(r) /\ NotBefore(r) /\ CountTrue(r)
          /\ NumberAsked(r) \in Nat /\ mem[r].count \in Nat
      BY <1>i, Numbers DEF EachSession
    <2>k. Asked(r)' = Asked(r) /\ NumberAsked(r)' = NumberAsked(r)
      BY <1>k
    <2>A. LifeOf(r)'
      BY <1>i, <2>h, <1>u, <1>d, <1>m, <2>k DEF LifeOf, Periodic, Active
    <2>R. RowOf(r)'
      BY <1>i, <2>h, <1>u, <1>d, <1>m, <2>k DEF RowOf, Periodic, Active, Terminal
    <2>O. OverIsQuiet(r)'
      BY <1>i, <2>h, <1>u, <1>d, <1>m, <2>k, NoFrameIsNone, Constants
         DEF OverIsQuiet, Over, Quiet, Persisting, Periodic
    <2>B. NotBefore(r)'
      BY <1>i, <2>h, <1>u, <1>d, <1>m, <2>k, Constants DEF NotBefore, Periodic
    <2>C. CountTrue(r)'
      BY <1>i, <2>h, <1>u, <1>d, <1>m, <2>k, NoFrameIsNone, Constants
         DEF CountTrue, Pending, Persisting, Periodic
    <2>q. QED
      BY <2>A, <2>R, <2>O, <2>B, <2>C
  <1>q. QED
    BY <1>T, <1>S, <1>F, <1>L, <1>N, <1>W, <1>V, <1>P, <1>r DEF SessionInv, ThreadInv, QuietInv

LEMMA ScheduleKept ==
    ASSUME Parts, sched' = sched, fired' = fired, asker' = asker, 
           \A r \in Sessions : /\ Periodic(r)' <=> Periodic(r)
                              /\ plan'[r].limit = plan[r].limit
    PROVE  ScheduleTrue'
  <1>1. ScheduleTrue /\ sched \in Sessions \cup {0}
    BY DEF Parts, TypeOK
  <1>2. \A r : NumberAsked(r)' = NumberAsked(r)
    BY DEF NumberAsked, Asked
  <1>3. PICK p \in Sessions \cup {0} : p = sched
    BY <1>1
  <1>4. p # 0 => /\ Periodic(p)' /\ fired = NumberAsked(p)'
                 /\ plan'[p].limit # 0 => fired < plan'[p].limit
    BY <1>1, <1>2, <1>3 DEF ScheduleTrue
  <1>5. \A s \in Sessions :
           Periodic(s)' /\ plan'[s].limit # 0 => NumberAsked(s)' <= plan'[s].limit
    BY <1>1, <1>2 DEF ScheduleTrue
  <1>6. QED
    BY <1>1, <1>3, <1>4, <1>5 DEF ScheduleTrue, Periodic

LEMMA StoreKept ==
    ASSUME Parts, Harmless(db, db', Saves), \A r \in Sessions : plan'[r].save = plan[r].save,
           owner' = owner, asker' = asker, live' = live, io'.pc = "commit" => io' = io
    PROVE  StoreInv' /\ db' \in Databases
  <1>1. StoreGood(db, owner, asker, Saves, live)
    BY DEF Parts, StoreInv
  <1>2. StoreGood(db', owner, asker, Saves, live)
    BY <1>1, HarmlessGood
  <1>3. Saves' = Saves
    BY DEF Saves
  <1>4. StoreGood(db, owner, asker, Saves, live)'
    BY <1>2, <1>3
  <1>5. db.staged \subseteq db'.staged
    BY DEF Harmless
  <1>6. QED
    BY <1>2, <1>4, <1>5 DEF Parts, StoreInv, OwnerIsAsker, StoreGood, TablesGood

LEMMA SavesType ==
    ASSUME Parts
    PROVE  /\ Saves \in [Sessions -> SavePolicies] /\ \A s \in Sessions : Saves[s] = plan[s].save
           /\ owner \in Owners /\ asker \in Owners /\ Typed(owner, asker, Saves)
           /\ StoreGood(db, owner, asker, Saves, live)
  <1>1. plan \in [Sessions -> Plans] /\ owner \in Owners /\ asker \in Owners
        /\ StoreGood(db, owner, asker, Saves, live)
    BY DEF Parts, TypeOK, StoreInv, Owners
  <1>2. \A s \in Sessions : plan[s].save \in SavePolicies
    BY <1>1 DEF Plans
  <1>3. QED
    BY <1>1, <1>2 DEF Saves, Typed

\* The summary of an open session is saved.
LEMMA SummarySaved ==
    ASSUME Parts, NEW s \in Sessions, NEW o \in Objects, o.state \notin Terminal,
           db.summary[s].state \notin Terminal, db' = SaveSummary(db, s, Payload(o)),
           plan' = plan, owner' = owner, asker' = asker, live' = live,
           io'.pc = "commit" => io' = io
    PROVE  /\ StoreInv' /\ db' \in Databases /\ db'.policy = db.policy
           /\ db'.summary[s].state = o.state
           /\ \A r \in Sessions : r # s => db'.summary[r] = db.summary[r]
  <1>1. Payload(o) \in Summaries /\ Payload(o).state = o.state
    BY DEF Payload, Objects, Summaries
  <1>2. StoreGood(db, owner, asker, Saves, live)
    BY SavesType
  <1>3. /\ Harmless(db, db', Saves) /\ db'.policy = db.policy
        /\ db'.summary[s] = Payload(o) /\ \A r \in Sessions : r # s => db'.summary[r] = db.summary[r]
    BY <1>1, <1>2, SaveSummaryGood
  <1>4. QED
    BY <1>1, <1>3, StoreKept

\* An id that is not used yet appears nowhere.
LEMMA Unused ==
    ASSUME Parts, NEW s \in Sessions, pc[s] = "new"
    PROVE  /\ sched # s /\ handler # s /\ io.via # s /\ spool.req # s
           /\ Asked(s) = {} /\ NumberAsked(s) = 0 /\ Own(owner, s) = {}
           /\ \A b \in Boots : db.policy[b].session # s
  <1>1. s # 0 /\ ~Known(s)
    BY Constants DEF Known
  <1>2. /\ sched # s /\ handler # s /\ \A b \in Boots : db.policy[b].session # s
        /\ \A c \in Captures : asker[c] # s /\ owner[c] # s
    BY <1>1 DEF Parts, NamesKnown
  <1>3. Asked(s) = {} /\ NumberAsked(s) = 0 /\ Own(owner, s) = {}
    BY <1>2, FS_EmptySet DEF Asked, NumberAsked, Own
  <1>4. spool.req # s
    <2>1. CASE spool = NoFrame
      BY <1>1, <2>1, NoFrameIsNone
    <2>2. CASE spool # NoFrame
      <3>1. spool \in AllFrames /\ spool.cap = taken /\ spool.req = asker[taken]
        BY <2>2 DEF Parts, TypeOK, FramesTrue
      <3>2. QED
        BY <1>2, <3>1, FrameType
    <2>3. QED
      BY <2>1, <2>2
  <1>5. io.via # s
    <2> SUFFICES ASSUME io.via = s PROVE FALSE
      OBVIOUS
    <2>1. io.frame # NoFrame /\ io.frame.req = s /\ io.frame.cap = taken /\ asker[taken] = s
      BY <1>1 DEF Parts, FramesTrue
    <2>2. io.frame \in AllFrames
      BY <2>1 DEF Parts, TypeOK, Ios
    <2>3. QED
      BY <1>2, <2>1, <2>2, FrameType
  <1>6. QED
    BY <1>2, <1>3, <1>4, <1>5

LEMMA StartSaveStep ==
    ASSUME SessionInv, NEW s \in Sessions, StartSave(s)
    PROVE  SessionInv'
  <1>i. Parts /\ EachSession
    BY PartsOf
  <1>u. /\ taken' = taken /\ sched' = sched /\ fired' = fired /\ spool' = spool /\ boot' = boot
        /\ acc' = acc /\ link' = link /\ stuck' = stuck /\ plan' = plan /\ spc' = spc
        /\ mem' = mem /\ handler' = handler /\ io' = io /\ asker' = asker /\ owner' = owner
        /\ live' = live /\ faults' = faults
    BY DEF StartSave, devVars, linkVars, thrVars, histVars
  <1>d. /\ pc' \in [Sessions -> ThreadPcs] /\ pc'[s] = "done"
        /\ (\A r \in Sessions : r # s => pc'[r] = pc[r]) /\ pc[s] \in {"started"}
    BY <1>i DEF StartSave, Go, Parts, TypeOK, ThreadPcs, WorkerPcs, StopPcs
  <1>w. /\ wpc' \in [Sessions -> WorkerPcs] /\ wpc'[s] = "top" /\ \A r \in Sessions : r # s => wpc'[r] = wpc[r]
    BY <1>i DEF StartSave, Go, Parts, TypeOK, ThreadPcs, WorkerPcs, StopPcs
  <1>l. listed' = listed \cup {s} /\ slock' = 0 /\ s \notin listed /\ wpc[s] = "none" /\ spc[s] = "none" /\ Periodic(s) /\ mem[s].state \in Active
    BY <1>i, <1>d DEF StartSave, EachSession, LifeOf
  <1>s. /\ StoreInv' /\ db' \in Databases /\ db'.policy = db.policy
        /\ db'.summary[s].state = mem[s].state
        /\ \A r \in Sessions : r # s => db'.summary[r] = db.summary[r]
    <2>1. mem[s] \in Objects /\ mem[s].state \notin Terminal /\ db.summary[s].state \notin Terminal
      BY <1>i, <1>d DEF Parts, TypeOK, EachSession, LifeOf, RowOf, Active, Terminal
    <2>2. db' = SaveSummary(db, s, Payload(mem[s]))
      BY DEF StartSave
    <2>3. QED
      BY <1>i, <1>u, <2>1, <2>2, SummarySaved
  <1>k. \A r : Asked(r)' = Asked(r) /\ NumberAsked(r)' = NumberAsked(r)
    BY <1>u DEF Asked, NumberAsked
  <1>T. TypeOK'
    BY <1>i, <1>u, <1>d, <1>w, <1>l, <1>s, <1>k DEF Parts, TypeOK
  <1>S. StoreInv'
    BY <1>s
  <1>F. FramesTrue'
    BY <1>i, <1>u, <1>d, <1>w, <1>l, <1>s, <1>k DEF Parts, FramesTrue, InHand
  <1>L. LinksTrue'
    BY <1>i, <1>u, <1>d, <1>w, <1>l, <1>s, <1>k DEF Parts, LinksTrue
  <1>N. NamesKnown'
    BY <1>i, <1>u, <1>d, <1>s, NamesKept
  <1>W. Waits'
    <2>1. \A r \in Sessions : Periodic(r)' <=> Periodic(r)
      BY <1>u DEF Periodic
    <2>2. QED
      BY <1>i, <1>u, <1>d, <1>w, <1>l, <2>1, WaitsKept
  <1>V. ViaTrue'
    <2>1. \A r \in Sessions : Periodic(r)' <=> Periodic(r)
      BY <1>u DEF Periodic
    <2>2. QED
      BY <1>i, <1>u, <1>d, <2>1, ViaKept
  <1>P. ScheduleTrue'
    BY <1>i, <1>u, <1>d, <1>w, <1>l, <1>s, <1>k DEF Parts, ScheduleTrue, Periodic
  <1>r. ASSUME NEW r \in Sessions
        PROVE  LifeOf(r)' /\ RowOf(r)' /\ OverIsQuiet(r)' /\ NotBefore(r)' /\ CountTrue(r)'
    <2>h. /\ LifeOf(r) /\ RowOf(r) /\ OverIsQuiet(r) /\ NotBefore(r) /\ CountTrue(r)
          /\ NumberAsked(r) \in Nat /\ mem[r].count \in Nat
      BY <1>i, Numbers DEF EachSession
    <2>k. Asked(r)' = Asked(r) /\ NumberAsked(r)' = NumberAsked(r)
      BY <1>k
    <2>A. LifeOf(r)'
      BY <1>i, <2>h, <1>u, <1>d, <1>w, <1>l, <1>s, <2>k DEF LifeOf, Periodic, Active
    <2>R. RowOf(r)'
      BY <1>i, <2>h, <1>u, <1>d, <1>w, <1>l, <1>s, <2>k DEF RowOf, Periodic, Active, Terminal
    <2>O. OverIsQuiet(r)'
      BY <1>i, <2>h, <1>u, <1>d, <1>w, <1>l, <1>s, <2>k, NoFrameIsNone, Constants
         DEF OverIsQuiet, Over, Quiet, Persisting, Periodic
    <2>B. NotBefore(r)'
      BY <1>i, <2>h, <1>u, <1>d, <1>w, <1>l, <1>s, <2>k, Constants DEF NotBefore, Periodic
    <2>C. CountTrue(r)'
      BY <1>i, <2>h, <1>u, <1>d, <1>w, <1>l, <1>s, <2>k, NoFrameIsNone, Constants
         DEF CountTrue, Pending, Persisting, Periodic
    <2>q. QED
      BY <2>A, <2>R, <2>O, <2>B, <2>C
  <1>q. QED
    BY <1>T, <1>S, <1>F, <1>L, <1>N, <1>W, <1>V, <1>P, <1>r DEF SessionInv, ThreadInv, QuietInv

LEMMA OnceSaveStep ==
    ASSUME SessionInv, NEW s \in Sessions, OnceSave(s)
    PROVE  SessionInv'
  <1>i. Parts /\ EachSession
    BY PartsOf
  <1>u. /\ taken' = taken /\ sched' = sched /\ fired' = fired /\ spool' = spool /\ boot' = boot
        /\ acc' = acc /\ link' = link /\ stuck' = stuck /\ plan' = plan /\ wpc' = wpc
        /\ spc' = spc /\ mem' = mem /\ listed' = listed /\ slock' = slock /\ handler' = handler
        /\ io' = io /\ asker' = asker /\ owner' = owner /\ live' = live /\ faults' = faults
    BY DEF OnceSave, devVars, linkVars, thrVars, histVars
  <1>d. /\ pc' \in [Sessions -> ThreadPcs] /\ pc'[s] = "saved"
        /\ (\A r \in Sessions : r # s => pc'[r] = pc[r]) /\ pc[s] \in {"registered"}
    BY <1>i DEF OnceSave, Go, Parts, TypeOK, ThreadPcs, WorkerPcs, StopPcs
  <1>s. /\ StoreInv' /\ db' \in Databases /\ db'.policy = db.policy
        /\ db'.summary[s].state = mem[s].state
        /\ \A r \in Sessions : r # s => db'.summary[r] = db.summary[r]
    <2>1. mem[s] \in Objects /\ mem[s].state \notin Terminal /\ db.summary[s].state \notin Terminal
      BY <1>i, <1>d DEF Parts, TypeOK, EachSession, LifeOf, RowOf, Active, Terminal
    <2>2. db' = SaveSummary(db, s, Payload(mem[s]))
      BY DEF OnceSave
    <2>3. QED
      BY <1>i, <1>u, <2>1, <2>2, SummarySaved
  <1>k. \A r : Asked(r)' = Asked(r) /\ NumberAsked(r)' = NumberAsked(r)
    BY <1>u DEF Asked, NumberAsked
  <1>T. TypeOK'
    BY <1>i, <1>u, <1>d, <1>s, <1>k DEF Parts, TypeOK
  <1>S. StoreInv'
    BY <1>s
  <1>F. FramesTrue'
    BY <1>i, <1>u, <1>d, <1>s, <1>k DEF Parts, FramesTrue, InHand
  <1>L. LinksTrue'
    BY <1>i, <1>u, <1>d, <1>s, <1>k DEF Parts, LinksTrue
  <1>N. NamesKnown'
    BY <1>i, <1>u, <1>d, <1>s, NamesKept
  <1>W. Waits'
    <2>1. \A r \in Sessions : Periodic(r)' <=> Periodic(r)
      BY <1>u DEF Periodic
    <2>2. QED
      BY <1>i, <1>u, <1>d, <2>1, WaitsKept
  <1>V. ViaTrue'
    <2>1. \A r \in Sessions : Periodic(r)' <=> Periodic(r)
      BY <1>u DEF Periodic
    <2>2. QED
      BY <1>i, <1>u, <1>d, <2>1, ViaKept
  <1>P. ScheduleTrue'
    BY <1>i, <1>u, <1>d, <1>s, <1>k DEF Parts, ScheduleTrue, Periodic
  <1>r. ASSUME NEW r \in Sessions
        PROVE  LifeOf(r)' /\ RowOf(r)' /\ OverIsQuiet(r)' /\ NotBefore(r)' /\ CountTrue(r)'
    <2>h. /\ LifeOf(r) /\ RowOf(r) /\ OverIsQuiet(r) /\ NotBefore(r) /\ CountTrue(r)
          /\ NumberAsked(r) \in Nat /\ mem[r].count \in Nat
      BY <1>i, Numbers DEF EachSession
    <2>k. Asked(r)' = Asked(r) /\ NumberAsked(r)' = NumberAsked(r)
      BY <1>k
    <2>A. LifeOf(r)'
      BY <1>i, <2>h, <1>u, <1>d, <1>s, <2>k DEF LifeOf, Periodic, Active
    <2>R. RowOf(r)'
      BY <1>i, <2>h, <1>u, <1>d, <1>s, <2>k DEF RowOf, Periodic, Active, Terminal, LifeOf
    <2>O. OverIsQuiet(r)'
      BY <1>i, <2>h, <1>u, <1>d, <1>s, <2>k, NoFrameIsNone, Constants
         DEF OverIsQuiet, Over, Quiet, Persisting, Periodic
    <2>B. NotBefore(r)'
      BY <1>i, <2>h, <1>u, <1>d, <1>s, <2>k, Constants DEF NotBefore, Periodic
    <2>C. CountTrue(r)'
      BY <1>i, <2>h, <1>u, <1>d, <1>s, <2>k, NoFrameIsNone, Constants
         DEF CountTrue, Pending, Persisting, Periodic
    <2>q. QED
      BY <2>A, <2>R, <2>O, <2>B, <2>C
  <1>q. QED
    BY <1>T, <1>S, <1>F, <1>L, <1>N, <1>W, <1>V, <1>P, <1>r DEF SessionInv, ThreadInv, QuietInv

LEMMA StartRegisterFails ==
    ASSUME SessionInv, NEW s \in Sessions, StartRegister(s), link = "down"
    PROVE  SessionInv'
  <1>i. Parts /\ EachSession
    BY PartsOf
  <1>u. /\ db' = db /\ taken' = taken /\ sched' = sched /\ fired' = fired /\ spool' = spool
        /\ boot' = boot /\ acc' = acc /\ link' = link /\ stuck' = stuck /\ plan' = plan
        /\ wpc' = wpc /\ spc' = spc /\ mem' = mem /\ listed' = listed /\ handler' = handler
        /\ io' = io /\ asker' = asker /\ owner' = owner /\ live' = live /\ faults' = faults
    BY DEF StartRegister, devVars, linkVars, thrVars, histVars
  <1>d. /\ pc' \in [Sessions -> ThreadPcs] /\ pc'[s] = "done"
        /\ (\A r \in Sessions : r # s => pc'[r] = pc[r]) /\ pc[s] \in {"checked"} /\ slock' = 0 /\ Periodic(s)
    BY <1>i DEF StartRegister, Periodic, Go, Parts, TypeOK, ThreadPcs, WorkerPcs, StopPcs
  <1>k. \A r : Asked(r)' = Asked(r) /\ NumberAsked(r)' = NumberAsked(r)
    BY <1>u DEF Asked, NumberAsked
  <1>T. TypeOK'
    BY <1>i, <1>u, <1>d, <1>k DEF Parts, TypeOK
  <1>S. StoreInv'
    BY <1>i, <1>u, <1>d, <1>k DEF Parts, StoreInv, Saves, OwnerIsAsker
  <1>F. FramesTrue'
    BY <1>i, <1>u, <1>d, <1>k DEF Parts, FramesTrue, InHand
  <1>L. LinksTrue'
    BY <1>i, <1>u, <1>d, <1>k DEF Parts, LinksTrue
  <1>N. NamesKnown'
    BY <1>i, <1>u, <1>d, NamesKept
  <1>W. Waits'
    <2>1. \A r \in Sessions : Periodic(r)' <=> Periodic(r)
      BY <1>u DEF Periodic
    <2>2. QED
      BY <1>i, <1>u, <1>d, <2>1, WaitsKept
  <1>V. ViaTrue'
    <2>1. \A r \in Sessions : Periodic(r)' <=> Periodic(r)
      BY <1>u DEF Periodic
    <2>2. QED
      BY <1>i, <1>u, <1>d, <2>1, ViaKept
  <1>P. ScheduleTrue'
    BY <1>i, <1>u, <1>d, <1>k DEF Parts, ScheduleTrue, Periodic
  <1>r. ASSUME NEW r \in Sessions
        PROVE  LifeOf(r)' /\ RowOf(r)' /\ OverIsQuiet(r)' /\ NotBefore(r)' /\ CountTrue(r)'
    <2>h. /\ LifeOf(r) /\ RowOf(r) /\ OverIsQuiet(r) /\ NotBefore(r) /\ CountTrue(r)
          /\ NumberAsked(r) \in Nat /\ mem[r].count \in Nat
      BY <1>i, Numbers DEF EachSession
    <2>k. Asked(r)' = Asked(r) /\ NumberAsked(r)' = NumberAsked(r)
      BY <1>k
    <2>A. LifeOf(r)'
      BY <1>i, <2>h, <1>u, <1>d, <2>k DEF LifeOf, Periodic, Active
    <2>R. RowOf(r)'
      BY <1>i, <2>h, <1>u, <1>d, <2>k DEF RowOf, Periodic, Active, Terminal
    <2>O. OverIsQuiet(r)'
      BY <1>i, <2>h, <1>u, <1>d, <2>k, NoFrameIsNone, Constants
         DEF OverIsQuiet, Over, Quiet, Persisting, Periodic
    <2>B. NotBefore(r)'
      BY <1>i, <2>h, <1>u, <1>d, <2>k, Constants DEF NotBefore, Periodic
    <2>C. CountTrue(r)'
      BY <1>i, <2>h, <1>u, <1>d, <2>k, NoFrameIsNone, Constants
         DEF CountTrue, Pending, Persisting, Periodic
    <2>q. QED
      BY <2>A, <2>R, <2>O, <2>B, <2>C
  <1>q. QED
    BY <1>T, <1>S, <1>F, <1>L, <1>N, <1>W, <1>V, <1>P, <1>r DEF SessionInv, ThreadInv, QuietInv

LEMMA StartRegisterStep ==
    ASSUME SessionInv, NEW s \in Sessions, StartRegister(s), link # "down"
    PROVE  SessionInv'
  <1>i. Parts /\ EachSession
    BY PartsOf
  <1>u. /\ taken' = taken /\ sched' = sched /\ fired' = fired /\ spool' = spool /\ boot' = boot
        /\ acc' = acc /\ link' = link /\ stuck' = stuck /\ wpc' = wpc /\ spc' = spc
        /\ listed' = listed /\ slock' = slock /\ io' = io /\ asker' = asker /\ owner' = owner
        /\ live' = live /\ faults' = faults
    BY DEF StartRegister, devVars, linkVars, thrVars, histVars
  <1>d. /\ pc' \in [Sessions -> ThreadPcs] /\ pc'[s] = "io"
        /\ (\A r \in Sessions : r # s => pc'[r] = pc[r]) /\ pc[s] \in {"checked"} /\ handler' = s /\ Periodic(s)
    BY <1>i DEF StartRegister, Periodic, Go, Parts, TypeOK, ThreadPcs, WorkerPcs, StopPcs
  <1>p. /\ plan' \in [Sessions -> Plans] /\ Periodic(s)'
        /\ \A r \in Sessions : /\ Periodic(r)' <=> Periodic(r)
                            /\ plan'[r].save = plan[r].save /\ plan'[r].limit = plan[r].limit
    <2>1. plan' = [plan EXCEPT ![s].boot = boot]
      BY DEF StartRegister
    <2>2. plan \in [Sessions -> Plans] /\ boot \in Boots
      BY <1>i DEF Parts, TypeOK
    <2>3. /\ plan' \in [Sessions -> Plans]
          /\ \A r \in Sessions : plan'[r].kind = plan[r].kind /\ plan'[r].save = plan[r].save /\ plan'[r].limit = plan[r].limit
      BY <2>1, <2>2 DEF Plans
    <2>4. QED
      BY <1>d, <2>3 DEF Periodic
  <1>m. /\ mem' \in [Sessions -> Objects] /\ mem'[s].state = "RUNNING" /\ mem'[s].count = mem[s].count
        /\ mem'[s].stop = mem[s].stop /\ \A r \in Sessions : r # s => mem'[r] = mem[r]
    <2>1. mem' = [mem EXCEPT ![s].state = "RUNNING"]
      BY DEF StartRegister
    <2>2. mem \in [Sessions -> Objects]
      BY <1>i DEF Parts, TypeOK
    <2>3. QED
      BY <2>1, <2>2 DEF Objects, Active
  <1>s. /\ StoreInv' /\ db' \in Databases /\ db'.summary = db.summary
        /\ \A b \in Boots : db'.policy[b].session \in {s, db.policy[b].session}
    <2>1. db' = RegisterPolicy(db, boot, s, Saves[s]) /\ boot \in Boots
      BY <1>i DEF StartRegister, Saves, Parts, TypeOK
    <2>2. \A r \in Sessions : plan'[r].save = plan[r].save
      BY <1>u, <1>p
    <2>3. StoreGood(db, owner, asker, Saves, live) /\ Saves \in [Sessions -> SavePolicies]
      BY <1>i, SavesType
    <2>4. /\ Harmless(db, db', Saves) /\ db'.summary = db.summary
          /\ db'.policy[boot].session = s /\ \A x \in Boots : x # boot => db'.policy[x] = db.policy[x]
      BY <2>1, <2>3, RegisterGood
    <2>5. QED
      BY <1>i, <1>u, <2>2, <2>4, StoreKept
  <1>f. /\ s \notin listed /\ wpc[s] = "none" /\ spc[s] = "none" /\ mem[s] = NoObject
        /\ db.summary[s].state = "NONE" /\ sched # s /\ Asked(s) = {} /\ io.via # s
    BY <1>i, <1>d, Constants DEF EachSession, LifeOf, RowOf, NotBefore, Parts, ViaTrue
  <1>g. spool.req # s /\ ~(io.op = "ABORT" /\ io.sess = s)
    <2>1. spool # NoFrame => spool \in AllFrames /\ spool.cap = taken /\ spool.req = asker[taken]
      BY <1>i DEF Parts, TypeOK, FramesTrue
    <2>2. spool.req # s
      BY <1>f, <2>1, FrameType, NoFrameIsNone, Constants DEF Asked
    <2>3. QED
      BY <1>i, <1>f, <2>2 DEF Parts, Waits
  <1>k. \A r : Asked(r)' = Asked(r) /\ NumberAsked(r)' = NumberAsked(r)
    BY <1>u DEF Asked, NumberAsked
  <1>T. TypeOK'
    BY <1>i, <1>u, <1>d, <1>p, <1>m, <1>s, <1>f, <1>g, <1>k DEF Parts, TypeOK
  <1>S. StoreInv'
    BY <1>s
  <1>F. FramesTrue'
    BY <1>i, <1>u, <1>d, <1>p, <1>m, <1>s, <1>f, <1>g, <1>k DEF Parts, FramesTrue, InHand
  <1>L. LinksTrue'
    BY <1>i, <1>u, <1>d, <1>p, <1>m, <1>s, <1>f, <1>g, <1>k DEF Parts, LinksTrue
  <1>N. NamesKnown'
    BY <1>i, <1>u, <1>d, <1>s, NamesKept
  <1>W. Waits'
    BY <1>i, <1>u, <1>d, <1>p, WaitsKept
  <1>V. ViaTrue'
    BY <1>i, <1>u, <1>d, <1>p, ViaKept
  <1>P. ScheduleTrue'
    BY <1>i, <1>u, <1>k, <1>p, ScheduleKept
  <1>r. ASSUME NEW r \in Sessions
        PROVE  LifeOf(r)' /\ RowOf(r)' /\ OverIsQuiet(r)' /\ NotBefore(r)' /\ CountTrue(r)'
    <2>h. /\ LifeOf(r) /\ RowOf(r) /\ OverIsQuiet(r) /\ NotBefore(r) /\ CountTrue(r)
          /\ NumberAsked(r) \in Nat /\ mem[r].count \in Nat
      BY <1>i, Numbers DEF EachSession
    <2>k. Asked(r)' = Asked(r) /\ NumberAsked(r)' = NumberAsked(r)
      BY <1>k
    <2>A. LifeOf(r)'
      BY <1>i, <2>h, <1>u, <1>d, <1>p, <1>m, <1>s, <1>f, <1>g, <2>k
         DEF LifeOf, Periodic, Active, NoObject
    <2>R. RowOf(r)'
      BY <1>i, <2>h, <1>u, <1>d, <1>p, <1>m, <1>s, <1>f, <1>g, <2>k
         DEF RowOf, Periodic, Active, Terminal
    <2>O. OverIsQuiet(r)'
      BY <1>i, <2>h, <1>u, <1>d, <1>p, <1>m, <1>s, <1>f, <1>g, <2>k, NoFrameIsNone, Constants
         DEF OverIsQuiet, Over, Quiet, Persisting, Periodic
    <2>B. NotBefore(r)'
      BY <1>i, <2>h, <1>u, <1>d, <1>p, <1>m, <1>s, <1>f, <1>g, <2>k, Constants
         DEF NotBefore, Periodic
    <2>C. CountTrue(r)'
      <3>1. CASE r = s
        <4>1. ~Pending(r)'
          BY <1>u, <1>f, <1>g, <3>1 DEF Pending, Persisting
        <4>2. mem'[r].count = 0
          BY <1>f, <1>m, <3>1 DEF NoObject
        <4>3. QED
          BY <2>h, <2>k, <4>1, <4>2 DEF CountTrue
      <3>2. CASE r # s
        <4>1. /\ Pending(r)' <=> Pending(r)
              /\ mem'[r] = mem[r] /\ (Periodic(r)' <=> Periodic(r))
          BY <1>u, <1>p, <1>m, <3>2 DEF Pending, Persisting
        <4>2. QED
          BY <2>h, <2>k, <4>1 DEF CountTrue
      <3>3. QED
        BY <3>1, <3>2
    <2>q. QED
      BY <2>A, <2>R, <2>O, <2>B, <2>C
  <1>q. QED
    BY <1>T, <1>S, <1>F, <1>L, <1>N, <1>W, <1>V, <1>P, <1>r DEF SessionInv, ThreadInv, QuietInv

LEMMA OnceRegisterFails ==
    ASSUME SessionInv, NEW s \in Sessions, OnceRegister(s), link = "down"
    PROVE  SessionInv'
  <1>i. Parts /\ EachSession
    BY PartsOf
  <1>u. /\ db' = db /\ taken' = taken /\ sched' = sched /\ fired' = fired /\ spool' = spool
        /\ boot' = boot /\ acc' = acc /\ link' = link /\ stuck' = stuck /\ plan' = plan
        /\ wpc' = wpc /\ spc' = spc /\ mem' = mem /\ listed' = listed /\ slock' = slock
        /\ handler' = handler /\ io' = io /\ asker' = asker /\ owner' = owner /\ live' = live
        /\ faults' = faults
    BY DEF OnceRegister, devVars, linkVars, thrVars, histVars
  <1>d. /\ pc' \in [Sessions -> ThreadPcs] /\ pc'[s] = "done"
        /\ (\A r \in Sessions : r # s => pc'[r] = pc[r]) /\ pc[s] \in {"checked"} /\ ~Periodic(s)
    BY <1>i DEF OnceRegister, Periodic, Go, Parts, TypeOK, ThreadPcs, WorkerPcs, StopPcs
  <1>k. \A r : Asked(r)' = Asked(r) /\ NumberAsked(r)' = NumberAsked(r)
    BY <1>u DEF Asked, NumberAsked
  <1>T. TypeOK'
    BY <1>i, <1>u, <1>d, <1>k DEF Parts, TypeOK
  <1>S. StoreInv'
    BY <1>i, <1>u, <1>d, <1>k DEF Parts, StoreInv, Saves, OwnerIsAsker
  <1>F. FramesTrue'
    BY <1>i, <1>u, <1>d, <1>k DEF Parts, FramesTrue, InHand
  <1>L. LinksTrue'
    BY <1>i, <1>u, <1>d, <1>k DEF Parts, LinksTrue
  <1>N. NamesKnown'
    BY <1>i, <1>u, <1>d, NamesKept
  <1>W. Waits'
    <2>1. \A r \in Sessions : Periodic(r)' <=> Periodic(r)
      BY <1>u DEF Periodic
    <2>2. QED
      BY <1>i, <1>u, <1>d, <2>1, WaitsKept
  <1>V. ViaTrue'
    <2>1. \A r \in Sessions : Periodic(r)' <=> Periodic(r)
      BY <1>u DEF Periodic
    <2>2. QED
      BY <1>i, <1>u, <1>d, <2>1, ViaKept
  <1>P. ScheduleTrue'
    BY <1>i, <1>u, <1>d, <1>k DEF Parts, ScheduleTrue, Periodic
  <1>r. ASSUME NEW r \in Sessions
        PROVE  LifeOf(r)' /\ RowOf(r)' /\ OverIsQuiet(r)' /\ NotBefore(r)' /\ CountTrue(r)'
    <2>h. /\ LifeOf(r) /\ RowOf(r) /\ OverIsQuiet(r) /\ NotBefore(r) /\ CountTrue(r)
          /\ NumberAsked(r) \in Nat /\ mem[r].count \in Nat
      BY <1>i, Numbers DEF EachSession
    <2>k. Asked(r)' = Asked(r) /\ NumberAsked(r)' = NumberAsked(r)
      BY <1>k
    <2>A. LifeOf(r)'
      BY <1>i, <2>h, <1>u, <1>d, <2>k DEF LifeOf, Periodic, Active
    <2>R. RowOf(r)'
      BY <1>i, <2>h, <1>u, <1>d, <2>k DEF RowOf, Periodic, Active, Terminal
    <2>O. OverIsQuiet(r)'
      BY <1>i, <2>h, <1>u, <1>d, <2>k, NoFrameIsNone, Constants
         DEF OverIsQuiet, Over, Quiet, Persisting, Periodic
    <2>B. NotBefore(r)'
      BY <1>i, <2>h, <1>u, <1>d, <2>k, Constants DEF NotBefore, Periodic
    <2>C. CountTrue(r)'
      BY <1>i, <2>h, <1>u, <1>d, <2>k, NoFrameIsNone, Constants
         DEF CountTrue, Pending, Persisting, Periodic
    <2>q. QED
      BY <2>A, <2>R, <2>O, <2>B, <2>C
  <1>q. QED
    BY <1>T, <1>S, <1>F, <1>L, <1>N, <1>W, <1>V, <1>P, <1>r DEF SessionInv, ThreadInv, QuietInv

LEMMA OnceRegisterStep ==
    ASSUME SessionInv, NEW s \in Sessions, OnceRegister(s), link # "down"
    PROVE  SessionInv'
  <1>i. Parts /\ EachSession
    BY PartsOf
  <1>u. /\ taken' = taken /\ sched' = sched /\ fired' = fired /\ spool' = spool /\ boot' = boot
        /\ acc' = acc /\ link' = link /\ stuck' = stuck /\ plan' = plan /\ wpc' = wpc
        /\ spc' = spc /\ listed' = listed /\ slock' = slock /\ handler' = handler /\ io' = io
        /\ asker' = asker /\ owner' = owner /\ live' = live /\ faults' = faults
    BY DEF OnceRegister, devVars, linkVars, thrVars, histVars
  <1>d. /\ pc' \in [Sessions -> ThreadPcs] /\ pc'[s] = "registered"
        /\ (\A r \in Sessions : r # s => pc'[r] = pc[r]) /\ pc[s] \in {"checked"} /\ ~Periodic(s)
    BY <1>i DEF OnceRegister, Periodic, Go, Parts, TypeOK, ThreadPcs, WorkerPcs, StopPcs
  <1>m. /\ mem' \in [Sessions -> Objects] /\ mem'[s].state = "RUNNING" /\ mem'[s].count = mem[s].count
        /\ mem'[s].stop = mem[s].stop /\ \A r \in Sessions : r # s => mem'[r] = mem[r]
    <2>1. mem' = [mem EXCEPT ![s].state = "RUNNING"]
      BY DEF OnceRegister
    <2>2. mem \in [Sessions -> Objects]
      BY <1>i DEF Parts, TypeOK
    <2>3. QED
      BY <2>1, <2>2 DEF Objects, Active
  <1>p. \A r \in Sessions : plan'[r].save = plan[r].save
    BY <1>u
  <1>s. /\ StoreInv' /\ db' \in Databases /\ db'.summary = db.summary
        /\ \A b \in Boots : db'.policy[b].session \in {s, db.policy[b].session}
    <2>1. db' = RegisterPolicy(db, boot, s, Saves[s]) /\ boot \in Boots
      BY <1>i DEF OnceRegister, Saves, Parts, TypeOK
    <2>2. \A r \in Sessions : plan'[r].save = plan[r].save
      BY <1>u, <1>p
    <2>3. StoreGood(db, owner, asker, Saves, live) /\ Saves \in [Sessions -> SavePolicies]
      BY <1>i, SavesType
    <2>4. /\ Harmless(db, db', Saves) /\ db'.summary = db.summary
          /\ db'.policy[boot].session = s /\ \A x \in Boots : x # boot => db'.policy[x] = db.policy[x]
      BY <2>1, <2>3, RegisterGood
    <2>5. QED
      BY <1>i, <1>u, <2>2, <2>4, StoreKept
  <1>k. \A r : Asked(r)' = Asked(r) /\ NumberAsked(r)' = NumberAsked(r)
    BY <1>u DEF Asked, NumberAsked
  <1>T. TypeOK'
    BY <1>i, <1>u, <1>d, <1>m, <1>p, <1>s, <1>k DEF Parts, TypeOK
  <1>S. StoreInv'
    BY <1>s
  <1>F. FramesTrue'
    BY <1>i, <1>u, <1>d, <1>m, <1>p, <1>s, <1>k DEF Parts, FramesTrue, InHand
  <1>L. LinksTrue'
    BY <1>i, <1>u, <1>d, <1>m, <1>p, <1>s, <1>k DEF Parts, LinksTrue
  <1>N. NamesKnown'
    BY <1>i, <1>u, <1>d, <1>s, NamesKept
  <1>W. Waits'
    <2>1. \A r \in Sessions : Periodic(r)' <=> Periodic(r)
      BY <1>u DEF Periodic
    <2>2. QED
      BY <1>i, <1>u, <1>d, <2>1, WaitsKept
  <1>V. ViaTrue'
    <2>1. \A r \in Sessions : Periodic(r)' <=> Periodic(r)
      BY <1>u DEF Periodic
    <2>2. QED
      BY <1>i, <1>u, <1>d, <2>1, ViaKept
  <1>P. ScheduleTrue'
    BY <1>i, <1>u, <1>d, <1>m, <1>p, <1>s, <1>k DEF Parts, ScheduleTrue, Periodic
  <1>r. ASSUME NEW r \in Sessions
        PROVE  LifeOf(r)' /\ RowOf(r)' /\ OverIsQuiet(r)' /\ NotBefore(r)' /\ CountTrue(r)'
    <2>h. /\ LifeOf(r) /\ RowOf(r) /\ OverIsQuiet(r) /\ NotBefore(r) /\ CountTrue(r)
          /\ NumberAsked(r) \in Nat /\ mem[r].count \in Nat
      BY <1>i, Numbers DEF EachSession
    <2>k. Asked(r)' = Asked(r) /\ NumberAsked(r)' = NumberAsked(r)
      BY <1>k
    <2>A. LifeOf(r)'
      BY <1>i, <2>h, <1>u, <1>d, <1>m, <1>p, <1>s, <2>k DEF LifeOf, Periodic, Active, NoObject
    <2>R. RowOf(r)'
      BY <1>i, <2>h, <1>u, <1>d, <1>m, <1>p, <1>s, <2>k
         DEF RowOf, Periodic, Active, Terminal, LifeOf
    <2>O. OverIsQuiet(r)'
      BY <1>i, <2>h, <1>u, <1>d, <1>m, <1>p, <1>s, <2>k, NoFrameIsNone, Constants
         DEF OverIsQuiet, Over, Quiet, Persisting, Periodic
    <2>B. NotBefore(r)'
      BY <1>i, <2>h, <1>u, <1>d, <1>m, <1>p, <1>s, <2>k, Constants DEF NotBefore, Periodic
    <2>C. CountTrue(r)'
      BY <1>i, <2>h, <1>u, <1>d, <1>m, <1>p, <1>s, <2>k, NoFrameIsNone, Constants
         DEF CountTrue, Pending, Persisting, Periodic, NoObject
    <2>q. QED
      BY <2>A, <2>R, <2>O, <2>B, <2>C
  <1>q. QED
    BY <1>T, <1>S, <1>F, <1>L, <1>N, <1>W, <1>V, <1>P, <1>r DEF SessionInv, ThreadInv, QuietInv

LEMMA StartCleanupStep ==
    ASSUME SessionInv, NEW s \in Sessions, StartCleanup(s)
    PROVE  SessionInv'
  <1>i. Parts /\ EachSession
    BY PartsOf
  <1>u. /\ taken' = taken /\ sched' = sched /\ fired' = fired /\ spool' = spool /\ boot' = boot
        /\ acc' = acc /\ link' = link /\ stuck' = stuck /\ plan' = plan /\ wpc' = wpc
        /\ spc' = spc /\ listed' = listed /\ io' = io /\ asker' = asker /\ owner' = owner
        /\ live' = live /\ faults' = faults
    BY DEF StartCleanup, devVars, linkVars, thrVars, histVars
  <1>d. /\ pc' \in [Sessions -> ThreadPcs] /\ pc'[s] = "done"
        /\ (\A r \in Sessions : r # s => pc'[r] = pc[r]) /\ pc[s] \in {"cleanup"} /\ slock' = 0 /\ handler' \in {0, handler}
    BY <1>i DEF StartCleanup, Go, Parts, TypeOK, ThreadPcs, WorkerPcs, StopPcs
  <1>m. /\ mem' \in [Sessions -> Objects] /\ mem'[s] = NoObject
        /\ \A r \in Sessions : r # s => mem'[r] = mem[r]
    <2>1. mem' = [mem EXCEPT ![s] = NoObject] /\ mem \in [Sessions -> Objects]
      BY <1>i DEF StartCleanup, Parts, TypeOK
    <2>2. NoObject \in Objects
      BY DEF NoObject, Objects
    <2>3. QED
      BY <2>1, <2>2
  <1>s. /\ StoreInv' /\ db' \in Databases /\ db'.summary = db.summary
        /\ \A b \in Boots : db'.policy[b].session \in {0, db.policy[b].session}
    <2>1. CASE link = "down"
      <3>1. db' = db
        BY <2>1 DEF StartCleanup
      <3>2. QED
        BY <1>i, <1>u, <3>1 DEF Parts, StoreInv, Saves, OwnerIsAsker, TypeOK
    <2>2. CASE link # "down"
      <3>1. db' = UnregisterPolicy(db, plan[s].boot, s)
        BY <2>2 DEF StartCleanup
      <3>2. StoreGood(db, owner, asker, Saves, live)
        BY <1>i, SavesType
      <3>3. /\ Harmless(db, db', Saves) /\ db'.summary = db.summary
            /\ \A b \in Boots : db'.policy[b].session \in {0, db.policy[b].session}
        BY <3>1, <3>2, UnregisterGood
      <3>4. QED
        BY <1>i, <1>u, <3>3, StoreKept
    <2>3. QED
      BY <2>1, <2>2
  <1>k. \A r : Asked(r)' = Asked(r) /\ NumberAsked(r)' = NumberAsked(r)
    BY <1>u DEF Asked, NumberAsked
  <1>T. TypeOK'
    BY <1>i, <1>u, <1>d, <1>m, <1>s, <1>k DEF Parts, TypeOK
  <1>S. StoreInv'
    BY <1>s
  <1>F. FramesTrue'
    BY <1>i, <1>u, <1>d, <1>m, <1>s, <1>k DEF Parts, FramesTrue, InHand
  <1>L. LinksTrue'
    BY <1>i, <1>u, <1>d, <1>m, <1>s, <1>k DEF Parts, LinksTrue
  <1>N. NamesKnown'
    BY <1>i, <1>u, <1>d, <1>s, NamesKept
  <1>W. Waits'
    <2>1. \A r \in Sessions : Periodic(r)' <=> Periodic(r)
      BY <1>u DEF Periodic
    <2>2. QED
      BY <1>i, <1>u, <1>d, <2>1, WaitsKept
  <1>V. ViaTrue'
    <2>1. \A r \in Sessions : Periodic(r)' <=> Periodic(r)
      BY <1>u DEF Periodic
    <2>2. QED
      BY <1>i, <1>u, <1>d, <2>1, ViaKept
  <1>P. ScheduleTrue'
    BY <1>i, <1>u, <1>d, <1>m, <1>s, <1>k DEF Parts, ScheduleTrue, Periodic
  <1>r. ASSUME NEW r \in Sessions
        PROVE  LifeOf(r)' /\ RowOf(r)' /\ OverIsQuiet(r)' /\ NotBefore(r)' /\ CountTrue(r)'
    <2>h. /\ LifeOf(r) /\ RowOf(r) /\ OverIsQuiet(r) /\ NotBefore(r) /\ CountTrue(r)
          /\ NumberAsked(r) \in Nat /\ mem[r].count \in Nat
      BY <1>i, Numbers DEF EachSession
    <2>k. Asked(r)' = Asked(r) /\ NumberAsked(r)' = NumberAsked(r)
      BY <1>k
    <2>A. LifeOf(r)'
      BY <1>i, <2>h, <1>u, <1>d, <1>m, <1>s, <2>k DEF LifeOf, Periodic, Active, NoObject
    <2>R. RowOf(r)'
      BY <1>i, <2>h, <1>u, <1>d, <1>m, <1>s, <2>k
         DEF RowOf, Periodic, Active, Terminal, NoObject, LifeOf
    <2>O. OverIsQuiet(r)'
      BY <1>i, <2>h, <1>u, <1>d, <1>m, <1>s, <2>k, NoFrameIsNone, Constants
         DEF OverIsQuiet, Over, Quiet, Persisting, Periodic, NoObject
    <2>B. NotBefore(r)'
      BY <1>i, <2>h, <1>u, <1>d, <1>m, <1>s, <2>k, Constants DEF NotBefore, Periodic
    <2>C. CountTrue(r)'
      BY <1>i, <2>h, <1>u, <1>d, <1>m, <1>s, <2>k, NoFrameIsNone, Constants
         DEF CountTrue, Pending, Persisting, Periodic, NoObject, Active
    <2>q. QED
      BY <2>A, <2>R, <2>O, <2>B, <2>C
  <1>q. QED
    BY <1>T, <1>S, <1>F, <1>L, <1>N, <1>W, <1>V, <1>P, <1>r DEF SessionInv, ThreadInv, QuietInv

LEMMA StartPeriodicStep ==
    ASSUME SessionInv, NEW s \in Sessions, NEW m \in Menu, StartPeriodic(s, m)
    PROVE  SessionInv'
  <1>i. Parts /\ EachSession
    BY PartsOf
  <1>u. /\ db' = db /\ taken' = taken /\ sched' = sched /\ fired' = fired /\ spool' = spool
        /\ boot' = boot /\ acc' = acc /\ link' = link /\ stuck' = stuck /\ wpc' = wpc
        /\ spc' = spc /\ mem' = mem /\ listed' = listed /\ handler' = handler /\ io' = io
        /\ asker' = asker /\ owner' = owner /\ live' = live /\ faults' = faults
    BY DEF StartPeriodic, devVars, linkVars, thrVars, histVars
  <1>d. /\ pc' \in [Sessions -> ThreadPcs] /\ pc'[s] = "checked"
        /\ (\A r \in Sessions : r # s => pc'[r] = pc[r]) /\ pc[s] \in {"new"} /\ slock' = s
    BY <1>i DEF StartPeriodic, Fresh, Go, Parts, TypeOK, ThreadPcs, WorkerPcs, StopPcs
  <1>p. /\ plan' \in [Sessions -> Plans] /\ Periodic(s)'
        /\ \A r \in Sessions : r # s => plan'[r] = plan[r] /\ (Periodic(r)' <=> Periodic(r))
    <2> DEFINE x == [kind |-> m.kind, save |-> m.save, limit |-> m.limit, boot |-> 0]
    <2>1. plan' = [plan EXCEPT ![s] = x] /\ plan \in [Sessions -> Plans] /\ m.kind = "PERIODIC"
      BY <1>i DEF StartPeriodic, Parts, TypeOK
    <2>2. x \in Plans /\ x.kind = m.kind
      BY SessionConstants DEF Plans, OnceStorage, SavePolicies
    <2> HIDE DEF x
    <2>3. QED
      BY <2>1, <2>2 DEF Periodic
  <1>n. /\ sched # s /\ handler # s /\ io.via # s /\ spool.req # s
        /\ Asked(s) = {} /\ NumberAsked(s) = 0 /\ Own(owner, s) = {}
        /\ \A b \in Boots : db.policy[b].session # s
    BY <1>i, <1>d, Unused
  <1>s. StoreInv'
    <2>1. StoreGood(db, owner, asker, Saves, live) /\ owner \in Owners
      BY <1>i, SavesType
    <2>2. db.summary[s].state \notin Terminal
      BY <1>i, <1>d DEF EachSession, RowOf, Terminal
    <2>3. \A r \in Sessions : r # s => Saves'[r] = Saves[r]
      BY <1>p DEF Saves
    <2>4. StoreGood(db, owner, asker, Saves', live)
      BY <1>n, <2>1, <2>2, <2>3, PolicyChosen
    <2>5. QED
      BY <1>i, <1>u, <2>4 DEF Parts, StoreInv, OwnerIsAsker
  <1>k. \A r : Asked(r)' = Asked(r) /\ NumberAsked(r)' = NumberAsked(r)
    BY <1>u DEF Asked, NumberAsked
  <1>T. TypeOK'
    BY <1>i, <1>u, <1>d, <1>p, <1>n, <1>s, <1>k DEF Parts, TypeOK
  <1>S. StoreInv'
    BY <1>s
  <1>F. FramesTrue'
    BY <1>i, <1>u, <1>d, <1>p, <1>n, <1>s, <1>k DEF Parts, FramesTrue, InHand
  <1>L. LinksTrue'
    BY <1>i, <1>u, <1>d, <1>p, <1>n, <1>s, <1>k DEF Parts, LinksTrue
  <1>N. NamesKnown'
    BY <1>i, <1>u, <1>d, NamesKept
  <1>W. Waits'
    BY <1>i, <1>u, <1>d, <1>p, WaitsKept
  <1>V. ViaTrue'
    BY <1>i, <1>u, <1>d, <1>p, ViaKept
  <1>P. ScheduleTrue'
    <2>1. ScheduleTrue /\ sched \in Sessions \cup {0} /\ sched # s
      BY <1>i, <1>n DEF Parts, TypeOK
    <2>2. PICK p \in Sessions \cup {0} : p = sched
      BY <2>1
    <2>3. p # 0 => /\ Periodic(p)' /\ fired = NumberAsked(p)'
                   /\ plan'[p].limit # 0 => fired < plan'[p].limit
      BY <1>k, <1>p, <2>1, <2>2 DEF ScheduleTrue
    <2>4. plan'[s].limit \in Nat
      BY <1>p DEF Plans
    <2>5. \A r \in Sessions :
             Periodic(r)' /\ plan'[r].limit # 0 => NumberAsked(r)' <= plan'[r].limit
      BY <1>k, <1>p, <1>n, <2>1, <2>4 DEF ScheduleTrue
    <2>6. QED
      BY <1>u, <2>1, <2>2, <2>3, <2>5 DEF ScheduleTrue, Periodic
  <1>r. ASSUME NEW r \in Sessions
        PROVE  LifeOf(r)' /\ RowOf(r)' /\ OverIsQuiet(r)' /\ NotBefore(r)' /\ CountTrue(r)'
    <2>h. /\ LifeOf(r) /\ RowOf(r) /\ OverIsQuiet(r) /\ NotBefore(r) /\ CountTrue(r)
          /\ NumberAsked(r) \in Nat /\ mem[r].count \in Nat
      BY <1>i, Numbers DEF EachSession
    <2>k. Asked(r)' = Asked(r) /\ NumberAsked(r)' = NumberAsked(r)
      BY <1>k
    <2>p. r # s => (Periodic(r)' <=> Periodic(r))
      BY <1>p
    <2>A. LifeOf(r)'
      BY <1>i, <2>h, <1>u, <1>d, <1>p, <1>n, <1>s, <2>k, <2>p DEF LifeOf, Active
    <2>R. RowOf(r)'
      BY <1>i, <2>h, <1>u, <1>d, <1>p, <1>n, <1>s, <2>k, <2>p DEF RowOf, Active, Terminal
    <2>O. OverIsQuiet(r)'
      BY <1>i, <2>h, <1>u, <1>d, <1>p, <1>n, <1>s, <2>k, <2>p, NoFrameIsNone, Constants
         DEF OverIsQuiet, Over, Quiet, Persisting
    <2>B. NotBefore(r)'
      BY <1>i, <2>h, <1>u, <1>d, <1>p, <1>n, <1>s, <2>k, <2>p, Constants DEF NotBefore
    <2>C. CountTrue(r)'
      BY <1>i, <2>h, <1>u, <1>d, <1>p, <1>n, <1>s, <2>k, <2>p, NoFrameIsNone, Constants
         DEF CountTrue, Pending, Persisting, LifeOf, Active
    <2>q. QED
      BY <2>A, <2>R, <2>O, <2>B, <2>C
  <1>q. QED
    BY <1>T, <1>S, <1>F, <1>L, <1>N, <1>W, <1>V, <1>P, <1>r DEF SessionInv, ThreadInv, QuietInv

LEMMA OnceCheckStep ==
    ASSUME SessionInv, NEW s \in Sessions, NEW m \in Menu, OnceCheck(s, m)
    PROVE  SessionInv'
  <1>i. Parts /\ EachSession
    BY PartsOf
  <1>u. /\ db' = db /\ taken' = taken /\ sched' = sched /\ fired' = fired /\ spool' = spool
        /\ boot' = boot /\ acc' = acc /\ link' = link /\ stuck' = stuck /\ wpc' = wpc
        /\ spc' = spc /\ mem' = mem /\ listed' = listed /\ slock' = slock /\ handler' = handler
        /\ io' = io /\ asker' = asker /\ owner' = owner /\ live' = live /\ faults' = faults
    BY DEF OnceCheck, devVars, linkVars, thrVars, histVars
  <1>d. /\ pc' \in [Sessions -> ThreadPcs] /\ pc'[s] = "checked"
        /\ (\A r \in Sessions : r # s => pc'[r] = pc[r]) /\ pc[s] \in {"new"}
    BY <1>i DEF OnceCheck, Fresh, Go, Parts, TypeOK, ThreadPcs, WorkerPcs, StopPcs
  <1>p. /\ plan' \in [Sessions -> Plans] /\ ~Periodic(s)'
        /\ \A r \in Sessions : r # s => plan'[r] = plan[r] /\ (Periodic(r)' <=> Periodic(r))
    <2> DEFINE x == [kind |-> "SINGLE", save |-> OnceStorage(m.save), limit |-> 1, boot |-> 0]
    <2>1. plan' = [plan EXCEPT ![s] = x] /\ plan \in [Sessions -> Plans]
      BY <1>i DEF OnceCheck, Parts, TypeOK
    <2>2. x \in Plans /\ x.kind = "SINGLE"
      BY SessionConstants DEF Plans, OnceStorage, SavePolicies
    <2> HIDE DEF x
    <2>3. QED
      BY <2>1, <2>2 DEF Periodic
  <1>n. /\ sched # s /\ handler # s /\ io.via # s /\ spool.req # s
        /\ Asked(s) = {} /\ NumberAsked(s) = 0 /\ Own(owner, s) = {}
        /\ \A b \in Boots : db.policy[b].session # s
    BY <1>i, <1>d, Unused
  <1>s. StoreInv'
    <2>1. StoreGood(db, owner, asker, Saves, live) /\ owner \in Owners
      BY <1>i, SavesType
    <2>2. db.summary[s].state \notin Terminal
      BY <1>i, <1>d DEF EachSession, RowOf, Terminal
    <2>3. \A r \in Sessions : r # s => Saves'[r] = Saves[r]
      BY <1>p DEF Saves
    <2>4. StoreGood(db, owner, asker, Saves', live)
      BY <1>n, <2>1, <2>2, <2>3, PolicyChosen
    <2>5. QED
      BY <1>i, <1>u, <2>4 DEF Parts, StoreInv, OwnerIsAsker
  <1>k. \A r : Asked(r)' = Asked(r) /\ NumberAsked(r)' = NumberAsked(r)
    BY <1>u DEF Asked, NumberAsked
  <1>T. TypeOK'
    BY <1>i, <1>u, <1>d, <1>p, <1>n, <1>s, <1>k DEF Parts, TypeOK
  <1>S. StoreInv'
    BY <1>s
  <1>F. FramesTrue'
    BY <1>i, <1>u, <1>d, <1>p, <1>n, <1>s, <1>k DEF Parts, FramesTrue, InHand
  <1>L. LinksTrue'
    BY <1>i, <1>u, <1>d, <1>p, <1>n, <1>s, <1>k DEF Parts, LinksTrue
  <1>N. NamesKnown'
    BY <1>i, <1>u, <1>d, NamesKept
  <1>W. Waits'
    BY <1>i, <1>u, <1>d, <1>p, WaitsKept
  <1>V. ViaTrue'
    BY <1>i, <1>u, <1>d, <1>p, ViaKept
  <1>P. ScheduleTrue'
    <2>1. ScheduleTrue /\ sched \in Sessions \cup {0} /\ sched # s
      BY <1>i, <1>n DEF Parts, TypeOK
    <2>2. PICK p \in Sessions \cup {0} : p = sched
      BY <2>1
    <2>3. p # 0 => /\ Periodic(p)' /\ fired = NumberAsked(p)'
                   /\ plan'[p].limit # 0 => fired < plan'[p].limit
      BY <1>k, <1>p, <2>1, <2>2 DEF ScheduleTrue
    <2>4. plan'[s].limit \in Nat
      BY <1>p DEF Plans
    <2>5. \A r \in Sessions :
             Periodic(r)' /\ plan'[r].limit # 0 => NumberAsked(r)' <= plan'[r].limit
      BY <1>k, <1>p, <1>n, <2>1, <2>4 DEF ScheduleTrue
    <2>6. QED
      BY <1>u, <2>1, <2>2, <2>3, <2>5 DEF ScheduleTrue, Periodic
  <1>r. ASSUME NEW r \in Sessions
        PROVE  LifeOf(r)' /\ RowOf(r)' /\ OverIsQuiet(r)' /\ NotBefore(r)' /\ CountTrue(r)'
    <2>h. /\ LifeOf(r) /\ RowOf(r) /\ OverIsQuiet(r) /\ NotBefore(r) /\ CountTrue(r)
          /\ NumberAsked(r) \in Nat /\ mem[r].count \in Nat
      BY <1>i, Numbers DEF EachSession
    <2>k. Asked(r)' = Asked(r) /\ NumberAsked(r)' = NumberAsked(r)
      BY <1>k
    <2>p. r # s => (Periodic(r)' <=> Periodic(r))
      BY <1>p
    <2>A. LifeOf(r)'
      BY <1>i, <2>h, <1>u, <1>d, <1>p, <1>n, <1>s, <2>k, <2>p DEF LifeOf, Active
    <2>R. RowOf(r)'
      BY <1>i, <2>h, <1>u, <1>d, <1>p, <1>n, <1>s, <2>k, <2>p DEF RowOf, Active, Terminal
    <2>O. OverIsQuiet(r)'
      BY <1>i, <2>h, <1>u, <1>d, <1>p, <1>n, <1>s, <2>k, <2>p, NoFrameIsNone, Constants
         DEF OverIsQuiet, Over, Quiet, Persisting
    <2>B. NotBefore(r)'
      BY <1>i, <2>h, <1>u, <1>d, <1>p, <1>n, <1>s, <2>k, <2>p, Constants DEF NotBefore
    <2>C. CountTrue(r)'
      BY <1>i, <2>h, <1>u, <1>d, <1>p, <1>n, <1>s, <2>k, <2>p, NoFrameIsNone, Constants
         DEF CountTrue, Pending, Persisting, LifeOf, Active
    <2>q. QED
      BY <2>A, <2>R, <2>O, <2>B, <2>C
  <1>q. QED
    BY <1>T, <1>S, <1>F, <1>L, <1>N, <1>W, <1>V, <1>P, <1>r DEF SessionInv, ThreadInv, QuietInv

\* A session ends.
LEMMA Ended ==
    ASSUME Parts, NEW s \in Sessions, NEW state \in Terminal, io.pc = "commit" => io.via # s,
           db' = FinalizeSummary(db, s, state, plan[s].save),
           plan' = plan, owner' = owner, asker' = asker, live' = live, io' = io
    PROVE  /\ StoreInv' /\ db' \in Databases /\ db'.policy = db.policy
           /\ db'.summary[s].state = state
           /\ \A r \in Sessions : r # s => db'.summary[r] = db.summary[r]
  <1>1. /\ StoreGood(db, owner, asker, Saves, live) /\ Typed(owner, asker, Saves)
        /\ db' = FinalizeSummary(db, s, state, Saves[s])
    BY SavesType
  <1>2. /\ StoreGood(db', owner, asker, Saves, live)
        /\ db'.summary[s].state = state
        /\ \A r \in Sessions : r # s => db'.summary[r] = db.summary[r]
        /\ EndKeeps(db, db', owner, asker, s)
    BY <1>1, EndGood
  <1>3. Saves' = Saves
    BY DEF Saves
  <1>4. OwnerIsAsker <=> AsAsked(owner, asker)
    BY DEF OwnerIsAsker, AsAsked
  <1>5. OwnerIsAsker /\ io.pc = "commit" /\ io.via # 0 /\ owner[io.frame.cap] = 0 =>
          io.frame.req \in db'.staged
    <2> SUFFICES ASSUME OwnerIsAsker, io.pc = "commit", io.via # 0, owner[io.frame.cap] = 0
                 PROVE  io.frame.req \in db'.staged
      OBVIOUS
    <2>1. io.frame.req \in db.staged /\ io.frame.req = io.via /\ io.via \in Sessions
      BY DEF Parts, StoreInv, FramesTrue, TypeOK, Ios
    <2>2. QED
      BY <1>2, <1>4, <2>1 DEF EndKeeps
  <1>6. db' \in Databases
    BY <1>2 DEF StoreGood, TablesGood
  <1>7. StoreGood(db, owner, asker, Saves, live)' /\ (OwnerIsAsker' <=> OwnerIsAsker)
    BY <1>2, <1>3 DEF OwnerIsAsker
  <1>8. StoreInv'
    BY <1>5, <1>7 DEF StoreInv
  <1>9. QED
    BY <1>2, <1>6, <1>8 DEF EndKeeps

LEMMA Finished ==
    ASSUME Parts, NEW s \in Sessions, NEW state \in Terminal, ~Persisting(s), Finish(s, state),
           plan' = plan, owner' = owner, asker' = asker, live' = live, io' = io
    PROVE  /\ StoreInv' /\ db' \in Databases /\ db'.policy = db.policy
           /\ db'.summary[s].state = state
           /\ \A r \in Sessions : r # s => db'.summary[r] = db.summary[r]
           /\ mem' \in [Sessions -> Objects] /\ mem'[s].state = state /\ mem'[s].stop = mem[s].stop
           /\ \A r \in Sessions : r # s => mem'[r] = mem[r]
  <1>1. db' = FinalizeSummary(db, s, state, plan[s].save)
    BY DEF Finish
  <1>2. io.pc = "commit" => io.via # s
    BY DEF Persisting
  <1>3. /\ StoreInv' /\ db' \in Databases /\ db'.policy = db.policy
        /\ db'.summary[s].state = state
        /\ \A r \in Sessions : r # s => db'.summary[r] = db.summary[r]
    BY <1>1, <1>2, Ended
  <1>4. PICK x : x = db'.summary[s]
    OBVIOUS
  <1> DEFINE o == [mem[s] EXCEPT !.state = state, !.count = x.acquired, !.saved = x.saved,
                                 !.discarded = x.discarded, !.lastSaved = x.lastSaved]
  <1>5. mem' = [mem EXCEPT ![s] = o]
    BY <1>4 DEF Finish
  <1>6. x \in Summaries
    BY <1>3, <1>4, Tables
  <1>7. mem \in [Sessions -> Objects]
    BY DEF Parts, TypeOK
  <1>a. o \in Objects /\ o.state = state /\ o.stop = mem[s].stop
    BY <1>6, <1>7 DEF Objects, Summaries
  <1> HIDE DEF o
  <1>8. /\ mem' \in [Sessions -> Objects] /\ mem'[s].state = state /\ mem'[s].stop = mem[s].stop
        /\ \A r \in Sessions : r # s => mem'[r] = mem[r]
    BY <1>5, <1>7, <1>a
  <1>9. QED
    BY <1>3, <1>8

LEMMA OnceEndStep ==
    ASSUME SessionInv, NEW s \in Sessions, OnceEnd(s)
    PROVE  SessionInv'
  <1>i. Parts /\ EachSession
    BY PartsOf
  <1>u. /\ taken' = taken /\ sched' = sched /\ fired' = fired /\ spool' = spool /\ boot' = boot
        /\ acc' = acc /\ link' = link /\ stuck' = stuck /\ plan' = plan /\ wpc' = wpc
        /\ spc' = spc /\ listed' = listed /\ slock' = slock /\ handler' = handler /\ io' = io
        /\ asker' = asker /\ owner' = owner /\ live' = live /\ faults' = faults
    BY DEF OnceEnd, devVars, linkVars, thrVars, histVars
  <1>d. /\ pc' \in [Sessions -> ThreadPcs] /\ pc'[s] = "done"
        /\ (\A r \in Sessions : r # s => pc'[r] = pc[r]) /\ pc[s] \in {"captured", "failed"}
    BY <1>i DEF OnceEnd, Go, Parts, TypeOK, ThreadPcs, WorkerPcs, StopPcs
  <1>t. PICK state \in Terminal : db' = FinalizeSummary(db, s, state, plan[s].save) /\ state \notin Active
    BY DEF OnceEnd, Terminal, Active
  <1>m. /\ mem' \in [Sessions -> Objects] /\ mem'[s] = NoObject
        /\ \A r \in Sessions : r # s => mem'[r] = mem[r]
    <2>1. mem' = [mem EXCEPT ![s] = NoObject] /\ mem \in [Sessions -> Objects]
      BY <1>i DEF OnceEnd, Parts, TypeOK
    <2>2. NoObject \in Objects
      BY DEF NoObject, Objects
    <2>3. QED
      BY <2>1, <2>2
  <1>p. ~Periodic(s) /\ io.via # s
    BY <1>i, <1>d, Constants DEF EachSession, LifeOf, Parts, ViaTrue, Waits
  <1>s. /\ StoreInv' /\ db' \in Databases /\ db'.policy = db.policy
        /\ db'.summary[s].state = state
        /\ \A r \in Sessions : r # s => db'.summary[r] = db.summary[r]
    BY <1>i, <1>u, <1>t, <1>p, Ended
  <1>k. \A r : Asked(r)' = Asked(r) /\ NumberAsked(r)' = NumberAsked(r)
    BY <1>u DEF Asked, NumberAsked
  <1>T. TypeOK'
    BY <1>i, <1>u, <1>d, <1>t, <1>m, <1>p, <1>s, <1>k DEF Parts, TypeOK
  <1>S. StoreInv'
    BY <1>s
  <1>F. FramesTrue'
    BY <1>i, <1>u, <1>d, <1>t, <1>m, <1>p, <1>s, <1>k DEF Parts, FramesTrue, InHand
  <1>L. LinksTrue'
    BY <1>i, <1>u, <1>d, <1>t, <1>m, <1>p, <1>s, <1>k DEF Parts, LinksTrue
  <1>N. NamesKnown'
    BY <1>i, <1>u, <1>d, <1>s, NamesKept
  <1>W. Waits'
    <2>1. \A r \in Sessions : Periodic(r)' <=> Periodic(r)
      BY <1>u DEF Periodic
    <2>2. QED
      BY <1>i, <1>u, <1>d, <2>1, WaitsKept
  <1>V. ViaTrue'
    <2>1. \A r \in Sessions : Periodic(r)' <=> Periodic(r)
      BY <1>u DEF Periodic
    <2>2. QED
      BY <1>i, <1>u, <1>d, <2>1, ViaKept
  <1>P. ScheduleTrue'
    BY <1>i, <1>u, <1>d, <1>t, <1>m, <1>p, <1>s, <1>k DEF Parts, ScheduleTrue, Periodic
  <1>r. ASSUME NEW r \in Sessions
        PROVE  LifeOf(r)' /\ RowOf(r)' /\ OverIsQuiet(r)' /\ NotBefore(r)' /\ CountTrue(r)'
    <2>h. /\ LifeOf(r) /\ RowOf(r) /\ OverIsQuiet(r) /\ NotBefore(r) /\ CountTrue(r)
          /\ NumberAsked(r) \in Nat /\ mem[r].count \in Nat
      BY <1>i, Numbers DEF EachSession
    <2>k. Asked(r)' = Asked(r) /\ NumberAsked(r)' = NumberAsked(r)
      BY <1>k
    <2>A. LifeOf(r)'
      BY <1>i, <2>h, <1>u, <1>d, <1>t, <1>m, <1>p, <1>s, <2>k DEF LifeOf, Periodic, Active, NoObject
    <2>R. RowOf(r)'
      BY <1>i, <2>h, <1>u, <1>d, <1>t, <1>m, <1>p, <1>s, <2>k
         DEF RowOf, Periodic, Active, Terminal, NoObject, LifeOf
    <2>O. OverIsQuiet(r)'
      BY <1>i, <2>h, <1>u, <1>d, <1>t, <1>m, <1>p, <1>s, <2>k, NoFrameIsNone, Constants
         DEF OverIsQuiet, Over, Quiet, Persisting, Periodic, NoObject
    <2>B. NotBefore(r)'
      BY <1>i, <2>h, <1>u, <1>d, <1>t, <1>m, <1>p, <1>s, <2>k, Constants DEF NotBefore, Periodic
    <2>C. CountTrue(r)'
      BY <1>i, <2>h, <1>u, <1>d, <1>t, <1>m, <1>p, <1>s, <2>k, NoFrameIsNone, Constants
         DEF CountTrue, Pending, Persisting, Periodic, NoObject, Active
    <2>q. QED
      BY <2>A, <2>R, <2>O, <2>B, <2>C
  <1>q. QED
    BY <1>T, <1>S, <1>F, <1>L, <1>N, <1>W, <1>V, <1>P, <1>r DEF SessionInv, ThreadInv, QuietInv

LEMMA ReconcileStep ==
    ASSUME SessionInv, NEW s \in Sessions, Reconcile(s)
    PROVE  SessionInv'
  <1>i. Parts /\ EachSession
    BY PartsOf
  <1>u. /\ taken' = taken /\ sched' = sched /\ fired' = fired /\ spool' = spool /\ boot' = boot
        /\ acc' = acc /\ link' = link /\ stuck' = stuck /\ plan' = plan /\ wpc' = wpc
        /\ spc' = spc /\ mem' = mem /\ listed' = listed /\ slock' = slock /\ handler' = handler
        /\ io' = io /\ asker' = asker /\ owner' = owner /\ live' = live /\ faults' = faults
    BY DEF Reconcile, devVars, linkVars, thrVars, histVars
  <1>d. /\ pc' \in [Sessions -> ThreadPcs] /\ pc'[s] = "done"
        /\ (\A r \in Sessions : r # s => pc'[r] = pc[r]) /\ pc[s] \in {"cut"}
    BY <1>i DEF Reconcile, Go, Parts, TypeOK, ThreadPcs, WorkerPcs, StopPcs
  <1>t. PICK state \in Terminal : db' = FinalizeSummary(db, s, state, plan[s].save) /\ state \notin Active
    BY DEF Reconcile, Terminal, Active
  <1>p. io.via # s /\ mem[s].state \notin Active
    BY <1>i, <1>d, Constants DEF EachSession, LifeOf, Parts, ViaTrue, Waits
  <1>s. /\ StoreInv' /\ db' \in Databases /\ db'.policy = db.policy
        /\ db'.summary[s].state = state
        /\ \A r \in Sessions : r # s => db'.summary[r] = db.summary[r]
    BY <1>i, <1>u, <1>t, <1>p, Ended
  <1>k. \A r : Asked(r)' = Asked(r) /\ NumberAsked(r)' = NumberAsked(r)
    BY <1>u DEF Asked, NumberAsked
  <1>T. TypeOK'
    BY <1>i, <1>u, <1>d, <1>t, <1>p, <1>s, <1>k DEF Parts, TypeOK
  <1>S. StoreInv'
    BY <1>s
  <1>F. FramesTrue'
    BY <1>i, <1>u, <1>d, <1>t, <1>p, <1>s, <1>k DEF Parts, FramesTrue, InHand
  <1>L. LinksTrue'
    BY <1>i, <1>u, <1>d, <1>t, <1>p, <1>s, <1>k DEF Parts, LinksTrue
  <1>N. NamesKnown'
    BY <1>i, <1>u, <1>d, <1>s, NamesKept
  <1>W. Waits'
    <2>1. \A r \in Sessions : Periodic(r)' <=> Periodic(r)
      BY <1>u DEF Periodic
    <2>2. QED
      BY <1>i, <1>u, <1>d, <2>1, WaitsKept
  <1>V. ViaTrue'
    <2>1. \A r \in Sessions : Periodic(r)' <=> Periodic(r)
      BY <1>u DEF Periodic
    <2>2. QED
      BY <1>i, <1>u, <1>d, <2>1, ViaKept
  <1>P. ScheduleTrue'
    BY <1>i, <1>u, <1>d, <1>t, <1>p, <1>s, <1>k DEF Parts, ScheduleTrue, Periodic
  <1>r. ASSUME NEW r \in Sessions
        PROVE  LifeOf(r)' /\ RowOf(r)' /\ OverIsQuiet(r)' /\ NotBefore(r)' /\ CountTrue(r)'
    <2>h. /\ LifeOf(r) /\ RowOf(r) /\ OverIsQuiet(r) /\ NotBefore(r) /\ CountTrue(r)
          /\ NumberAsked(r) \in Nat /\ mem[r].count \in Nat
      BY <1>i, Numbers DEF EachSession
    <2>k. Asked(r)' = Asked(r) /\ NumberAsked(r)' = NumberAsked(r)
      BY <1>k
    <2>A. LifeOf(r)'
      BY <1>i, <2>h, <1>u, <1>d, <1>t, <1>p, <1>s, <2>k DEF LifeOf, Periodic, Active
    <2>R. RowOf(r)'
      BY <1>i, <2>h, <1>u, <1>d, <1>t, <1>p, <1>s, <2>k
         DEF RowOf, Periodic, Active, Terminal, LifeOf
    <2>O. OverIsQuiet(r)'
      BY <1>i, <2>h, <1>u, <1>d, <1>t, <1>p, <1>s, <2>k, NoFrameIsNone, Constants
         DEF OverIsQuiet, Over, Quiet, Persisting, Periodic
    <2>B. NotBefore(r)'
      BY <1>i, <2>h, <1>u, <1>d, <1>t, <1>p, <1>s, <2>k, Constants DEF NotBefore, Periodic
    <2>C. CountTrue(r)'
      BY <1>i, <2>h, <1>u, <1>d, <1>t, <1>p, <1>s, <2>k, NoFrameIsNone, Constants
         DEF CountTrue, Pending, Persisting, Periodic
    <2>q. QED
      BY <2>A, <2>R, <2>O, <2>B, <2>C
  <1>q. QED
    BY <1>T, <1>S, <1>F, <1>L, <1>N, <1>W, <1>V, <1>P, <1>r DEF SessionInv, ThreadInv, QuietInv

LEMMA StopEndStep ==
    ASSUME SessionInv, NEW s \in Sessions, StopEnd(s)
    PROVE  SessionInv'
  <1>i. Parts /\ EachSession
    BY PartsOf
  <1>u. /\ taken' = taken /\ sched' = sched /\ fired' = fired /\ spool' = spool /\ boot' = boot
        /\ acc' = acc /\ link' = link /\ stuck' = stuck /\ plan' = plan /\ pc' = pc
        /\ wpc' = wpc /\ listed' = listed /\ slock' = slock /\ handler' = handler /\ io' = io
        /\ asker' = asker /\ owner' = owner /\ live' = live /\ faults' = faults
    BY DEF StopEnd, devVars, linkVars, thrVars, histVars
  <1>d. /\ spc' \in [Sessions -> StopPcs] /\ spc'[s] = "clear"
        /\ (\A r \in Sessions : r # s => spc'[r] = spc[r]) /\ spc[s] \in {"ok", "failed"}
    BY <1>i DEF StopEnd, Go, Parts, TypeOK, ThreadPcs, WorkerPcs, StopPcs
  <1>t. PICK state \in Terminal : Finish(s, state) /\ state \notin Active
    BY DEF StopEnd, Terminal, Active
  <1>p. Periodic(s) /\ s \in listed /\ pc[s] = "done" /\ Quiet(s) /\ ~Persisting(s)
    BY <1>i, <1>d DEF EachSession, LifeOf, OverIsQuiet, Over
  <1>s. /\ StoreInv' /\ db' \in Databases /\ db'.policy = db.policy
        /\ db'.summary[s].state = state
        /\ \A r \in Sessions : r # s => db'.summary[r] = db.summary[r]
        /\ mem' \in [Sessions -> Objects] /\ mem'[s].state = state /\ mem'[s].stop = mem[s].stop
        /\ \A r \in Sessions : r # s => mem'[r] = mem[r]
    BY <1>i, <1>u, <1>t, <1>p, Finished
  <1>k. \A r : Asked(r)' = Asked(r) /\ NumberAsked(r)' = NumberAsked(r)
    BY <1>u DEF Asked, NumberAsked
  <1>T. TypeOK'
    BY <1>i, <1>u, <1>d, <1>t, <1>p, <1>s, <1>k DEF Parts, TypeOK
  <1>S. StoreInv'
    BY <1>s
  <1>F. FramesTrue'
    BY <1>i, <1>u, <1>d, <1>t, <1>p, <1>s, <1>k DEF Parts, FramesTrue, InHand
  <1>L. LinksTrue'
    BY <1>i, <1>u, <1>d, <1>t, <1>p, <1>s, <1>k DEF Parts, LinksTrue
  <1>N. NamesKnown'
    BY <1>i, <1>u, <1>d, <1>s, NamesKept
  <1>W. Waits'
    <2>1. \A r \in Sessions : Periodic(r)' <=> Periodic(r)
      BY <1>u DEF Periodic
    <2>2. QED
      BY <1>i, <1>u, <1>d, <2>1, WaitsKept
  <1>V. ViaTrue'
    BY <1>i, <1>u, <1>d, <1>t, <1>p, <1>s, <1>k DEF Parts, ViaTrue, Periodic
  <1>P. ScheduleTrue'
    BY <1>i, <1>u, <1>d, <1>t, <1>p, <1>s, <1>k DEF Parts, ScheduleTrue, Periodic
  <1>r. ASSUME NEW r \in Sessions
        PROVE  LifeOf(r)' /\ RowOf(r)' /\ OverIsQuiet(r)' /\ NotBefore(r)' /\ CountTrue(r)'
    <2>h. /\ LifeOf(r) /\ RowOf(r) /\ OverIsQuiet(r) /\ NotBefore(r) /\ CountTrue(r)
          /\ NumberAsked(r) \in Nat /\ mem[r].count \in Nat
      BY <1>i, Numbers DEF EachSession
    <2>k. Asked(r)' = Asked(r) /\ NumberAsked(r)' = NumberAsked(r)
      BY <1>k
    <2>A. LifeOf(r)'
      BY <1>i, <2>h, <1>u, <1>d, <1>t, <1>p, <1>s, <2>k DEF LifeOf, Periodic, Active
    <2>R. RowOf(r)'
      BY <1>i, <2>h, <1>u, <1>d, <1>t, <1>p, <1>s, <2>k DEF RowOf, Periodic, Active, Terminal
    <2>O. OverIsQuiet(r)'
      BY <1>i, <2>h, <1>u, <1>d, <1>t, <1>p, <1>s, <2>k, NoFrameIsNone, Constants
         DEF OverIsQuiet, Over, Quiet, Persisting, Periodic
    <2>B. NotBefore(r)'
      BY <1>i, <2>h, <1>u, <1>d, <1>t, <1>p, <1>s, <2>k, Constants DEF NotBefore, Periodic
    <2>C. CountTrue(r)'
      BY <1>i, <2>h, <1>u, <1>d, <1>t, <1>p, <1>s, <2>k, NoFrameIsNone, Constants
         DEF CountTrue, Pending, Persisting, Periodic
    <2>q. QED
      BY <2>A, <2>R, <2>O, <2>B, <2>C
  <1>q. QED
    BY <1>T, <1>S, <1>F, <1>L, <1>N, <1>W, <1>V, <1>P, <1>r DEF SessionInv, ThreadInv, QuietInv

LEMMA WorkerFinish ==
    ASSUME SessionInv, NEW s \in Sessions, WorkerTo(s, "exit"), io' = io, Quiet(s), ~Persisting(s),
           NEW fin \in Terminal, Finish(s, fin), wpc[s] \in {"top", "tail", "error", "aborted"}
    PROVE  SessionInv'
  <1>i. Parts /\ EachSession
    BY PartsOf
  <1>u. /\ taken' = taken /\ sched' = sched /\ fired' = fired /\ spool' = spool /\ boot' = boot
        /\ acc' = acc /\ link' = link /\ stuck' = stuck /\ plan' = plan /\ pc' = pc
        /\ spc' = spc /\ listed' = listed /\ slock' = slock /\ handler' = handler /\ io' = io
        /\ asker' = asker /\ owner' = owner /\ live' = live /\ faults' = faults
    BY DEF WorkerTo, devVars, linkVars, thrVars, histVars
  <1>d. /\ wpc' \in [Sessions -> WorkerPcs] /\ wpc'[s] = "exit"
        /\ (\A r \in Sessions : r # s => wpc'[r] = wpc[r]) /\ wpc[s] \in {"top", "tail", "error", "aborted"}
    BY <1>i DEF WorkerTo, Go, Parts, TypeOK, ThreadPcs, WorkerPcs, StopPcs
  <1>t. PICK state \in Terminal : Finish(s, state) /\ state \notin Active
    BY DEF Terminal, Active
  <1>p. Periodic(s) /\ s \in listed /\ pc[s] = "done" /\ Quiet(s) /\ ~Persisting(s)
    BY <1>i, <1>d DEF EachSession, LifeOf
  <1>s. /\ StoreInv' /\ db' \in Databases /\ db'.policy = db.policy
        /\ db'.summary[s].state = state
        /\ \A r \in Sessions : r # s => db'.summary[r] = db.summary[r]
        /\ mem' \in [Sessions -> Objects] /\ mem'[s].state = state /\ mem'[s].stop = mem[s].stop
        /\ \A r \in Sessions : r # s => mem'[r] = mem[r]
    BY <1>i, <1>u, <1>t, <1>p, Finished
  <1>k. \A r : Asked(r)' = Asked(r) /\ NumberAsked(r)' = NumberAsked(r)
    BY <1>u DEF Asked, NumberAsked
  <1>T. TypeOK'
    BY <1>i, <1>u, <1>d, <1>t, <1>p, <1>s, <1>k DEF Parts, TypeOK
  <1>S. StoreInv'
    BY <1>s
  <1>F. FramesTrue'
    BY <1>i, <1>u, <1>d, <1>t, <1>p, <1>s, <1>k DEF Parts, FramesTrue, InHand
  <1>L. LinksTrue'
    BY <1>i, <1>u, <1>d, <1>t, <1>p, <1>s, <1>k DEF Parts, LinksTrue
  <1>N. NamesKnown'
    BY <1>i, <1>u, <1>d, <1>s, NamesKept
  <1>W. Waits'
    <2>1. \A r \in Sessions : Periodic(r)' <=> Periodic(r)
      BY <1>u DEF Periodic
    <2>2. QED
      BY <1>i, <1>u, <1>d, <2>1, WaitsKept
  <1>V. ViaTrue'
    BY <1>i, <1>u, <1>d, <1>t, <1>p, <1>s, <1>k DEF Parts, ViaTrue, Periodic
  <1>P. ScheduleTrue'
    BY <1>i, <1>u, <1>d, <1>t, <1>p, <1>s, <1>k DEF Parts, ScheduleTrue, Periodic
  <1>r. ASSUME NEW r \in Sessions
        PROVE  LifeOf(r)' /\ RowOf(r)' /\ OverIsQuiet(r)' /\ NotBefore(r)' /\ CountTrue(r)'
    <2>h. /\ LifeOf(r) /\ RowOf(r) /\ OverIsQuiet(r) /\ NotBefore(r) /\ CountTrue(r)
          /\ NumberAsked(r) \in Nat /\ mem[r].count \in Nat
      BY <1>i, Numbers DEF EachSession
    <2>k. Asked(r)' = Asked(r) /\ NumberAsked(r)' = NumberAsked(r)
      BY <1>k
    <2>A. LifeOf(r)'
      BY <1>i, <2>h, <1>u, <1>d, <1>t, <1>p, <1>s, <2>k DEF LifeOf, Periodic, Active
    <2>R. RowOf(r)'
      BY <1>i, <2>h, <1>u, <1>d, <1>t, <1>p, <1>s, <2>k DEF RowOf, Periodic, Active, Terminal
    <2>O. OverIsQuiet(r)'
      BY <1>i, <2>h, <1>u, <1>d, <1>t, <1>p, <1>s, <2>k, NoFrameIsNone, Constants
         DEF OverIsQuiet, Over, Quiet, Persisting, Periodic
    <2>B. NotBefore(r)'
      BY <1>i, <2>h, <1>u, <1>d, <1>t, <1>p, <1>s, <2>k, Constants DEF NotBefore, Periodic
    <2>C. CountTrue(r)'
      BY <1>i, <2>h, <1>u, <1>d, <1>t, <1>p, <1>s, <2>k, NoFrameIsNone, Constants
         DEF CountTrue, Pending, Persisting, Periodic
    <2>q. QED
      BY <2>A, <2>R, <2>O, <2>B, <2>C
  <1>q. QED
    BY <1>T, <1>S, <1>F, <1>L, <1>N, <1>W, <1>V, <1>P, <1>r DEF SessionInv, ThreadInv, QuietInv

LEMMA CoreCrashStep ==
    ASSUME SessionInv, CoreCrash
    PROVE  SessionInv'
  <1>i. Parts /\ EachSession
    BY PartsOf
  <1>u. /\ db' = db /\ taken' = taken /\ sched' = sched /\ fired' = fired /\ spool' = spool
        /\ boot' = boot /\ plan' = plan /\ asker' = asker /\ owner' = owner /\ live' = live
    BY DEF CoreCrash, devVars, linkVars, thrVars, histVars
  <1>c. /\ faults' = faults + 1 /\ listed' = {} /\ slock' = 0 /\ handler' = 0 /\ link' = "down"
        /\ acc' = "idle" /\ stuck' = FALSE
    BY DEF CoreCrash
  <1>o. /\ io' \in Ios /\ io'.op = "QUERY" /\ io'.sess = 0 /\ io'.pc = "free" /\ io'.frame = NoFrame
        /\ io'.via = 0
    BY DEF CoreCrash, NoIo, Ios, Ops, Resolutions
  <1>d. /\ pc' \in [Sessions -> ThreadPcs] /\ wpc' \in [Sessions -> WorkerPcs] /\ spc' \in [Sessions -> StopPcs]
        /\ \A r \in Sessions : /\ wpc'[r] = "none" /\ spc'[r] = "none"
                            /\ pc'[r] = IF db.summary[r].state \in Active THEN "cut"
                                       ELSE IF pc[r] = "new" THEN "new" ELSE "done"
    BY DEF CoreCrash, ThreadPcs, WorkerPcs, StopPcs
  <1>m. mem' \in [Sessions -> Objects] /\ \A r \in Sessions : mem'[r] = NoObject /\ mem'[r].state = "NONE" /\ mem'[r].stop = FALSE
    BY DEF CoreCrash, NoObject, Objects
  <1>k. \A r : Asked(r)' = Asked(r) /\ NumberAsked(r)' = NumberAsked(r)
    BY <1>u DEF Asked, NumberAsked
  <1>T. TypeOK'
    <2>a. faults' \in Nat
      BY <1>i, <1>c DEF Parts, TypeOK
    <2>1. link' \in {"up", "dead", "down"} /\ acc' \in {"idle", "replay", "receipt", "ready"}
          /\ stuck' \in BOOLEAN /\ slock' \in Sessions \cup {0} /\ handler' \in Sessions \cup {0}
      BY <1>c
    <2>2. listed' \subseteq Sessions
      BY <1>c
    <2>3. QED
      BY <1>i, <1>u, <1>o, <1>d, <1>m, <2>a, <2>1, <2>2 DEF Parts, TypeOK
  <1>S. StoreInv'
    BY <1>i, <1>u, <1>c, <1>o, <1>d, <1>m, <1>k DEF Parts, StoreInv, Saves, OwnerIsAsker
  <1>F. FramesTrue'
    BY <1>i, <1>u, <1>c, <1>o, <1>d, <1>m, <1>k DEF Parts, FramesTrue, InHand
  <1>L. LinksTrue'
    BY <1>i, <1>u, <1>c, <1>o, <1>d, <1>m, <1>k DEF Parts, LinksTrue
  <1>N. NamesKnown'
    BY <1>i, <1>u, <1>c, <1>d, NamesKept
  <1>W. Waits'
    BY <1>d, <1>o DEF Waits
  <1>V. ViaTrue'
    BY <1>c, <1>o DEF ViaTrue
  <1>P. ScheduleTrue'
    BY <1>i, <1>u, <1>c, <1>o, <1>d, <1>m, <1>k DEF Parts, ScheduleTrue, Periodic
  <1>r. ASSUME NEW r \in Sessions
        PROVE  LifeOf(r)' /\ RowOf(r)' /\ OverIsQuiet(r)' /\ NotBefore(r)' /\ CountTrue(r)'
    <2>h. /\ LifeOf(r) /\ RowOf(r) /\ OverIsQuiet(r) /\ NotBefore(r) /\ CountTrue(r)
          /\ NumberAsked(r) \in Nat /\ mem[r].count \in Nat
      BY <1>i, Numbers DEF EachSession
    <2>k. Asked(r)' = Asked(r) /\ NumberAsked(r)' = NumberAsked(r)
      BY <1>k
    <2>A. LifeOf(r)'
      BY <1>i, <2>h, <1>u, <1>c, <1>o, <1>d, <1>m, <2>k DEF LifeOf, Periodic, Active
    <2>R. RowOf(r)'
      BY <1>i, <2>h, <1>u, <1>c, <1>o, <1>d, <1>m, <2>k DEF RowOf, Periodic, Active, Terminal
    <2>O. OverIsQuiet(r)'
      BY <1>i, <2>h, <1>u, <1>c, <1>o, <1>d, <1>m, <2>k, NoFrameIsNone, Constants
         DEF OverIsQuiet, Over, Quiet, Persisting, Periodic
    <2>B. NotBefore(r)'
      BY <1>i, <2>h, <1>u, <1>c, <1>o, <1>d, <1>m, <2>k, Constants DEF NotBefore, Periodic
    <2>C. CountTrue(r)'
      BY <1>i, <2>h, <1>u, <1>c, <1>o, <1>d, <1>m, <2>k, NoFrameIsNone, Constants
         DEF CountTrue, Pending, Persisting, Periodic, Active
    <2>q. QED
      BY <2>A, <2>R, <2>O, <2>B, <2>C
  <1>q. QED
    BY <1>T, <1>S, <1>F, <1>L, <1>N, <1>W, <1>V, <1>P, <1>r DEF SessionInv, ThreadInv, QuietInv

LEMMA WorkerGoes ==
    ASSUME SessionInv, NEW s \in Sessions, NEW where, WorkerTo(s, where), db' = db, mem' = mem, io' = io,
           \/ wpc[s] = "top" /\ where \in {"renew", "poll"}
           \/ wpc[s] = "tail" /\ where = "top"
           \/ wpc[s] = "top" /\ where = "exit" /\ (mem[s].stop \/ mem[s].state # "RUNNING")
           \/ wpc[s] = "error" /\ where = "abort"
    PROVE  SessionInv'
  <1>i. Parts /\ EachSession
    BY PartsOf
  <1>u. /\ db' = db /\ taken' = taken /\ sched' = sched /\ fired' = fired /\ spool' = spool
        /\ boot' = boot /\ acc' = acc /\ link' = link /\ stuck' = stuck /\ plan' = plan
        /\ pc' = pc /\ spc' = spc /\ mem' = mem /\ listed' = listed /\ slock' = slock
        /\ handler' = handler /\ io' = io /\ asker' = asker /\ owner' = owner /\ live' = live
        /\ faults' = faults
    BY DEF WorkerTo, devVars, linkVars, thrVars, histVars
  <1>d. /\ wpc' \in [Sessions -> WorkerPcs] /\ wpc'[s] = where
        /\ (\A r \in Sessions : r # s => wpc'[r] = wpc[r])
    BY <1>i DEF WorkerTo, Go, Parts, TypeOK, ThreadPcs, WorkerPcs, StopPcs
  <1>k. \A r : Asked(r)' = Asked(r) /\ NumberAsked(r)' = NumberAsked(r)
    BY <1>u DEF Asked, NumberAsked
  <1>T. TypeOK'
    BY <1>i, <1>u, <1>d, <1>k DEF Parts, TypeOK
  <1>S. StoreInv'
    BY <1>i, <1>u, <1>d, <1>k DEF Parts, StoreInv, Saves, OwnerIsAsker
  <1>F. FramesTrue'
    BY <1>i, <1>u, <1>d, <1>k DEF Parts, FramesTrue, InHand
  <1>L. LinksTrue'
    BY <1>i, <1>u, <1>d, <1>k DEF Parts, LinksTrue
  <1>N. NamesKnown'
    BY <1>i, <1>u, <1>d, <1>k DEF Parts, NamesKnown, Known
  <1>W. Waits'
    <2>1. \A r \in Sessions : Periodic(r)' <=> Periodic(r)
      BY <1>u DEF Periodic
    <2>2. QED
      BY <1>i, <1>u, <1>d, <2>1, WaitsKept
  <1>V. ViaTrue'
    BY <1>i, <1>u, <1>d, <1>k DEF Parts, ViaTrue, Periodic
  <1>P. ScheduleTrue'
    BY <1>i, <1>u, <1>d, <1>k DEF Parts, ScheduleTrue, Periodic
  <1>r. ASSUME NEW r \in Sessions
        PROVE  LifeOf(r)' /\ RowOf(r)' /\ OverIsQuiet(r)' /\ NotBefore(r)' /\ CountTrue(r)'
    <2>h. /\ LifeOf(r) /\ RowOf(r) /\ OverIsQuiet(r) /\ NotBefore(r) /\ CountTrue(r)
          /\ NumberAsked(r) \in Nat /\ mem[r].count \in Nat
      BY <1>i, Numbers DEF EachSession
    <2>k. Asked(r)' = Asked(r) /\ NumberAsked(r)' = NumberAsked(r)
      BY <1>k
    <2>A. LifeOf(r)'
      <3>1. CASE r # s
        BY <2>h, <1>u, <1>d, <3>1 DEF LifeOf, Periodic
      <3>2. CASE r = s
        <4>1. /\ wpc[s] \notin {"none", "exit", "done"} /\ where # "none" /\ where # "done"
              /\ where = "exit" => mem[s].stop \/ mem[s].state # "RUNNING"
          OBVIOUS
        <4>2. /\ s \in listed /\ (mem[s].stop \/ mem[s].state = "STOPPING" => spc[s] # "none")
              /\ (spc[s] \in {"clear", "done"} => mem[s].state \notin Active) /\ spc[s] \in StopPcs
          BY <1>i, <2>h, <3>2, <4>1 DEF LifeOf, Parts, TypeOK
        <4>3. where = "exit" /\ mem[s].state \in Active => spc[s] \in {"io", "wait", "ok", "failed"}
          BY <4>1, <4>2 DEF Active, StopPcs
        <4>4. QED
          BY <2>h, <1>u, <1>d, <3>2, <4>1, <4>2, <4>3 DEF LifeOf, Periodic
      <3>3. QED
        BY <3>1, <3>2
    <2>R. RowOf(r)'
      BY <1>i, <2>h, <1>u, <1>d, <2>k DEF RowOf, Periodic, Active, Terminal
    <2>O. OverIsQuiet(r)'
      BY <1>i, <2>h, <1>u, <1>d, <2>k, NoFrameIsNone, Constants
         DEF OverIsQuiet, Over, Quiet, Persisting, Periodic
    <2>B. NotBefore(r)'
      BY <1>i, <2>h, <1>u, <1>d, <2>k, Constants DEF NotBefore, Periodic
    <2>C. CountTrue(r)'
      BY <1>i, <2>h, <1>u, <1>d, <2>k, NoFrameIsNone, Constants
         DEF CountTrue, Pending, Persisting, Periodic
    <2>q. QED
      BY <2>A, <2>R, <2>O, <2>B, <2>C
  <1>q. QED
    BY <1>T, <1>S, <1>F, <1>L, <1>N, <1>W, <1>V, <1>P, <1>r DEF SessionInv, ThreadInv, QuietInv

\* A session that has all its captures is quiet.
LEMMA ReachedIsQuiet ==
    ASSUME Parts, EachSession, NEW s \in Sessions, s \in listed, Reached(s)
    PROVE  Quiet(s) /\ ~Persisting(s)
  <1>1. Periodic(s) /\ OverIsQuiet(s) /\ CountTrue(s) /\ NumberAsked(s) \in Nat /\ mem[s].count \in Nat
        /\ plan[s].limit \in Nat
    BY Numbers DEF EachSession, LifeOf, Parts, TypeOK, Plans
  <1>2. CASE mem[s].state \notin Active
    BY <1>1, <1>2 DEF OverIsQuiet, Over
  <1>3. CASE mem[s].state \in Active
    <2>1. NumberAsked(s) <= plan[s].limit
      BY <1>1 DEF Parts, ScheduleTrue, Reached
    <2>2. ~Pending(s) /\ NumberAsked(s) = plan[s].limit
      BY <1>1, <1>3, <2>1 DEF CountTrue, Reached
    <2>3. sched # s
      BY <1>1, <2>2, Constants DEF Parts, ScheduleTrue, Reached
    <2>4. QED
      BY <2>2, <2>3 DEF Pending, Quiet, Persisting
  <1>4. QED
    BY <1>2, <1>3

LEMMA WorkerTopStep ==
    ASSUME SessionInv, NEW s \in Sessions, WorkerTop(s)
    PROVE  SessionInv'
  <1>1. Parts /\ EachSession
    BY PartsOf
  <1>2. wpc[s] = "top" /\ s \in listed /\ io' = io
    BY <1>1 DEF WorkerTop, EachSession, LifeOf
  <1>3. CASE mem[s].stop \/ mem[s].state # "RUNNING"
    <2>1. WorkerTo(s, "exit") /\ db' = db /\ mem' = mem
      BY <1>3 DEF WorkerTop
    <2>2. QED
      BY <1>2, <1>3, <2>1, WorkerGoes
  <1>4. CASE ~(mem[s].stop \/ mem[s].state # "RUNNING") /\ Reached(s)
    <2>1. Finish(s, "COMPLETED") /\ WorkerTo(s, "exit") /\ "COMPLETED" \in Terminal
      BY <1>4 DEF WorkerTop, Terminal
    <2>2. Quiet(s) /\ ~Persisting(s)
      BY <1>1, <1>2, <1>4, ReachedIsQuiet
    <2>3. QED
      BY <1>2, <2>1, <2>2, WorkerFinish
  <1>5. CASE ~(mem[s].stop \/ mem[s].state # "RUNNING") /\ ~Reached(s)
    <2>1. PICK where \in {"renew", "poll"} : WorkerTo(s, where) /\ db' = db /\ mem' = mem
      BY <1>5 DEF WorkerTop
    <2>2. wpc[s] = "top" /\ where \in {"renew", "poll"}
      BY <1>2, <2>1
    <2>3. QED
      BY <1>2, <2>1, <2>2, WorkerGoes
  <1>6. QED
    BY <1>3, <1>4, <1>5

LEMMA WorkerTailStep ==
    ASSUME SessionInv, NEW s \in Sessions, WorkerTail(s)
    PROVE  SessionInv'
  <1>1. Parts /\ EachSession
    BY PartsOf
  <1>2. wpc[s] = "tail" /\ s \in listed /\ io' = io
    BY <1>1 DEF WorkerTail, EachSession, LifeOf
  <1>3. CASE Reached(s)
    <2>1. Finish(s, "COMPLETED") /\ WorkerTo(s, "exit") /\ "COMPLETED" \in Terminal
      BY <1>3 DEF WorkerTail, Terminal
    <2>2. Quiet(s) /\ ~Persisting(s)
      BY <1>1, <1>2, <1>3, ReachedIsQuiet
    <2>3. QED
      BY <1>2, <2>1, <2>2, WorkerFinish
  <1>4. CASE ~Reached(s)
    <2>1. WorkerTo(s, "top") /\ db' = db /\ mem' = mem
      BY <1>4 DEF WorkerTail
    <2>2. QED
      BY <1>2, <2>1, WorkerGoes
  <1>5. QED
    BY <1>3, <1>4

LEMMA WorkerErrorStep ==
    ASSUME SessionInv, NEW s \in Sessions, WorkerError(s)
    PROVE  SessionInv'
  <1>1. Parts /\ EachSession
    BY PartsOf
  <1>2. wpc[s] = "error" /\ s \in listed /\ io' = io /\ Quiet(s) /\ ~Persisting(s)
    BY <1>1 DEF WorkerError, EachSession, LifeOf, OverIsQuiet, Over
  <1>3. CASE mem[s].stop \/ Reached(s)
    <2>1. PICK state \in Terminal : Finish(s, state) /\ WorkerTo(s, "exit")
      BY <1>3 DEF WorkerError, Terminal
    <2>2. QED
      BY <1>2, <2>1, WorkerFinish
  <1>4. CASE ~(mem[s].stop \/ Reached(s))
    <2>1. WorkerTo(s, "abort") /\ db' = db /\ mem' = mem
      BY <1>4 DEF WorkerError
    <2>2. QED
      BY <1>2, <2>1, WorkerGoes
  <1>5. QED
    BY <1>3, <1>4

LEMMA WorkerAbortedStep ==
    ASSUME SessionInv, NEW s \in Sessions, WorkerAborted(s)
    PROVE  SessionInv'
  <1>1. Parts /\ EachSession
    BY PartsOf
  <1>2. wpc[s] = "aborted" /\ s \in listed /\ io' = io /\ Quiet(s) /\ ~Persisting(s)
    BY <1>1 DEF WorkerAborted, EachSession, LifeOf, OverIsQuiet, Over
  <1>3. Finish(s, "FAILED") /\ WorkerTo(s, "exit") /\ "FAILED" \in Terminal
    BY DEF WorkerAborted, Terminal
  <1>4. QED
    BY <1>2, <1>3, WorkerFinish

\* Where operation io leaves the threads.
AfterEffect(ok) ==
    /\ plan' = plan /\ pc' \in [Sessions -> ThreadPcs] /\ wpc' \in [Sessions -> WorkerPcs]
    /\ spc' \in [Sessions -> StopPcs]
    /\ io' \in Ios /\ io'.op = "QUERY" /\ io'.sess = 0 /\ io'.pc = "free" /\ io'.frame = NoFrame
    /\ io'.via = 0

AfterThread(ok, r) ==
    \/ pc'[r] = pc[r] /\ pc[r] # "wait"
    \/ /\ pc[r] = "wait" /\ io.sess = r
       /\ \/ io.op = "START" /\ Periodic(r) /\ ok /\ pc'[r] = "started"
          \/ io.op = "START" /\ Periodic(r) /\ ~ok /\ pc'[r] = "cleanup"
          \/ io.op = "ONCE" /\ ~Periodic(r) /\ pc'[r] \in {"captured", "failed"}

AfterWorker(ok, r) ==
    \/ wpc'[r] = wpc[r] /\ ~(io.op = "ABORT" /\ io.sess = r)
    \/ /\ wpc[r] = "wait" /\ io.sess = r
       /\ \/ io.op \in {"RENEW", "POLL"} /\ ~ok /\ wpc'[r] = "error"
          \/ io.op = "ABORT" /\ wpc'[r] = "aborted"
          \/ io.op = "RENEW" /\ ok /\ mem[r].stop /\ wpc'[r] = "exit"
          \/ io.op \in {"RENEW", "POLL"} /\ ok /\ wpc'[r] \in {"poll", "tail"}

AfterStop(ok, r) ==
    \/ spc'[r] = spc[r]
    \/ io.op = "STOP" /\ io.sess = r /\ spc[r] = "wait" /\ spc'[r] \in {"ok", "failed"}

LEMMA AfterIs ==
    ASSUME Parts, NEW ok \in BOOLEAN, After(ok)
    PROVE  /\ AfterEffect(ok)
           /\ \A r \in Sessions : AfterThread(ok, r) /\ AfterWorker(ok, r) /\ AfterStop(ok, r)
  <1>1. /\ Waits /\ io.sess \in Sessions \cup {0} /\ io.op \in Ops
        /\ pc \in [Sessions -> ThreadPcs] /\ wpc \in [Sessions -> WorkerPcs]
        /\ spc \in [Sessions -> StopPcs]
    BY DEF Parts, TypeOK, Ios
  <1>2. /\ io' \in Ios /\ io'.op = "QUERY" /\ io'.sess = 0 /\ io'.pc = "free"
        /\ io'.frame = NoFrame /\ io'.via = 0
    BY DEF After, NoIo, Ios, Ops, Resolutions
  <1>3. PICK p \in Sessions \cup {0} : p = io.sess
    BY <1>1
  <1>4. /\ io.op \in {"START", "ONCE"} => p \in Sessions /\ pc[p] = "wait" /\ (io.op = "START" <=> Periodic(p))
        /\ io.op \in {"RENEW", "POLL", "ABORT"} => p \in Sessions /\ wpc[p] = "wait"
        /\ io.op = "STOP" => p \in Sessions /\ spc[p] = "wait"
        /\ \A s \in Sessions : pc[s] = "wait" => io.op \in {"START", "ONCE"} /\ p = s
    BY <1>1, <1>3 DEF Waits
  <1>5. pc' \in [Sessions -> ThreadPcs] /\ \A r \in Sessions : AfterThread(ok, r)
    <2>1. CASE io.op = "START"
      <3>1. pc' = [pc EXCEPT ![p] = IF ok THEN "started" ELSE "cleanup"]
        BY <1>3, <2>1 DEF After, Go
      <3>2. QED
        BY <1>1, <1>3, <1>4, <2>1, <3>1 DEF AfterThread, ThreadPcs
    <2>2. CASE io.op = "ONCE"
      <3>1. pc' = [pc EXCEPT ![p] = IF ok THEN "captured" ELSE "failed"]
        BY <1>3, <2>2 DEF After, Go
      <3>2. QED
        BY <1>1, <1>3, <1>4, <2>2, <3>1 DEF AfterThread, ThreadPcs
    <2>3. CASE io.op \notin {"START", "ONCE"}
      <3>1. pc' = pc
        BY <2>3 DEF After
      <3>2. QED
        BY <1>1, <1>4, <2>3, <3>1 DEF AfterThread
    <2>4. QED
      BY <2>1, <2>2, <2>3
  <1>6. wpc' \in [Sessions -> WorkerPcs] /\ \A r \in Sessions : AfterWorker(ok, r)
    <2>1. CASE io.op \in {"RENEW", "POLL", "ABORT"}
      <3>1. PICK x \in WorkerPcs :
              /\ wpc' = [wpc EXCEPT ![p] = x]
              /\ \/ io.op \in {"RENEW", "POLL"} /\ ~ok /\ x = "error"
                 \/ io.op = "ABORT" /\ x = "aborted"
                 \/ io.op = "RENEW" /\ ok /\ mem[p].stop /\ x = "exit"
                 \/ io.op \in {"RENEW", "POLL"} /\ ok /\ x \in {"poll", "tail"}
        <4>1. CASE io.op = "RENEW"
          <5>1. CASE ~ok
            BY <1>3, <4>1, <5>1 DEF After, Go, WorkerPcs
          <5>2. CASE ok /\ mem[p].stop
            BY <1>3, <4>1, <5>2 DEF After, Go, WorkerPcs
          <5>3. CASE ok /\ ~mem[p].stop
            BY <1>3, <4>1, <5>3 DEF After, Go, WorkerPcs
          <5>4. QED
            BY <5>1, <5>2, <5>3
        <4>2. CASE io.op = "POLL"
          BY <1>3, <4>2 DEF After, Go, WorkerPcs
        <4>3. CASE io.op = "ABORT"
          BY <1>3, <4>3 DEF After, Go, WorkerPcs
        <4>4. QED
          BY <2>1, <4>1, <4>2, <4>3
      <3>2. ASSUME NEW r \in Sessions PROVE AfterWorker(ok, r)
        BY <1>1, <1>3, <1>4, <2>1, <3>1 DEF AfterWorker
      <3>3. QED
        BY <1>1, <3>1, <3>2
    <2>2. CASE io.op \notin {"RENEW", "POLL", "ABORT"}
      <3>1. wpc' = wpc
        BY <2>2 DEF After
      <3>2. QED
        BY <1>1, <2>2, <3>1 DEF AfterWorker
    <2>3. QED
      BY <2>1, <2>2
  <1>7. spc' \in [Sessions -> StopPcs] /\ \A r \in Sessions : AfterStop(ok, r)
    <2>1. CASE io.op = "STOP"
      <3>1. spc' = [spc EXCEPT ![p] = IF ok THEN "ok" ELSE "failed"]
        BY <1>3, <2>1 DEF After, Go
      <3>2. QED
        BY <1>1, <1>3, <1>4, <2>1, <3>1 DEF AfterStop, StopPcs
    <2>2. CASE io.op # "STOP"
      <3>1. spc' = spc
        BY <2>2 DEF After
      <3>2. QED
        BY <1>1, <3>1 DEF AfterStop
    <2>3. QED
      BY <2>1, <2>2
  <1>8. plan' = plan
    BY DEF After
  <1>9. QED
    BY <1>2, <1>5, <1>6, <1>7, <1>8 DEF AfterEffect

\* The end of an operation concerns only the thread that waits for it.
LEMMA AfterKeeps ==
    ASSUME Parts, EachSession, NEW ok \in BOOLEAN, After(ok),
           db' = db, mem' = mem, listed' = listed, asker' = asker, owner' = owner, live' = live,
           taken' = taken, handler' \in {0, handler}, sched' \in {0, sched}, spool' \in {spool, NoFrame},
           \A r \in Sessions : Pending(r)' => Pending(r)
    PROVE  /\ StoreInv' /\ FramesTrue' /\ NamesKnown' /\ Waits' /\ ViaTrue'
           /\ \A r \in Sessions : LifeOf(r)' /\ RowOf(r)' /\ NotBefore(r)' /\ CountTrue(r)'
  <1>1. /\ AfterEffect(ok)
        /\ \A r \in Sessions : AfterThread(ok, r) /\ AfterWorker(ok, r) /\ AfterStop(ok, r)
    BY AfterIs
  <1>2. /\ plan' = plan /\ io'.op = "QUERY" /\ io'.sess = 0 /\ io'.pc = "free" /\ io'.frame = NoFrame
        /\ io'.via = 0
    BY <1>1 DEF AfterEffect
  <1>3. \A r \in Sessions : Periodic(r)' <=> Periodic(r)
    BY <1>2 DEF Periodic
  <1>4. \A r : Asked(r)' = Asked(r) /\ NumberAsked(r)' = NumberAsked(r)
    BY DEF Asked, NumberAsked
  <1>5. StoreInv'
    BY <1>2 DEF Parts, StoreInv, Saves, OwnerIsAsker
  <1>6. FramesTrue'
    BY <1>2 DEF Parts, FramesTrue, InHand
  <1>7. NamesKnown'
    <2>1. \A r \in Sessions : pc[r] # "new" => pc'[r] # "new"
      BY <1>1 DEF AfterThread
    <2>2. QED
      BY <2>1, NamesKept
  <1>8. Waits'
    <2>1. \A r \in Sessions : pc'[r] # "wait"
      BY <1>1 DEF AfterThread
    <2>2. QED
      BY <1>2, <2>1 DEF Waits
  <1>9. ViaTrue'
    <2>1. handler \in Sessions \cup {0} /\ (handler # 0 => Periodic(handler) /\ pc[handler] \notin {"checked", "cut"})
      BY DEF Parts, TypeOK, ViaTrue
    <2>2. PICK h \in Sessions \cup {0} : h = handler
      BY <2>1
    <2>3. h # 0 => Periodic(h)' /\ pc'[h] \notin {"checked", "cut"}
      BY <1>1, <1>3, <2>1, <2>2 DEF AfterThread
    <2>4. QED
      BY <1>2, <2>2, <2>3 DEF ViaTrue, Periodic
  <1>10. ASSUME NEW r \in Sessions
         PROVE  LifeOf(r)' /\ RowOf(r)' /\ NotBefore(r)' /\ CountTrue(r)'
    <2>1. /\ LifeOf(r) /\ RowOf(r) /\ NotBefore(r) /\ CountTrue(r) /\ (Periodic(r)' <=> Periodic(r))
          /\ AfterThread(ok, r) /\ AfterWorker(ok, r) /\ AfterStop(ok, r)
          /\ NumberAsked(r)' = NumberAsked(r) /\ Asked(r)' = Asked(r)
          /\ NumberAsked(r) \in Nat /\ mem[r].count \in Nat
      BY <1>1, <1>3, <1>4, Numbers DEF EachSession
    <2>3. pc[r] = "wait" => mem[r].state \in Active
      BY <2>1 DEF LifeOf
    <2>4. LifeOf(r)'
      <3>1. /\ pc'[r] \in {"started", "cleanup"} => Periodic(r)
            /\ pc'[r] \in {"registered", "saved", "captured", "failed"} => ~Periodic(r)
            /\ r \in listed => Periodic(r) /\ pc'[r] = "done"
            /\ mem[r].state \in Active <=>
                 \/ pc'[r] \in {"registered", "saved", "io", "wait", "captured", "failed", "cleanup", "started"}
                 \/ r \in listed /\ mem[r].state \in Active
        BY <2>1, <2>3 DEF LifeOf, AfterThread
      <3>2. r \in listed <=> wpc'[r] # "none"
        BY <2>1 DEF LifeOf, AfterWorker
      <3>3. /\ spc'[r] # "none" <=> spc[r] # "none"
            /\ spc'[r] \in {"clear", "done"} => spc[r] \in {"clear", "done"}
            /\ spc[r] \in {"io", "wait", "ok", "failed"} => spc'[r] \in {"io", "wait", "ok", "failed"}
        BY <2>1 DEF AfterStop
      <3>4. spc[r] \in StopPcs
        BY DEF Parts, TypeOK
      <3>5. wpc'[r] \in {"exit", "done"} => wpc[r] \in {"exit", "done"} \/ mem[r].stop
        BY <2>1 DEF AfterWorker
      <3>6. mem[r].stop /\ mem[r].state \in Active => spc'[r] \in {"io", "wait", "ok", "failed"}
        BY <2>1, <3>3, <3>4 DEF LifeOf, StopPcs
      <3>7. r \in listed /\ mem[r].state \in Active =>
              wpc'[r] \notin {"exit", "done"} \/ spc'[r] \in {"io", "wait", "ok", "failed"}
        BY <2>1, <3>3, <3>5, <3>6 DEF LifeOf
      <3>8. QED
        BY <2>1, <3>1, <3>2, <3>3, <3>7 DEF LifeOf
    <2>5. RowOf(r)'
      BY <2>1, <2>3 DEF RowOf, AfterThread, LifeOf
    <2>6. NotBefore(r)'
      BY <2>1, Constants DEF NotBefore, AfterThread
    <2>7. CountTrue(r)'
      BY <2>1 DEF CountTrue
    <2>8. QED
      BY <2>4, <2>5, <2>6, <2>7
  <1>11. QED
    BY <1>5, <1>6, <1>7, <1>8, <1>9, <1>10

\* Whose end it may begin.
LEMMA AfterOver ==
    ASSUME Parts, EachSession, NEW ok \in BOOLEAN, After(ok), mem' = mem,
           NEW r \in Sessions, Over(r)'
    PROVE  \/ Over(r)
           \/ /\ io.sess = r
              /\ \/ io.op = "START" /\ pc[r] = "wait" /\ Periodic(r) /\ ~ok
                 \/ io.op \in {"RENEW", "POLL"} /\ ~ok
                 \/ io.op = "STOP"
  <1>1. AfterEffect(ok) /\ AfterThread(ok, r) /\ AfterWorker(ok, r) /\ AfterStop(ok, r)
    BY AfterIs
  <1>2. io'.op = "QUERY"
    BY <1>1 DEF AfterEffect
  <1>3. CASE mem[r].state \notin Active
    BY <1>3 DEF Over
  <1>4. CASE pc'[r] = "cleanup"
    BY <1>1, <1>4 DEF AfterThread, Over
  <1>5. CASE wpc'[r] \in {"error", "abort", "aborted"}
    BY <1>1, <1>5 DEF AfterWorker, Over
  <1>6. CASE spc'[r] \in {"ok", "failed", "clear", "done"}
    BY <1>1, <1>6 DEF AfterStop, Over
  <1>7. mem'[r].state \notin Active <=> mem[r].state \notin Active
    OBVIOUS
  <1>8. QED
    BY <1>2, <1>3, <1>4, <1>5, <1>6, <1>7 DEF Over

LEMMA IoFailsStep ==
    ASSUME SessionInv, IoFails
    PROVE  SessionInv'
  <1>i. Parts /\ EachSession
    BY PartsOf
  <1>u. /\ db' = db /\ taken' = taken /\ sched' = sched /\ fired' = fired /\ spool' = spool
        /\ asker' = asker /\ boot' = boot /\ acc' = acc /\ mem' = mem /\ listed' = listed
        /\ slock' = slock /\ owner' = owner /\ live' = live
    BY DEF IoFails, devVars, linkVars, thrVars, histVars
  <1>a. PICK ok \in BOOLEAN : After(ok)
    BY DEF IoFails
  <1>f. /\ io.pc # "free"
        /\ \/ /\ link' = "down" /\ handler' = 0 /\ stuck' = FALSE
              /\ faults' \in Nat
           \/ /\ io.boot # boot \/ link = "down"
              /\ link' = link /\ handler' = handler /\ stuck' = stuck /\ faults' = faults
    BY <1>i DEF IoFails, Parts, TypeOK
  <1>g. link' # "up" \/ (sched = 0 /\ spool = NoFrame)
    BY <1>i, <1>f DEF Parts, LinksTrue
  <1>h. handler' \in {0, handler}
    BY <1>f
  <1>e. /\ AfterEffect(ok) /\ plan' = plan /\ io' \in Ios /\ io'.pc = "free" /\ io'.via = 0
        /\ pc' \in [Sessions -> ThreadPcs] /\ wpc' \in [Sessions -> WorkerPcs] /\ spc' \in [Sessions -> StopPcs]
    BY <1>i, <1>a, AfterIs DEF AfterEffect
  <1>p. \A r \in Sessions : Pending(r)' => Pending(r)
    BY <1>u, <1>e, <1>g, NoFrameIsNone, Constants DEF Pending, Persisting
  <1>k. /\ StoreInv' /\ FramesTrue' /\ NamesKnown' /\ Waits' /\ ViaTrue'
        /\ \A r \in Sessions : LifeOf(r)' /\ RowOf(r)' /\ NotBefore(r)' /\ CountTrue(r)'
    BY <1>i, <1>u, <1>a, <1>p, <1>f, <1>g, <1>h, AfterKeeps
  <1>T. TypeOK'
    <2>1. link' \in {"up", "dead", "down"} /\ handler' \in Sessions \cup {0} /\ faults' \in Nat
      BY <1>i, <1>f DEF Parts, TypeOK
    <2>2. stuck' \in BOOLEAN
      BY <1>i, <1>f DEF Parts, TypeOK
    <2>3. QED
      BY <1>i, <1>u, <1>e, <2>1, <2>2 DEF Parts, TypeOK
  <1>L. LinksTrue'
    BY <1>i, <1>u, <1>e, <1>f DEF Parts, LinksTrue
  <1>P. ScheduleTrue'
    <2>1. \A r \in Sessions : (Periodic(r)' <=> Periodic(r)) /\ plan'[r].limit = plan[r].limit
      BY <1>e DEF Periodic
    <2>2. QED
      BY <1>i, <1>u, <2>1, ScheduleKept
  <1>O. ASSUME NEW r \in Sessions PROVE OverIsQuiet(r)'
    BY <1>u, <1>e, <1>g, NoFrameIsNone, Constants DEF OverIsQuiet, Quiet, Persisting
  <1>q. QED
    BY <1>T, <1>L, <1>P, <1>k, <1>O DEF SessionInv, ThreadInv, QuietInv

LEMMA BlockedIoStep ==
    ASSUME SessionInv, BlockedIo
    PROVE  SessionInv'
  <1>i. Parts /\ EachSession
    BY PartsOf
  <1>u. /\ db' = db /\ taken' = taken /\ sched' = sched /\ fired' = fired /\ spool' = spool
        /\ asker' = asker /\ boot' = boot /\ acc' = acc /\ link' = link /\ stuck' = stuck
        /\ mem' = mem /\ listed' = listed /\ slock' = slock /\ handler' = handler /\ owner' = owner
        /\ live' = live /\ faults' = faults
    BY DEF BlockedIo, devVars, linkVars, thrVars, histVars
  <1>a. PICK ok \in BOOLEAN : After(ok)
    BY DEF BlockedIo
  <1>f. stuck /\ io.pc = "sent" /\ io.via = 0
    BY <1>i DEF BlockedIo, Blocked, Parts, FramesTrue, InHand
  <1>e. /\ AfterEffect(ok) /\ plan' = plan /\ io' \in Ios /\ io'.pc = "free" /\ io'.via = 0
        /\ pc' \in [Sessions -> ThreadPcs] /\ wpc' \in [Sessions -> WorkerPcs] /\ spc' \in [Sessions -> StopPcs]
    BY <1>i, <1>a, AfterIs DEF AfterEffect
  <1>p. \A r \in Sessions : Pending(r)' => Pending(r)
    BY <1>u, <1>e, <1>f, Constants DEF Pending, Persisting
  <1>k. /\ StoreInv' /\ FramesTrue' /\ NamesKnown' /\ Waits' /\ ViaTrue'
        /\ \A r \in Sessions : LifeOf(r)' /\ RowOf(r)' /\ NotBefore(r)' /\ CountTrue(r)'
    BY <1>i, <1>u, <1>a, <1>p, <1>f, AfterKeeps
  <1>T. TypeOK'
    BY <1>i, <1>u, <1>e DEF Parts, TypeOK
  <1>L. LinksTrue'
    BY <1>i, <1>u, <1>e DEF Parts, LinksTrue
  <1>P. ScheduleTrue'
    <2>1. \A r \in Sessions : (Periodic(r)' <=> Periodic(r)) /\ plan'[r].limit = plan[r].limit
      BY <1>e DEF Periodic
    <2>2. QED
      BY <1>i, <1>u, <2>1, ScheduleKept
  <1>O. ASSUME NEW r \in Sessions PROVE OverIsQuiet(r)'
    BY <1>u, <1>e, <1>f, Constants DEF OverIsQuiet, Quiet, Persisting
  <1>q. QED
    BY <1>T, <1>L, <1>P, <1>k, <1>O DEF SessionInv, ThreadInv, QuietInv

LEMMA DeclinedStep ==
    ASSUME SessionInv, Declined
    PROVE  SessionInv'
  <1>i. Parts /\ EachSession
    BY PartsOf
  <1>u. /\ db' = db /\ taken' = taken /\ sched' = sched /\ fired' = fired /\ spool' = spool
        /\ asker' = asker /\ boot' = boot /\ acc' = acc /\ link' = link /\ mem' = mem
        /\ listed' = listed /\ slock' = slock /\ handler' = handler /\ owner' = owner /\ live' = live
        /\ faults' = faults
    BY DEF Declined, devVars, linkVars, thrVars, histVars
  <1>a. PICK ok \in BOOLEAN : After(ok)
    BY DEF Declined
  <1>f. stuck' = TRUE /\ io.pc = "sent" /\ io.via = 0
    BY <1>i DEF Declined, Parts, FramesTrue, InHand
  <1>e. /\ AfterEffect(ok) /\ plan' = plan /\ io' \in Ios /\ io'.pc = "free" /\ io'.via = 0
        /\ pc' \in [Sessions -> ThreadPcs] /\ wpc' \in [Sessions -> WorkerPcs] /\ spc' \in [Sessions -> StopPcs]
    BY <1>i, <1>a, AfterIs DEF AfterEffect
  <1>p. \A r \in Sessions : Pending(r)' => Pending(r)
    BY <1>u, <1>e, <1>f, Constants DEF Pending, Persisting
  <1>k. /\ StoreInv' /\ FramesTrue' /\ NamesKnown' /\ Waits' /\ ViaTrue'
        /\ \A r \in Sessions : LifeOf(r)' /\ RowOf(r)' /\ NotBefore(r)' /\ CountTrue(r)'
    BY <1>i, <1>u, <1>a, <1>p, <1>f, AfterKeeps
  <1>T. TypeOK'
    <2>1. stuck' \in BOOLEAN
      BY <1>f
    <2>2. QED
      BY <1>i, <1>u, <1>e, <2>1 DEF Parts, TypeOK
  <1>L. LinksTrue'
    BY <1>i, <1>u, <1>e DEF Parts, LinksTrue
  <1>P. ScheduleTrue'
    <2>1. \A r \in Sessions : (Periodic(r)' <=> Periodic(r)) /\ plan'[r].limit = plan[r].limit
      BY <1>e DEF Periodic
    <2>2. QED
      BY <1>i, <1>u, <2>1, ScheduleKept
  <1>O. ASSUME NEW r \in Sessions PROVE OverIsQuiet(r)'
    BY <1>u, <1>e, <1>f, Constants DEF OverIsQuiet, Quiet, Persisting
  <1>q. QED
    BY <1>T, <1>L, <1>P, <1>k, <1>O DEF SessionInv, ThreadInv, QuietInv

LEMMA ReplySent ==
    ASSUME SessionInv, Reply, io.pc = "sent"
    PROVE  SessionInv'
  <1>i. Parts /\ EachSession
    BY PartsOf
  <1>u. /\ db' = db /\ taken' = taken /\ spool' = spool /\ asker' = asker /\ boot' = boot
        /\ acc' = acc /\ link' = link /\ stuck' = stuck /\ mem' = mem /\ listed' = listed
        /\ slock' = slock /\ handler' = handler /\ owner' = owner /\ live' = live /\ faults' = faults
    BY DEF Reply, devVars, linkVars, thrVars, histVars
  <1>a. PICK ok \in BOOLEAN : After(ok) /\ ok = (Accepts /\ io.op \notin {"START", "ONCE"})
    BY DEF Reply
  <1>f. link = "up" /\ ~stuck /\ io.via = 0 /\ io.pc # "confirm"
    BY <1>i DEF Reply, OnLine, Parts, FramesTrue, InHand
  <1>g. /\ spool = NoFrame
        /\ \/ io.op \in {"STOP", "ABORT"} /\ Accepts /\ sched' = 0 /\ fired' = 0
           \/ ~(io.op \in {"STOP", "ABORT"} /\ Accepts) /\ sched' = sched /\ fired' = fired
    BY DEF Reply
  <1>h. sched' \in {0, sched}
    BY <1>g
  <1>e. /\ AfterEffect(ok) /\ plan' = plan /\ io' \in Ios /\ io'.pc = "free" /\ io'.via = 0
        /\ pc' \in [Sessions -> ThreadPcs] /\ wpc' \in [Sessions -> WorkerPcs] /\ spc' \in [Sessions -> StopPcs]
    BY <1>i, <1>a, AfterIs DEF AfterEffect
  <1>p. \A r \in Sessions : Pending(r)' => Pending(r)
    BY <1>u, <1>e, <1>f, Constants DEF Pending, Persisting
  <1>k. /\ StoreInv' /\ FramesTrue' /\ NamesKnown' /\ Waits' /\ ViaTrue'
        /\ \A r \in Sessions : LifeOf(r)' /\ RowOf(r)' /\ NotBefore(r)' /\ CountTrue(r)'
    BY <1>i, <1>u, <1>a, <1>p, <1>f, <1>g, <1>h, AfterKeeps
  <1>T. TypeOK'
    BY <1>i, <1>u, <1>e, <1>g DEF Parts, TypeOK
  <1>L. LinksTrue'
    BY <1>i, <1>u, <1>e, <1>g DEF Parts, LinksTrue
  <1>P. ScheduleTrue'
    <2>1. \A r \in Sessions : (Periodic(r)' <=> Periodic(r)) /\ plan'[r].limit = plan[r].limit
      BY <1>e DEF Periodic
    <2>2. CASE sched' = sched /\ fired' = fired
      BY <1>i, <1>u, <2>1, <2>2, ScheduleKept
    <2>3. CASE sched' = 0 /\ fired' = 0
      <3>1. \A r : NumberAsked(r)' = NumberAsked(r)
        BY <1>u DEF NumberAsked, Asked
      <3>2. QED
        BY <1>i, <2>1, <2>3, <3>1 DEF Parts, ScheduleTrue
    <2>4. QED
      BY <1>g, <2>2, <2>3
  <1>O. ASSUME NEW r \in Sessions PROVE OverIsQuiet(r)'
    <2>1. ASSUME Periodic(r), Over(r)' PROVE sched' # r
      <3>1. CASE Over(r)
        <4>1. sched # r
          BY <1>i, <1>f, <2>1, <3>1 DEF EachSession, OverIsQuiet, Quiet
        <4>2. QED
          BY <1>h, <4>1, Constants
      <3>2. CASE io.sess = r /\ io.op = "START" /\ pc[r] = "wait" /\ Periodic(r)
        <4>1. sched # r
          BY <1>i, <3>2 DEF EachSession, NotBefore
        <4>2. QED
          BY <1>h, <4>1, Constants
      <3>3. CASE io.sess = r /\ io.op \in {"RENEW", "POLL"} /\ ~ok
        <4>1. sched # r
          BY <1>a, <3>3 DEF Accepts
        <4>2. QED
          BY <1>h, <4>1, Constants
      <3>4. CASE io.sess = r /\ io.op = "STOP"
        BY <1>g, <3>4, Constants DEF Accepts
      <3>5. QED
        BY <1>i, <1>a, <1>u, <2>1, <3>1, <3>2, <3>3, <3>4, AfterOver
    <2>2. (Periodic(r)' <=> Periodic(r)) /\ spool'.req # r
      BY <1>u, <1>e, <1>g, NoFrameIsNone, Constants DEF Periodic
    <2>3. QED
      BY <1>e, <2>1, <2>2, Constants DEF OverIsQuiet, Quiet, Persisting
  <1>q. QED
    BY <1>T, <1>L, <1>P, <1>k, <1>O DEF SessionInv, ThreadInv, QuietInv

LEMMA ReplyAnswered ==
    ASSUME SessionInv, Reply, io.pc = "answered"
    PROVE  SessionInv'
  <1>i. Parts /\ EachSession
    BY PartsOf
  <1>u. /\ db' = db /\ taken' = taken /\ spool' = spool /\ asker' = asker /\ boot' = boot
        /\ acc' = acc /\ link' = link /\ stuck' = stuck /\ mem' = mem /\ listed' = listed
        /\ slock' = slock /\ handler' = handler /\ owner' = owner /\ live' = live /\ faults' = faults
        /\ sched' = sched /\ fired' = fired
    BY DEF Reply, devVars, linkVars, thrVars, histVars
  <1>a. PICK ok \in BOOLEAN : After(ok) /\ ok = TRUE
    BY DEF Reply
  <1>f. link = "up" /\ ~stuck /\ io.via = 0 /\ io.pc # "confirm"
    BY <1>i DEF Reply, OnLine, Parts, FramesTrue, InHand
  <1>g. io.op = "START"
    BY DEF Reply
  <1>e. /\ AfterEffect(ok) /\ plan' = plan /\ io' \in Ios /\ io'.pc = "free" /\ io'.via = 0
        /\ pc' \in [Sessions -> ThreadPcs] /\ wpc' \in [Sessions -> WorkerPcs] /\ spc' \in [Sessions -> StopPcs]
    BY <1>i, <1>a, AfterIs DEF AfterEffect
  <1>p. \A r \in Sessions : Pending(r)' => Pending(r)
    BY <1>u, <1>e, <1>f, Constants DEF Pending, Persisting
  <1>k. /\ StoreInv' /\ FramesTrue' /\ NamesKnown' /\ Waits' /\ ViaTrue'
        /\ \A r \in Sessions : LifeOf(r)' /\ RowOf(r)' /\ NotBefore(r)' /\ CountTrue(r)'
    BY <1>i, <1>u, <1>a, <1>p, <1>f, <1>g, AfterKeeps
  <1>T. TypeOK'
    BY <1>i, <1>u, <1>e DEF Parts, TypeOK
  <1>L. LinksTrue'
    BY <1>i, <1>u, <1>e DEF Parts, LinksTrue
  <1>P. ScheduleTrue'
    <2>1. \A r \in Sessions : (Periodic(r)' <=> Periodic(r)) /\ plan'[r].limit = plan[r].limit
      BY <1>e DEF Periodic
    <2>2. QED
      BY <1>i, <1>u, <2>1, ScheduleKept
  <1>O. ASSUME NEW r \in Sessions PROVE OverIsQuiet(r)'
    <2>1. (Periodic(r)' <=> Periodic(r)) /\ OverIsQuiet(r)
      BY <1>i, <1>e DEF Periodic, EachSession
    <2>2. Over(r)' => Over(r)
      BY <1>i, <1>a, <1>u, <1>g, AfterOver
    <2>3. QED
      BY <1>u, <1>e, <1>f, <2>1, <2>2, Constants DEF OverIsQuiet, Quiet, Persisting
  <1>q. QED
    BY <1>T, <1>L, <1>P, <1>k, <1>O DEF SessionInv, ThreadInv, QuietInv

LEMMA ConfirmEnds ==
    ASSUME SessionInv, Confirm, io.op = "POLL" \/ (io.op = "ONCE" /\ io.via = io.sess)
    PROVE  SessionInv'
  <1>i. Parts /\ EachSession
    BY PartsOf
  <1>u. /\ db' = db /\ taken' = taken /\ sched' = sched /\ fired' = fired /\ asker' = asker
        /\ boot' = boot /\ acc' = acc /\ link' = link /\ stuck' = stuck /\ mem' = mem
        /\ listed' = listed /\ slock' = slock /\ handler' = handler /\ owner' = owner /\ live' = live
        /\ faults' = faults
    BY DEF Confirm, devVars, linkVars, thrVars, histVars
  <1>a. PICK ok \in BOOLEAN : After(ok) /\ ok = TRUE
    BY DEF Confirm
  <1>f. link = "up" /\ ~stuck /\ spool' = NoFrame /\ io.pc = "confirm"
    BY DEF Confirm, OnLine
  <1>e. /\ AfterEffect(ok) /\ plan' = plan /\ io' \in Ios /\ io'.pc = "free" /\ io'.via = 0
        /\ pc' \in [Sessions -> ThreadPcs] /\ wpc' \in [Sessions -> WorkerPcs] /\ spc' \in [Sessions -> StopPcs]
    BY <1>i, <1>a, AfterIs DEF AfterEffect
  <1>p. \A r \in Sessions : Pending(r)' => Pending(r)
    BY <1>e, <1>f, NoFrameIsNone, Constants DEF Pending, Persisting
  <1>k. /\ StoreInv' /\ FramesTrue' /\ NamesKnown' /\ Waits' /\ ViaTrue'
        /\ \A r \in Sessions : LifeOf(r)' /\ RowOf(r)' /\ NotBefore(r)' /\ CountTrue(r)'
    BY <1>i, <1>u, <1>a, <1>p, <1>f, AfterKeeps
  <1>T. TypeOK'
    BY <1>i, <1>u, <1>e, <1>f DEF Parts, TypeOK
  <1>L. LinksTrue'
    BY <1>i, <1>u, <1>e, <1>f DEF Parts, LinksTrue
  <1>P. ScheduleTrue'
    <2>1. \A r \in Sessions : (Periodic(r)' <=> Periodic(r)) /\ plan'[r].limit = plan[r].limit
      BY <1>e DEF Periodic
    <2>2. QED
      BY <1>i, <1>u, <2>1, ScheduleKept
  <1>O. ASSUME NEW r \in Sessions PROVE OverIsQuiet(r)'
    <2>1. (Periodic(r)' <=> Periodic(r)) /\ OverIsQuiet(r)
      BY <1>i, <1>e DEF Periodic, EachSession
    <2>2. Over(r)' => Over(r)
      BY <1>i, <1>a, <1>u, AfterOver
    <2>3. QED
      BY <1>u, <1>e, <1>f, <2>1, <2>2, NoFrameIsNone, Constants DEF OverIsQuiet, Quiet, Persisting
  <1>q. QED
    BY <1>T, <1>L, <1>P, <1>k, <1>O DEF SessionInv, ThreadInv, QuietInv

LEMMA ConfirmGoesOn ==
    ASSUME SessionInv, Confirm, ~(io.op = "POLL" \/ (io.op = "ONCE" /\ io.via = io.sess))
    PROVE  SessionInv'
  <1>i. Parts /\ EachSession
    BY PartsOf
  <1>u. /\ db' = db /\ taken' = taken /\ sched' = sched /\ fired' = fired /\ boot' = boot
        /\ acc' = acc /\ link' = link /\ stuck' = stuck /\ plan' = plan /\ pc' = pc
        /\ wpc' = wpc /\ spc' = spc /\ mem' = mem /\ listed' = listed /\ slock' = slock
        /\ handler' = handler /\ asker' = asker /\ owner' = owner /\ live' = live /\ faults' = faults
    BY DEF Confirm, devVars, linkVars, thrVars, histVars
  <1>f. link = "up" /\ ~stuck /\ spool' = NoFrame /\ io.pc = "confirm"
    BY DEF Confirm, OnLine
  <1>d. /\ io' \in Ios /\ io'.pc = "sent" /\ io'.frame = NoFrame /\ io'.via = 0 /\ io'.boot = io.boot
        /\ io'.op = io.op /\ io'.sess = io.sess
    <2>1. io' = [io EXCEPT !.pc = "sent", !.frame = NoFrame, !.via = 0, !.res = NoIo.res]
      BY DEF Confirm
    <2>2. NoIo.res \in Resolutions /\ io \in Ios
      BY <1>i DEF NoIo, Resolutions, Parts, TypeOK
    <2>3. QED
      BY <2>1, <2>2 DEF Ios
  <1>k. \A r : Asked(r)' = Asked(r) /\ NumberAsked(r)' = NumberAsked(r)
    BY <1>u DEF Asked, NumberAsked
  <1>T. TypeOK'
    BY <1>i, <1>u, <1>f, <1>d, <1>k DEF Parts, TypeOK
  <1>S. StoreInv'
    BY <1>i, <1>u, <1>f, <1>d, <1>k DEF Parts, StoreInv, Saves, OwnerIsAsker
  <1>F. FramesTrue'
    BY <1>i, <1>u, <1>f, <1>d DEF Parts, FramesTrue, InHand
  <1>L. LinksTrue'
    BY <1>i, <1>u, <1>f, <1>d, <1>k DEF Parts, LinksTrue
  <1>N. NamesKnown'
    BY <1>i, <1>u, <1>f, <1>d, <1>k DEF Parts, NamesKnown, Known
  <1>W. Waits'
    <2>1. \A r \in Sessions : Periodic(r)' <=> Periodic(r)
      BY <1>u DEF Periodic
    <2>2. QED
      BY <1>i, <1>u, <1>d, <2>1, WaitsKept
  <1>V. ViaTrue'
    BY <1>i, <1>u, <1>f, <1>d, <1>k DEF Parts, ViaTrue, Periodic
  <1>P. ScheduleTrue'
    BY <1>i, <1>u, <1>f, <1>d, <1>k DEF Parts, ScheduleTrue, Periodic
  <1>r. ASSUME NEW r \in Sessions
        PROVE  LifeOf(r)' /\ RowOf(r)' /\ OverIsQuiet(r)' /\ NotBefore(r)' /\ CountTrue(r)'
    <2>h. /\ LifeOf(r) /\ RowOf(r) /\ OverIsQuiet(r) /\ NotBefore(r) /\ CountTrue(r)
          /\ NumberAsked(r) \in Nat /\ mem[r].count \in Nat
      BY <1>i, Numbers DEF EachSession
    <2>k. Asked(r)' = Asked(r) /\ NumberAsked(r)' = NumberAsked(r)
      BY <1>k
    <2>A. LifeOf(r)'
      BY <1>i, <2>h, <1>u, <1>f, <1>d, <2>k DEF LifeOf, Periodic, Active
    <2>R. RowOf(r)'
      BY <1>i, <2>h, <1>u, <1>f, <1>d, <2>k DEF RowOf, Periodic, Active, Terminal
    <2>O. OverIsQuiet(r)'
      BY <1>i, <2>h, <1>u, <1>f, <1>d, <2>k, NoFrameIsNone, Constants
         DEF OverIsQuiet, Over, Quiet, Persisting, Periodic
    <2>B. NotBefore(r)'
      BY <1>i, <2>h, <1>u, <1>f, <1>d, <2>k, Constants DEF NotBefore, Periodic
    <2>C. CountTrue(r)'
      BY <1>i, <2>h, <1>u, <1>f, <1>d, <2>k, NoFrameIsNone, Constants
         DEF CountTrue, Pending, Persisting, Periodic
    <2>q. QED
      BY <2>A, <2>R, <2>O, <2>B, <2>C
  <1>q. QED
    BY <1>T, <1>S, <1>F, <1>L, <1>N, <1>W, <1>V, <1>P, <1>r DEF SessionInv, ThreadInv, QuietInv

\* The frame in hand is the newest one.
LEMMA FrameArrived ==
    ASSUME Parts, NEW f \in AllFrames, f.cap = taken, f.req = asker[taken]
    PROVE  Arrived(db, owner, asker, Saves, live, f)
  <1>1. /\ StoreGood(db, owner, asker, Saves, live) /\ Typed(owner, asker, Saves)
        /\ owner \in Owners /\ live \in SUBSET Captures
    BY SavesType DEF Parts, TypeOK
  <1>2. taken \in Captures /\ taken \in Nat /\ Captures \subseteq Nat
    BY FrameType, Constants
  <1>3. \A x \in Captures : owner[x] # 0 => x <= taken
    BY <1>2 DEF Parts, FramesTrue
  <1>4. QED
    BY <1>1, <1>3 DEF Arrived

\* A session that persists a capture is not over.
LEMMA PersistingIsOpen ==
    ASSUME Parts, EachSession, NEW s \in Sessions, Persisting(s)
    PROVE  /\ mem[s].state \in Active /\ db.summary[s].state \notin Terminal
           /\ Periodic(s) => ~Over(s)
           /\ IF Periodic(s) THEN pc[s] \in {"started", "done"} ELSE pc[s] = "wait"
  <1>1. LifeOf(s) /\ RowOf(s) /\ OverIsQuiet(s) /\ io.via = s /\ s # 0
    BY Constants DEF EachSession, Persisting
  <1>2. IF Periodic(s) THEN pc[s] \in {"started", "done"} ELSE pc[s] = "wait"
    BY <1>1 DEF Parts, ViaTrue, Waits
  <1>3. Periodic(s) => ~Over(s)
    BY <1>1 DEF OverIsQuiet
  <1>4. mem[s].state \in Active
    BY <1>1, <1>2, <1>3 DEF Over, LifeOf
  <1>5. QED
    BY <1>1, <1>2, <1>3, <1>4 DEF RowOf

LEMMA TakeInStep ==
    ASSUME SessionInv, TakeIn
    PROVE  SessionInv'
  <1>i. Parts /\ EachSession
    BY PartsOf
  <1>u. /\ db' = db /\ taken' = taken /\ sched' = sched /\ fired' = fired /\ spool' = spool
        /\ boot' = boot /\ acc' = acc /\ link' = link /\ stuck' = stuck /\ plan' = plan
        /\ pc' = pc /\ wpc' = wpc /\ spc' = spc /\ mem' = mem /\ listed' = listed
        /\ slock' = slock /\ handler' = handler /\ asker' = asker /\ owner' = owner /\ live' = live
        /\ faults' = faults
    BY DEF TakeIn, devVars, linkVars, thrVars, histVars
  <1>c. /\ link = "up" /\ io.boot = boot /\ ~stuck /\ spool # NoFrame
        /\ io.pc = "sent" \/ (io.pc = "answered" /\ io.op = "ONCE")
    BY DEF TakeIn, OnLine
  <1>f. spool \in AllFrames /\ spool.cap = taken /\ spool.req = asker[taken] /\ spool.req \in Sessions /\ spool.req # 0
    BY <1>i, <1>c, FrameType, Constants DEF Parts, TypeOK, FramesTrue
  <1>v. PICK v \in Sessions \cup {0} :
          /\ io' = [io EXCEPT !.frame = spool, !.via = v, !.pc = IF v = 0 THEN "commit" ELSE "stage"]
          /\ \/ io.op = "POLL" /\ io.pc = "sent" /\ v = io.sess /\ spool.req = v
             \/ io.op = "ONCE" /\ io.pc = "answered" /\ v = io.sess /\ spool.req = v
             \/ io.pc = "sent" /\ v = handler /\ spool.req = v
             \/ v = 0
    BY <1>i, <1>c DEF TakeIn, Parts, TypeOK, Ios
  <1>d. /\ io' \in Ios /\ io'.frame = spool /\ io'.via = v /\ io'.boot = io.boot
        /\ io'.op = io.op /\ io'.sess = io.sess /\ io'.pc = IF v = 0 THEN "commit" ELSE "stage"
    BY <1>i, <1>f, <1>v DEF Parts, TypeOK, Ios
  <1>g. v # 0 => v = spool.req
    BY <1>v
  <1>h. v # 0 => IF Periodic(v) THEN pc[v] \in {"started", "done"} ELSE io.op = "ONCE" /\ io.sess = v
    <2> SUFFICES ASSUME v # 0
                 PROVE  IF Periodic(v) THEN pc[v] \in {"started", "done"} ELSE io.op = "ONCE" /\ io.sess = v
      OBVIOUS
    <2>0. v \in Sessions /\ LifeOf(v) /\ NotBefore(v) /\ OverIsQuiet(v) /\ pc[v] \in ThreadPcs
      BY <1>i DEF EachSession, Parts, TypeOK
    <2>1. CASE io.op = "POLL" /\ io.pc = "sent" /\ v = io.sess
      BY <1>i, <2>0, <2>1 DEF Parts, Waits, LifeOf
    <2>2. CASE io.op = "ONCE" /\ io.pc = "answered" /\ v = io.sess
      BY <1>i, <2>2 DEF Parts, Waits
    <2>3. CASE io.pc = "sent" /\ v = handler /\ spool.req = v
      <3>1. Periodic(v) /\ pc[v] \notin {"new", "checked", "cut"}
        BY <1>i, <2>3 DEF Parts, ViaTrue, NamesKnown, Known
      <3>2. Asked(v) # {}
        BY <1>f, <2>3, FrameType DEF Asked
      <3>3. pc[v] \notin {"io", "wait"}
        BY <2>0, <2>3, <3>1, <3>2 DEF NotBefore
      <3>4. pc[v] # "cleanup"
        BY <1>c, <2>0, <2>3, <3>1 DEF OverIsQuiet, Over, Quiet
      <3>5. QED
        BY <2>0, <3>1, <3>3, <3>4 DEF LifeOf, ThreadPcs
    <2>4. QED
      BY <1>v, <2>1, <2>2, <2>3
  <1>k. \A r : Asked(r)' = Asked(r) /\ NumberAsked(r)' = NumberAsked(r)
    BY <1>u DEF Asked, NumberAsked
  <1>T. TypeOK'
    BY <1>i, <1>u, <1>c, <1>f, <1>v, <1>d, <1>g, <1>h, <1>k DEF Parts, TypeOK
  <1>S. StoreInv'
    BY <1>i, <1>u, <1>c, <1>f, <1>v, <1>d, <1>g, <1>h, <1>k DEF Parts, StoreInv, Saves, OwnerIsAsker
  <1>F. FramesTrue'
    BY <1>i, <1>u, <1>c, <1>f, <1>d, <1>g DEF Parts, FramesTrue, InHand
  <1>L. LinksTrue'
    BY <1>i, <1>u, <1>c, <1>f, <1>v, <1>d, <1>g, <1>h, <1>k DEF Parts, LinksTrue
  <1>N. NamesKnown'
    BY <1>i, <1>u, <1>c, <1>f, <1>v, <1>d, <1>g, <1>h, <1>k DEF Parts, NamesKnown, Known
  <1>W. Waits'
    <2>1. \A r \in Sessions : Periodic(r)' <=> Periodic(r)
      BY <1>u DEF Periodic
    <2>2. QED
      BY <1>i, <1>u, <1>d, <2>1, WaitsKept
  <1>V. ViaTrue'
    BY <1>i, <1>u, <1>d, <1>h DEF Parts, ViaTrue, Periodic
  <1>P. ScheduleTrue'
    BY <1>i, <1>u, <1>c, <1>f, <1>v, <1>d, <1>g, <1>h, <1>k DEF Parts, ScheduleTrue, Periodic
  <1>r. ASSUME NEW r \in Sessions
        PROVE  LifeOf(r)' /\ RowOf(r)' /\ OverIsQuiet(r)' /\ NotBefore(r)' /\ CountTrue(r)'
    <2>h. /\ LifeOf(r) /\ RowOf(r) /\ OverIsQuiet(r) /\ NotBefore(r) /\ CountTrue(r)
          /\ NumberAsked(r) \in Nat /\ mem[r].count \in Nat
      BY <1>i, Numbers DEF EachSession
    <2>k. Asked(r)' = Asked(r) /\ NumberAsked(r)' = NumberAsked(r)
      BY <1>k
    <2>A. LifeOf(r)'
      BY <1>i, <2>h, <1>u, <1>c, <1>f, <1>v, <1>d, <1>g, <1>h, <2>k DEF LifeOf, Periodic, Active
    <2>R. RowOf(r)'
      BY <1>i, <2>h, <1>u, <1>c, <1>f, <1>v, <1>d, <1>g, <1>h, <2>k
         DEF RowOf, Periodic, Active, Terminal
    <2>O. OverIsQuiet(r)'
      BY <1>i, <2>h, <1>u, <1>c, <1>f, <1>v, <1>d, <1>g, <1>h, <2>k, NoFrameIsNone, Constants
         DEF OverIsQuiet, Over, Quiet, Persisting, Periodic
    <2>B. NotBefore(r)'
      BY <1>i, <2>h, <1>u, <1>c, <1>d, <2>k DEF Parts, NotBefore, Periodic, Waits
    <2>C. CountTrue(r)'
      <3>1. Pending(r)' => Pending(r)
        BY <1>u, <1>c, <1>d, <1>g, Constants DEF Pending, Persisting
      <3>2. QED
        BY <2>h, <1>u, <2>k, <3>1 DEF CountTrue, Periodic
    <2>q. QED
      BY <2>A, <2>R, <2>O, <2>B, <2>C
  <1>q. QED
    BY <1>T, <1>S, <1>F, <1>L, <1>N, <1>W, <1>V, <1>P, <1>r DEF SessionInv, ThreadInv, QuietInv

LEMMA StageStep ==
    ASSUME SessionInv, Stage
    PROVE  SessionInv'
  <1>i. Parts /\ EachSession
    BY PartsOf
  <1>u. /\ taken' = taken /\ sched' = sched /\ fired' = fired /\ spool' = spool /\ boot' = boot
        /\ acc' = acc /\ link' = link /\ stuck' = stuck /\ plan' = plan /\ pc' = pc
        /\ wpc' = wpc /\ spc' = spc /\ mem' = mem /\ listed' = listed /\ slock' = slock
        /\ handler' = handler /\ asker' = asker /\ owner' = owner /\ live' = live /\ faults' = faults
    BY DEF Stage, devVars, linkVars, thrVars, histVars
  <1>d. /\ io.pc = "stage" /\ io' \in Ios /\ io'.pc = "commit" /\ io'.boot = io.boot
        /\ io'.op = io.op /\ io'.sess = io.sess /\ io'.frame = io.frame /\ io'.via = io.via
    BY <1>i DEF Stage, Parts, TypeOK, Ios
  <1>f. io.frame \in AllFrames /\ io.frame.req \in Sessions
    BY <1>i, <1>d, FrameType DEF Parts, TypeOK, Ios, FramesTrue, InHand
  <1>s. /\ Harmless(db, db', Saves) /\ db'.summary = db.summary /\ db'.policy = db.policy
        /\ io.frame.req \in db'.staged
    <2>1. StoreGood(db, owner, asker, Saves, live)
      BY <1>i, SavesType
    <2>2. QED
      BY <1>f, <2>1, StageGood DEF Stage
  <1>t. StoreInv' /\ db' \in Databases
    <2>1. StoreGood(db, owner, asker, Saves, live) /\ Saves' = Saves
      BY <1>i, <1>u, SavesType DEF Saves
    <2>2. StoreGood(db', owner, asker, Saves, live)
      BY <1>s, <2>1, HarmlessGood
    <2>3. StoreGood(db, owner, asker, Saves, live)'
      BY <1>u, <2>1, <2>2
    <2>4. QED
      BY <1>d, <1>s, <2>2, <2>3 DEF StoreInv, StoreGood, TablesGood
  <1>k. \A r : Asked(r)' = Asked(r) /\ NumberAsked(r)' = NumberAsked(r)
    BY <1>u DEF Asked, NumberAsked
  <1>T. TypeOK'
    BY <1>i, <1>u, <1>d, <1>f, <1>s, <1>t, <1>k DEF Parts, TypeOK
  <1>S. StoreInv'
    BY <1>t
  <1>F. FramesTrue'
    BY <1>i, <1>u, <1>d, <1>f, <1>s, <1>t, <1>k DEF Parts, FramesTrue, InHand
  <1>L. LinksTrue'
    BY <1>i, <1>u, <1>d, <1>f, <1>s, <1>t, <1>k DEF Parts, LinksTrue
  <1>N. NamesKnown'
    BY <1>i, <1>u, <1>d, <1>f, <1>s, <1>t, <1>k DEF Parts, NamesKnown, Known
  <1>W. Waits'
    <2>1. \A r \in Sessions : Periodic(r)' <=> Periodic(r)
      BY <1>u DEF Periodic
    <2>2. QED
      BY <1>i, <1>u, <1>d, <2>1, WaitsKept
  <1>V. ViaTrue'
    BY <1>i, <1>u, <1>d, <1>f, <1>s, <1>t, <1>k DEF Parts, ViaTrue, Periodic
  <1>P. ScheduleTrue'
    BY <1>i, <1>u, <1>d, <1>f, <1>s, <1>t, <1>k DEF Parts, ScheduleTrue, Periodic
  <1>r. ASSUME NEW r \in Sessions
        PROVE  LifeOf(r)' /\ RowOf(r)' /\ OverIsQuiet(r)' /\ NotBefore(r)' /\ CountTrue(r)'
    <2>h. /\ LifeOf(r) /\ RowOf(r) /\ OverIsQuiet(r) /\ NotBefore(r) /\ CountTrue(r)
          /\ NumberAsked(r) \in Nat /\ mem[r].count \in Nat
      BY <1>i, Numbers DEF EachSession
    <2>k. Asked(r)' = Asked(r) /\ NumberAsked(r)' = NumberAsked(r)
      BY <1>k
    <2>A. LifeOf(r)'
      BY <1>i, <2>h, <1>u, <1>d, <1>f, <1>s, <1>t, <2>k DEF LifeOf, Periodic, Active
    <2>R. RowOf(r)'
      BY <1>i, <2>h, <1>u, <1>d, <1>f, <1>s, <1>t, <2>k DEF RowOf, Periodic, Active, Terminal
    <2>O. OverIsQuiet(r)'
      BY <1>i, <2>h, <1>u, <1>d, <1>f, <1>s, <1>t, <2>k, NoFrameIsNone, Constants
         DEF OverIsQuiet, Over, Quiet, Persisting, Periodic
    <2>B. NotBefore(r)'
      BY <1>i, <2>h, <1>u, <1>d, <1>f, <1>s, <1>t, <2>k, Constants DEF NotBefore, Periodic
    <2>C. CountTrue(r)'
      BY <1>i, <2>h, <1>u, <1>d, <1>f, <1>s, <1>t, <2>k, NoFrameIsNone, Constants
         DEF CountTrue, Pending, Persisting, Periodic
    <2>q. QED
      BY <2>A, <2>R, <2>O, <2>B, <2>C
  <1>q. QED
    BY <1>T, <1>S, <1>F, <1>L, <1>N, <1>W, <1>V, <1>P, <1>r DEF SessionInv, ThreadInv, QuietInv

\* What a decision about frame f, the newest capture, leaves as it is.
LEMMA DecisionKeeps ==
    ASSUME Parts, NEW f \in AllFrames, f.cap = taken, f.req = asker[taken],
           NEW w \in Sessions \cup {0}, Known(w), owner' = Decider(f, w),
           Delivered(db, db', owner, owner', asker, Saves, live', f),
           plan' = plan, asker' = asker, pc' = pc, taken' = taken, sched' = sched, handler' = handler
    PROVE  /\ StoreGood(db', owner', asker', Saves', live') /\ db' \in Databases
           /\ owner' \in [Captures -> Sessions \cup {0}]
           /\ \A r \in Sessions : db'.summary[r].state = db.summary[r].state
           /\ owner'[taken] # 0
           /\ \A c \in Captures : owner'[c] # 0 => asker[c] # 0
           /\ NamesKnown'
  <1>1. /\ StoreGood(db', owner', asker, Saves, live') /\ owner' \in Owners
        /\ db'.policy = db.policy
        /\ \A r \in Sessions : db'.summary[r].state = db.summary[r].state
        /\ owner'[f.cap] \in Sessions
        /\ \A x \in Captures : x # f.cap => owner'[x] = owner[x]
    BY DEF Delivered, Typed
  <1>2. Saves' = Saves
    BY DEF Saves
  <1>3. StoreGood(db', owner', asker', Saves', live')
    BY <1>1, <1>2
  <1>4. f.req \in Sessions /\ f.cap \in Captures /\ 0 \notin Sessions
    BY FrameType, Constants
  <1>5. \A c \in Captures : owner'[c] # 0 => asker[c] # 0
    BY <1>1, <1>4 DEF Parts, FramesTrue
  <1>6. owner \in Owners
    BY SavesType
  <1>7. \A c \in Captures : owner'[c] \in {owner[c], w}
    BY <1>4, <1>6 DEF Decider, Owners
  <1>8. \A r : Known(r)' <=> Known(r)
    BY DEF Known
  <1>9. NamesKnown'
    <2>1. NamesKnown
      BY DEF Parts
    <2>2. \A c \in Captures : Known(owner'[c]) /\ Known(asker[c])
      BY <1>7, <2>1 DEF NamesKnown
    <2>3. (\A b \in Boots : Known(db.policy[b].session)) /\ Known(sched) /\ Known(handler)
      BY <2>1 DEF NamesKnown
    <2>4. QED
      BY <1>1, <2>2, <2>3 DEF NamesKnown, Known
  <1>10. QED
    BY <1>1, <1>3, <1>4, <1>5, <1>9 DEF Owners, StoreGood, TablesGood

LEMMA CommitReplay ==
    ASSUME SessionInv, Commit, ~(io.via # 0)
    PROVE  SessionInv'
  <1>i. Parts /\ EachSession
    BY PartsOf
  <1>u. /\ taken' = taken /\ sched' = sched /\ fired' = fired /\ spool' = spool /\ boot' = boot
        /\ acc' = acc /\ link' = link /\ stuck' = stuck /\ plan' = plan /\ pc' = pc
        /\ wpc' = wpc /\ spc' = spc /\ mem' = mem /\ listed' = listed /\ slock' = slock
        /\ handler' = handler /\ asker' = asker /\ faults' = faults
    BY DEF Commit, devVars, linkVars, thrVars, histVars
  <1>f. /\ io.pc = "commit" /\ io.frame \in AllFrames /\ io.frame.cap = taken /\ io.frame.req = asker[taken]
        /\ io.frame.cap \in Captures /\ io.frame.req \in Sessions /\ io.frame.boot \in Boots
    <2>1. io.pc = "commit" /\ io.frame # NoFrame
      BY <1>i DEF Commit, Parts, FramesTrue, InHand
    <2>2. QED
      BY <1>i, <2>1, FrameType DEF Parts, FramesTrue, TypeOK, Ios
  <1>w. PICK w \in Sessions \cup {0} : w = db.policy[io.frame.boot].session /\ Known(w)
    BY <1>i, <1>f, PolicyType DEF Parts, TypeOK, NamesKnown
  <1>l. live' = live /\ live' \subseteq Captures /\ owner' = Decider(io.frame, w) /\ Decider(io.frame, w) = NextOwner(db, owner, io.frame, w)
    BY <1>i, <1>w DEF Commit, Parts, TypeOK, Decider, NextOwner
  <1>g. Delivered(db, db', owner, owner', asker, Saves, live', io.frame)
    <2>1. CanReplay(db, io.frame) /\ db' = CommitReplayed(db, io.frame)
      BY DEF Commit
    <2>2. Arrived(db, owner, asker, Saves, live, io.frame)
      BY <1>i, <1>f, FrameArrived, ZenonT(20)
    <2>3. QED
      BY <1>w, <1>l, <2>1, <2>2, ReplayGood
  <1>s. /\ StoreGood(db', owner', asker', Saves', live') /\ db' \in Databases
        /\ owner' \in [Captures -> Sessions \cup {0}]
        /\ \A r \in Sessions : db'.summary[r].state = db.summary[r].state
        /\ owner'[taken] # 0
        /\ \A c \in Captures : owner'[c] # 0 => asker[c] # 0
        /\ NamesKnown'
    BY <1>i, <1>u, <1>f, <1>w, <1>l, <1>g, DecisionKeeps, ZenonT(20)
  <1>d. /\ io' \in Ios /\ io'.pc = "confirm" /\ io'.boot = io.boot
        /\ io'.op = io.op /\ io'.sess = io.sess /\ io'.frame = io.frame /\ io'.via = io.via
    <2>1. io' = [io EXCEPT !.pc = "confirm", !.res = Resolution(db', io.frame.cap)]
      BY DEF Commit
    <2>2. Resolution(db', io.frame.cap) \in Resolutions /\ io \in Ios
      BY <1>i, <1>g DEF Delivered, Parts, TypeOK
    <2>3. QED
      BY <2>1, <2>2 DEF Ios
  <1>k. \A r : Asked(r)' = Asked(r) /\ NumberAsked(r)' = NumberAsked(r)
    BY <1>u DEF Asked, NumberAsked
  <1>T. TypeOK'
    BY <1>i, <1>u, <1>d, <1>s, <1>l DEF Parts, TypeOK
  <1>S. StoreInv'
    BY <1>s, <1>d DEF StoreInv
  <1>F. FramesTrue'
    BY <1>i, <1>u, <1>f, <1>d, <1>s DEF Parts, FramesTrue, InHand
  <1>L. LinksTrue'
    BY <1>i, <1>u, <1>f, <1>s, <1>d, <1>k DEF Parts, LinksTrue
  <1>N. NamesKnown'
    BY <1>s
  <1>W. Waits'
    <2>1. \A r \in Sessions : Periodic(r)' <=> Periodic(r)
      BY <1>u DEF Periodic
    <2>2. QED
      BY <1>i, <1>u, <1>d, <2>1, WaitsKept
  <1>V. ViaTrue'
    BY <1>i, <1>u, <1>f, <1>s, <1>d, <1>k DEF Parts, ViaTrue, Periodic
  <1>P. ScheduleTrue'
    BY <1>i, <1>u, <1>f, <1>s, <1>d, <1>k DEF Parts, ScheduleTrue, Periodic
  <1>r. ASSUME NEW r \in Sessions
        PROVE  LifeOf(r)' /\ RowOf(r)' /\ OverIsQuiet(r)' /\ NotBefore(r)' /\ CountTrue(r)'
    <2>h. /\ LifeOf(r) /\ RowOf(r) /\ OverIsQuiet(r) /\ NotBefore(r) /\ CountTrue(r)
          /\ NumberAsked(r) \in Nat /\ mem[r].count \in Nat
      BY <1>i, Numbers DEF EachSession
    <2>k. Asked(r)' = Asked(r) /\ NumberAsked(r)' = NumberAsked(r)
      BY <1>k
    <2>A. LifeOf(r)'
      BY <1>i, <2>h, <1>u, <1>f, <1>s, <1>d, <2>k DEF LifeOf, Periodic, Active
    <2>R. RowOf(r)'
      BY <1>i, <2>h, <1>u, <1>f, <1>s, <1>d, <2>k DEF RowOf, Periodic, Active, Terminal
    <2>O. OverIsQuiet(r)'
      BY <1>i, <2>h, <1>u, <1>f, <1>s, <1>d, <2>k, NoFrameIsNone, Constants
         DEF OverIsQuiet, Over, Quiet, Persisting, Periodic
    <2>B. NotBefore(r)'
      BY <1>i, <2>h, <1>u, <1>f, <1>s, <1>d, <2>k, Constants DEF NotBefore, Periodic
    <2>C. CountTrue(r)'
      BY <1>i, <2>h, <1>u, <1>f, <1>s, <1>d, <2>k, NoFrameIsNone, Constants
         DEF CountTrue, Pending, Persisting, Periodic
    <2>q. QED
      BY <2>A, <2>R, <2>O, <2>B, <2>C
  <1>q. QED
    BY <1>T, <1>S, <1>F, <1>L, <1>N, <1>W, <1>V, <1>P, <1>r DEF SessionInv, ThreadInv, QuietInv

LEMMA CommitOwn ==
    ASSUME SessionInv, Commit, io.via # 0
    PROVE  SessionInv'
  <1>i. Parts /\ EachSession
    BY PartsOf
  <1>u. /\ taken' = taken /\ sched' = sched /\ fired' = fired /\ spool' = spool /\ boot' = boot
        /\ acc' = acc /\ link' = link /\ stuck' = stuck /\ plan' = plan /\ pc' = pc
        /\ wpc' = wpc /\ spc' = spc /\ mem' = mem /\ listed' = listed /\ slock' = slock
        /\ handler' = handler /\ asker' = asker /\ faults' = faults
    BY DEF Commit, devVars, linkVars, thrVars, histVars
  <1>f. /\ io.pc = "commit" /\ io.frame \in AllFrames /\ io.frame.cap = taken /\ io.frame.req = asker[taken]
        /\ io.frame.cap \in Captures /\ io.frame.req \in Sessions /\ io.frame.boot \in Boots
    <2>1. io.pc = "commit" /\ io.frame # NoFrame
      BY <1>i DEF Commit, Parts, FramesTrue, InHand
    <2>2. QED
      BY <1>i, <2>1, FrameType DEF Parts, FramesTrue, TypeOK, Ios
  <1>v. PICK v \in Sessions : v = io.via /\ v = io.frame.req
    BY <1>i, Constants DEF Parts, TypeOK, Ios, FramesTrue
  <1>o. db.summary[v].state \notin Terminal /\ Known(v)
    BY <1>i, <1>f, <1>v, PersistingIsOpen DEF Persisting, Parts, NamesKnown
  <1>l. /\ live' = (IF Decided(db, io.frame.cap) THEN live ELSE live \cup {io.frame.cap})
        /\ live' \subseteq Captures /\ owner' = Decider(io.frame, v)
        /\ Decider(io.frame, v) = NextOwner(db, owner, io.frame, v)
    BY <1>i, <1>f, <1>v DEF Commit, Parts, TypeOK, Decider, NextOwner
  <1>g. Delivered(db, db', owner, owner', asker, Saves, live', io.frame)
    <2>1. db' = CommitDelivery(db, io.frame, v, Saves[v])
      BY <1>v DEF Commit, Saves
    <2>2. Arrived(db, owner, asker, Saves, live, io.frame)
      BY <1>i, <1>f, FrameArrived
    <2>3. AsAsked(owner, asker) /\ owner[io.frame.cap] = 0 => io.frame.req \in db.staged
      BY <1>i, <1>f DEF Parts, StoreInv, OwnerIsAsker, AsAsked
    <2>4. Delivered(db, db', owner, NextOwner(db, owner, io.frame, v), asker, Saves,
                   IF Decided(db, io.frame.cap) THEN live ELSE live \cup {io.frame.cap}, io.frame)
      BY <1>o, <2>1, <2>2, <2>3, CommitGood
    <2>5. QED
      BY <1>l, <2>4
  <1>s. /\ StoreGood(db', owner', asker', Saves', live') /\ db' \in Databases
        /\ owner' \in [Captures -> Sessions \cup {0}]
        /\ \A r \in Sessions : db'.summary[r].state = db.summary[r].state
        /\ owner'[taken] # 0
        /\ \A c \in Captures : owner'[c] # 0 => asker[c] # 0
        /\ NamesKnown'
    BY <1>i, <1>u, <1>f, <1>v, <1>o, <1>l, <1>g, DecisionKeeps
  <1>d. /\ io' \in Ios /\ io'.pc = "record" /\ io'.boot = io.boot
        /\ io'.op = io.op /\ io'.sess = io.sess /\ io'.frame = io.frame /\ io'.via = io.via
    <2>1. io' = [io EXCEPT !.pc = "record", !.res = Resolution(db', io.frame.cap)]
      BY DEF Commit
    <2>2. Resolution(db', io.frame.cap) \in Resolutions /\ io \in Ios
      BY <1>i, <1>g DEF Delivered, Parts, TypeOK
    <2>3. QED
      BY <2>1, <2>2 DEF Ios
  <1>k. \A r : Asked(r)' = Asked(r) /\ NumberAsked(r)' = NumberAsked(r)
    BY <1>u DEF Asked, NumberAsked
  <1>T. TypeOK'
    BY <1>i, <1>u, <1>d, <1>s, <1>l DEF Parts, TypeOK
  <1>S. StoreInv'
    BY <1>s, <1>d DEF StoreInv
  <1>F. FramesTrue'
    BY <1>i, <1>u, <1>f, <1>d, <1>s DEF Parts, FramesTrue, InHand
  <1>L. LinksTrue'
    BY <1>i, <1>u, <1>f, <1>v, <1>o, <1>l, <1>g, <1>s, <1>d, <1>k DEF Parts, LinksTrue
  <1>N. NamesKnown'
    BY <1>s
  <1>W. Waits'
    <2>1. \A r \in Sessions : Periodic(r)' <=> Periodic(r)
      BY <1>u DEF Periodic
    <2>2. QED
      BY <1>i, <1>u, <1>d, <2>1, WaitsKept
  <1>V. ViaTrue'
    BY <1>i, <1>u, <1>f, <1>v, <1>o, <1>l, <1>g, <1>s, <1>d, <1>k DEF Parts, ViaTrue, Periodic
  <1>P. ScheduleTrue'
    BY <1>i, <1>u, <1>f, <1>v, <1>o, <1>l, <1>g, <1>s, <1>d, <1>k DEF Parts, ScheduleTrue, Periodic
  <1>r. ASSUME NEW r \in Sessions
        PROVE  LifeOf(r)' /\ RowOf(r)' /\ OverIsQuiet(r)' /\ NotBefore(r)' /\ CountTrue(r)'
    <2>h. /\ LifeOf(r) /\ RowOf(r) /\ OverIsQuiet(r) /\ NotBefore(r) /\ CountTrue(r)
          /\ NumberAsked(r) \in Nat /\ mem[r].count \in Nat
      BY <1>i, Numbers DEF EachSession
    <2>k. Asked(r)' = Asked(r) /\ NumberAsked(r)' = NumberAsked(r)
      BY <1>k
    <2>A. LifeOf(r)'
      BY <1>i, <2>h, <1>u, <1>f, <1>v, <1>o, <1>l, <1>g, <1>s, <1>d, <2>k
         DEF LifeOf, Periodic, Active
    <2>R. RowOf(r)'
      BY <1>i, <2>h, <1>u, <1>f, <1>v, <1>o, <1>l, <1>g, <1>s, <1>d, <2>k
         DEF RowOf, Periodic, Active, Terminal
    <2>O. OverIsQuiet(r)'
      BY <1>i, <2>h, <1>u, <1>f, <1>v, <1>o, <1>l, <1>g, <1>s, <1>d, <2>k, NoFrameIsNone,
         Constants
         DEF OverIsQuiet, Over, Quiet, Persisting, Periodic
    <2>B. NotBefore(r)'
      BY <1>i, <2>h, <1>u, <1>f, <1>v, <1>o, <1>l, <1>g, <1>s, <1>d, <2>k, Constants
         DEF NotBefore, Periodic
    <2>C. CountTrue(r)'
      BY <1>i, <2>h, <1>u, <1>f, <1>v, <1>o, <1>l, <1>g, <1>s, <1>d, <2>k, NoFrameIsNone,
         Constants
         DEF CountTrue, Pending, Persisting, Periodic
    <2>q. QED
      BY <2>A, <2>R, <2>O, <2>B, <2>C
  <1>q. QED
    BY <1>T, <1>S, <1>F, <1>L, <1>N, <1>W, <1>V, <1>P, <1>r DEF SessionInv, ThreadInv, QuietInv

LEMMA CountedIs ==
    ASSUME NEW o \in Objects, NEW c \in Captures, NEW res \in Resolutions
    PROVE  /\ Counted(o, c, res) \in Objects /\ Counted(o, c, res).state = o.state
           /\ Counted(o, c, res).stop = o.stop /\ Counted(o, c, res).count = o.count + 1
  <1>1. o.count \in Nat /\ o.saved \in Nat /\ o.discarded \in Nat /\ c \in Nat
    BY Constants DEF Objects
  <1> DEFINE n == o.count + 1
             sv == IF res = "RAW_ARCHIVED" THEN o.saved + 1 ELSE o.saved
             ls == IF res = "RAW_ARCHIVED" THEN c ELSE o.lastSaved
             di == CASE res = "RAW_ARCHIVED" -> o.discarded
                     [] res = "DISCARDED_BY_POLICY" -> o.discarded + 1
                     [] res = "ROLLING_LATEST" -> n - 1
  <1>2. Counted(o, c, res) = [o EXCEPT !.count = n, !.last = c, !.saved = sv, !.lastSaved = ls,
                                       !.discarded = di]
    BY DEF Counted
  <1>a. n \in Nat /\ sv \in Nat /\ ls \in Nat /\ n = o.count + 1
    BY <1>1 DEF Objects
  <1>b. di \in Nat
    <2>1. CASE res = "RAW_ARCHIVED"
      BY <1>1, <2>1
    <2>2. CASE res = "DISCARDED_BY_POLICY"
      BY <1>1, <2>2
    <2>3. CASE res = "ROLLING_LATEST"
      BY <1>1, <2>3
    <2>4. QED
      BY <2>1, <2>2, <2>3 DEF Resolutions
  <1> HIDE DEF n, sv, ls, di
  <1>3. QED
    BY <1>1, <1>2, <1>a, <1>b DEF Objects

LEMMA RecordStep ==
    ASSUME SessionInv, Record
    PROVE  SessionInv'
  <1>i. Parts /\ EachSession
    BY PartsOf
  <1>u. /\ taken' = taken /\ sched' = sched /\ fired' = fired /\ spool' = spool /\ boot' = boot
        /\ acc' = acc /\ link' = link /\ stuck' = stuck /\ plan' = plan /\ pc' = pc
        /\ wpc' = wpc /\ spc' = spc /\ listed' = listed /\ slock' = slock /\ handler' = handler
        /\ asker' = asker /\ owner' = owner /\ live' = live /\ faults' = faults
    BY DEF Record, devVars, linkVars, thrVars, histVars
  <1>v. PICK v \in Sessions : v = io.via /\ io.pc = "record" /\ Persisting(v)
    BY <1>i, Constants DEF Record, Parts, TypeOK, Ios, FramesTrue, Persisting
  <1>o. /\ mem[v].state \in Active /\ db.summary[v].state \notin Terminal
        /\ (Periodic(v) => ~Over(v))
        /\ IF Periodic(v) THEN pc[v] \in {"started", "done"} ELSE pc[v] = "wait"
    BY <1>i, <1>v, PersistingIsOpen
  <1>f. io.frame.cap \in Captures /\ io.res \in Resolutions /\ mem \in [Sessions -> Objects]
    BY <1>i, <1>v, FrameType DEF Parts, TypeOK, Ios, FramesTrue, InHand
  <1>c. PICK o \in Objects : o = Counted(mem[v], io.frame.cap, io.res) /\ o.state = mem[v].state /\ o.stop = mem[v].stop /\ o.count = mem[v].count + 1
    BY <1>f, CountedIs
  <1>d. /\ io' \in Ios /\ io'.pc = "confirm" /\ io'.boot = io.boot
        /\ io'.op = io.op /\ io'.sess = io.sess /\ io'.frame = io.frame /\ io'.via = io.via
    BY <1>i DEF Record, Parts, TypeOK, Ios
  <1>m. /\ mem' \in [Sessions -> Objects] /\ mem'[v] = o /\ \A r \in Sessions : r # v => mem'[r] = mem[r]
    BY <1>v, <1>f, <1>c DEF Record
  <1>s. /\ StoreInv' /\ db' \in Databases /\ db'.policy = db.policy
        /\ db'.summary[v].state = o.state
        /\ \A r \in Sessions : r # v => db'.summary[r] = db.summary[r]
    <2>1. db' = SaveSummary(db, v, Payload(o))
      BY <1>v, <1>c DEF Record
    <2>2. o.state \notin Terminal
      BY <1>c, <1>o DEF Active, Terminal
    <2>3. QED
      BY <1>i, <1>u, <1>o, <1>d, <2>1, <2>2, SummarySaved
  <1>k. \A r : Asked(r)' = Asked(r) /\ NumberAsked(r)' = NumberAsked(r)
    BY <1>u DEF Asked, NumberAsked
  <1>T. TypeOK'
    BY <1>i, <1>u, <1>v, <1>o, <1>f, <1>c, <1>d, <1>m, <1>s, <1>k DEF Parts, TypeOK
  <1>S. StoreInv'
    BY <1>s
  <1>F. FramesTrue'
    BY <1>i, <1>u, <1>v, <1>d DEF Parts, FramesTrue, InHand
  <1>L. LinksTrue'
    BY <1>i, <1>u, <1>v, <1>o, <1>f, <1>c, <1>d, <1>m, <1>s, <1>k DEF Parts, LinksTrue
  <1>N. NamesKnown'
    BY <1>i, <1>u, <1>s, NamesKept
  <1>W. Waits'
    <2>1. \A r \in Sessions : Periodic(r)' <=> Periodic(r)
      BY <1>u DEF Periodic
    <2>2. QED
      BY <1>i, <1>u, <1>d, <2>1, WaitsKept
  <1>V. ViaTrue'
    BY <1>i, <1>u, <1>v, <1>o, <1>f, <1>c, <1>d, <1>m, <1>s, <1>k DEF Parts, ViaTrue, Periodic
  <1>P. ScheduleTrue'
    BY <1>i, <1>u, <1>v, <1>o, <1>f, <1>c, <1>d, <1>m, <1>s, <1>k DEF Parts, ScheduleTrue, Periodic
  <1>r. ASSUME NEW r \in Sessions
        PROVE  LifeOf(r)' /\ RowOf(r)' /\ OverIsQuiet(r)' /\ NotBefore(r)' /\ CountTrue(r)'
    <2>h. /\ LifeOf(r) /\ RowOf(r) /\ OverIsQuiet(r) /\ NotBefore(r) /\ CountTrue(r)
          /\ NumberAsked(r) \in Nat /\ mem[r].count \in Nat
      BY <1>i, Numbers DEF EachSession
    <2>k. Asked(r)' = Asked(r) /\ NumberAsked(r)' = NumberAsked(r)
      BY <1>k
    <2>m. mem'[r].state = mem[r].state /\ mem'[r].stop = mem[r].stop
      BY <1>c, <1>m
    <2>A. LifeOf(r)'
      <3>1. CASE r = v
        BY <2>h, <1>u, <1>o, <2>m, <3>1 DEF LifeOf, Periodic
      <3>2. CASE r # v
        BY <2>h, <1>u, <1>m, <3>2 DEF LifeOf, Periodic
      <3>3. QED
        BY <3>1, <3>2
    <2>R. RowOf(r)'
      <3>1. CASE r = v
        BY <2>h, <1>u, <1>o, <1>c, <1>s, <2>m, <3>1 DEF RowOf, Periodic, Active, Terminal
      <3>2. CASE r # v
        BY <2>h, <1>u, <1>s, <2>m, <3>2 DEF RowOf, Periodic
      <3>3. QED
        BY <3>1, <3>2
    <2>O. OverIsQuiet(r)'
      <3>1. CASE r = v
        BY <2>h, <1>u, <1>v, <1>o, <1>d, <2>m, <3>1 DEF OverIsQuiet, Over, Periodic
      <3>2. CASE r # v
        BY <2>h, <1>u, <1>v, <1>d, <2>m, <3>2 DEF OverIsQuiet, Over, Quiet, Persisting, Periodic
      <3>3. QED
        BY <3>1, <3>2
    <2>B. NotBefore(r)'
      BY <1>i, <2>h, <1>u, <1>v, <1>o, <1>f, <1>c, <1>d, <1>m, <1>s, <2>k, <2>m, Constants
         DEF NotBefore, Periodic
    <2>C. CountTrue(r)'
      <3>1. CASE r = v
        <4>1. Pending(r) /\ ~Pending(r)'
          BY <1>v, <1>d, <3>1 DEF Pending, Persisting
        <4>2. mem'[r].count = mem[r].count + 1
          BY <1>c, <1>m, <3>1
        <4>3. QED
          BY <2>h, <1>u, <2>k, <2>m, <4>1, <4>2 DEF CountTrue, Periodic
      <3>2. CASE r # v
        <4>1. Pending(r)' => Pending(r)
          BY <1>u, <1>v, <1>d, <3>2 DEF Pending, Persisting
        <4>2. mem'[r].count = mem[r].count
          BY <1>m, <3>2
        <4>3. QED
          BY <2>h, <1>u, <2>k, <2>m, <4>1, <4>2 DEF CountTrue, Periodic
      <3>3. QED
        BY <3>1, <3>2
    <2>q. QED
      BY <2>A, <2>R, <2>O, <2>B, <2>C
  <1>q. QED
    BY <1>T, <1>S, <1>F, <1>L, <1>N, <1>W, <1>V, <1>P, <1>r DEF SessionInv, ThreadInv, QuietInv

LEMMA ReplayStep ==
    ASSUME SessionInv, Replay
    PROVE  SessionInv'
  <1>i. Parts /\ EachSession
    BY PartsOf
  <1>u. /\ taken' = taken /\ sched' = sched /\ fired' = fired /\ spool' = spool /\ boot' = boot
        /\ link' = link /\ stuck' = stuck /\ plan' = plan /\ pc' = pc /\ wpc' = wpc
        /\ spc' = spc /\ mem' = mem /\ listed' = listed /\ slock' = slock /\ handler' = handler
        /\ io' = io /\ asker' = asker /\ live' = live /\ faults' = faults
    BY DEF Replay, devVars, linkVars, thrVars, histVars
  <1>c. /\ acc = "replay" /\ acc' = "receipt" /\ spool # NoFrame
    BY <1>i DEF Replay, Parts, LinksTrue
  <1>f. spool \in AllFrames /\ spool.cap = taken /\ spool.req = asker[taken] /\ spool.boot \in Boots
    BY <1>i, <1>c, FrameType DEF Parts, TypeOK, FramesTrue
  <1>w. PICK w \in Sessions \cup {0} : w = db.policy[spool.boot].session /\ Known(w)
    BY <1>i, <1>f, PolicyType DEF Parts, TypeOK, NamesKnown
  <1>l. owner' = Decider(spool, w) /\ Decider(spool, w) = NextOwner(db, owner, spool, w)
    BY <1>w DEF Replay, Decider, NextOwner
  <1>g. Delivered(db, db', owner, owner', asker, Saves, live', spool)
    <2>1. CanReplay(db, spool) /\ db' = CommitReplayed(db, spool)
      BY DEF Replay
    <2>2. Arrived(db, owner, asker, Saves, live, spool)
      BY <1>i, <1>f, FrameArrived, ZenonT(20)
    <2>3. QED
      BY <1>u, <1>w, <1>l, <2>1, <2>2, ReplayGood
  <1>s. /\ StoreGood(db', owner', asker', Saves', live') /\ db' \in Databases
        /\ owner' \in [Captures -> Sessions \cup {0}]
        /\ \A r \in Sessions : db'.summary[r].state = db.summary[r].state
        /\ owner'[taken] # 0
        /\ \A c \in Captures : owner'[c] # 0 => asker[c] # 0
        /\ NamesKnown'
    BY <1>i, <1>u, <1>f, <1>w, <1>l, <1>g, DecisionKeeps
  <1>k. \A r : Asked(r)' = Asked(r) /\ NumberAsked(r)' = NumberAsked(r)
    BY <1>u DEF Asked, NumberAsked
  <1>T. TypeOK'
    BY <1>i, <1>u, <1>c, <1>s DEF Parts, TypeOK
  <1>S. StoreInv'
    <2>1. io.frame # NoFrame => io.frame.cap = taken
      BY <1>i DEF Parts, FramesTrue
    <2>2. io.pc = "commit" => owner'[io.frame.cap] # 0
      BY <1>i, <1>s, <2>1 DEF Parts, FramesTrue, InHand
    <2>3. QED
      BY <1>u, <1>s, <2>2 DEF StoreInv
  <1>F. FramesTrue'
    BY <1>i, <1>u, <1>s DEF Parts, FramesTrue, InHand
  <1>L. LinksTrue'
    BY <1>i, <1>u, <1>c, <1>f, <1>w, <1>l, <1>g, <1>s, <1>k DEF Parts, LinksTrue
  <1>N. NamesKnown'
    BY <1>s
  <1>W. Waits'
    <2>1. \A r \in Sessions : Periodic(r)' <=> Periodic(r)
      BY <1>u DEF Periodic
    <2>2. QED
      BY <1>i, <1>u, <1>c, <2>1, WaitsKept
  <1>V. ViaTrue'
    BY <1>i, <1>u, <1>c, <1>f, <1>w, <1>l, <1>g, <1>s, <1>k DEF Parts, ViaTrue, Periodic
  <1>P. ScheduleTrue'
    BY <1>i, <1>u, <1>c, <1>f, <1>w, <1>l, <1>g, <1>s, <1>k DEF Parts, ScheduleTrue, Periodic
  <1>r. ASSUME NEW r \in Sessions
        PROVE  LifeOf(r)' /\ RowOf(r)' /\ OverIsQuiet(r)' /\ NotBefore(r)' /\ CountTrue(r)'
    <2>h. /\ LifeOf(r) /\ RowOf(r) /\ OverIsQuiet(r) /\ NotBefore(r) /\ CountTrue(r)
          /\ NumberAsked(r) \in Nat /\ mem[r].count \in Nat
      BY <1>i, Numbers DEF EachSession
    <2>k. Asked(r)' = Asked(r) /\ NumberAsked(r)' = NumberAsked(r)
      BY <1>k
    <2>A. LifeOf(r)'
      BY <1>i, <2>h, <1>u, <1>c, <1>f, <1>w, <1>l, <1>g, <1>s, <2>k DEF LifeOf, Periodic, Active
    <2>R. RowOf(r)'
      BY <1>i, <2>h, <1>u, <1>c, <1>f, <1>w, <1>l, <1>g, <1>s, <2>k
         DEF RowOf, Periodic, Active, Terminal
    <2>O. OverIsQuiet(r)'
      BY <1>i, <2>h, <1>u, <1>c, <1>f, <1>w, <1>l, <1>g, <1>s, <2>k, NoFrameIsNone, Constants
         DEF OverIsQuiet, Over, Quiet, Persisting, Periodic
    <2>B. NotBefore(r)'
      BY <1>i, <2>h, <1>u, <1>c, <1>f, <1>w, <1>l, <1>g, <1>s, <2>k, Constants
         DEF NotBefore, Periodic
    <2>C. CountTrue(r)'
      BY <1>i, <2>h, <1>u, <1>c, <1>f, <1>w, <1>l, <1>g, <1>s, <2>k, NoFrameIsNone, Constants
         DEF CountTrue, Pending, Persisting, Periodic
    <2>q. QED
      BY <2>A, <2>R, <2>O, <2>B, <2>C
  <1>q. QED
    BY <1>T, <1>S, <1>F, <1>L, <1>N, <1>W, <1>V, <1>P, <1>r DEF SessionInv, ThreadInv, QuietInv

LEMMA Stutter ==
    ASSUME SessionInv, UNCHANGED vars
    PROVE  SessionInv'
  <1>i. Parts /\ EachSession
    BY PartsOf
  <1>u. /\ db' = db /\ taken' = taken /\ sched' = sched /\ fired' = fired /\ spool' = spool
        /\ boot' = boot /\ acc' = acc /\ link' = link /\ stuck' = stuck /\ plan' = plan
        /\ pc' = pc /\ wpc' = wpc /\ spc' = spc /\ mem' = mem /\ listed' = listed
        /\ slock' = slock /\ handler' = handler /\ io' = io /\ asker' = asker /\ owner' = owner
        /\ live' = live /\ faults' = faults
    BY DEF vars, devVars, linkVars, thrVars, histVars
  <1>k. \A r : Asked(r)' = Asked(r) /\ NumberAsked(r)' = NumberAsked(r)
    BY <1>u DEF Asked, NumberAsked
  <1>T. TypeOK'
    BY <1>i, <1>u DEF Parts, TypeOK
  <1>S. StoreInv'
    BY <1>i, <1>u, <1>k DEF Parts, StoreInv, Saves, OwnerIsAsker
  <1>F. FramesTrue'
    BY <1>i, <1>u, <1>k DEF Parts, FramesTrue, InHand
  <1>L. LinksTrue'
    BY <1>i, <1>u, <1>k DEF Parts, LinksTrue
  <1>N. NamesKnown'
    BY <1>i, <1>u, <1>k DEF Parts, NamesKnown, Known
  <1>W. Waits'
    BY <1>i, <1>u, <1>k DEF Parts, Waits, Periodic
  <1>V. ViaTrue'
    BY <1>i, <1>u, <1>k DEF Parts, ViaTrue, Periodic
  <1>P. ScheduleTrue'
    BY <1>i, <1>u, <1>k DEF Parts, ScheduleTrue, Periodic
  <1>r. ASSUME NEW r \in Sessions
        PROVE  LifeOf(r)' /\ RowOf(r)' /\ OverIsQuiet(r)' /\ NotBefore(r)' /\ CountTrue(r)'
    <2>h. /\ LifeOf(r) /\ RowOf(r) /\ OverIsQuiet(r) /\ NotBefore(r) /\ CountTrue(r)
          /\ NumberAsked(r) \in Nat /\ mem[r].count \in Nat
      BY <1>i, Numbers DEF EachSession
    <2>k. Asked(r)' = Asked(r) /\ NumberAsked(r)' = NumberAsked(r)
      BY <1>k
    <2>A. LifeOf(r)'
      BY <1>i, <2>h, <1>u, <2>k DEF LifeOf, Periodic, Active
    <2>R. RowOf(r)'
      BY <1>i, <2>h, <1>u, <2>k DEF RowOf, Periodic, Active, Terminal
    <2>O. OverIsQuiet(r)'
      BY <1>i, <2>h, <1>u, <2>k, NoFrameIsNone, Constants
         DEF OverIsQuiet, Over, Quiet, Persisting, Periodic
    <2>B. NotBefore(r)'
      BY <1>i, <2>h, <1>u, <2>k, Constants DEF NotBefore, Periodic
    <2>C. CountTrue(r)'
      BY <1>i, <2>h, <1>u, <2>k, NoFrameIsNone, Constants
         DEF CountTrue, Pending, Persisting, Periodic
    <2>q. QED
      BY <2>A, <2>R, <2>O, <2>B, <2>C
  <1>q. QED
    BY <1>T, <1>S, <1>F, <1>L, <1>N, <1>W, <1>V, <1>P, <1>r DEF SessionInv, ThreadInv, QuietInv


LEMMA InitGood ==
    ASSUME Init
    PROVE  SessionInv
  <1>1. /\ db = EmptyStore /\ taken = 0 /\ sched = 0 /\ fired = 0 /\ spool = NoFrame
        /\ acc = "idle" /\ link = "up" /\ listed = {} /\ slock = 0 /\ handler = 0 /\ io = NoIo
        /\ owner = [c \in Captures |-> 0] /\ asker = [c \in Captures |-> 0] /\ live = {}
    BY DEF Init
  <1>2. \A s \in Sessions :
          /\ plan[s] = NoPlan /\ pc[s] = "new" /\ wpc[s] = "none" /\ spc[s] = "none"
          /\ mem[s] = NoObject /\ mem[s].state = "NONE" /\ mem[s].stop = FALSE
    BY DEF Init, NoObject
  <1>3. /\ io \in Ios /\ io.op = "QUERY" /\ io.sess = 0 /\ io.pc = "free" /\ io.frame = NoFrame
        /\ io.via = 0
    BY <1>1 DEF NoIo, Ios, Ops, Resolutions
  <1>4. StoreGood(db, owner, asker, Saves, live)
    BY <1>1, EmptyGood
  <1>5. StoreInv
    BY <1>3, <1>4 DEF StoreInv
  <1>6. db \in Databases
    BY <1>4 DEF StoreGood, TablesGood
  <1>7. db.summary = [s \in Sessions |-> NoSummary] /\ db.policy = [b \in Boots |-> NoPolicy]
    BY <1>1 DEF EmptyStore
  <1>8. TypeOK
    <2>1. plan \in [Sessions -> Plans] /\ mem \in [Sessions -> Objects]
      BY DEF Init, NoPlan, Plans, NoObject, Objects, SavePolicies
    <2>2. pc \in [Sessions -> ThreadPcs] /\ wpc \in [Sessions -> WorkerPcs] /\ spc \in [Sessions -> StopPcs]
      BY DEF Init, ThreadPcs, WorkerPcs, StopPcs
    <2>3. boot \in Boots
      BY SessionConstants DEF Init
    <2>4. stuck \in BOOLEAN /\ faults \in Nat
      BY DEF Init
    <2>5. asker \in [Captures -> Sessions \cup {0}] /\ owner \in [Captures -> Sessions \cup {0}]
      BY <1>1
    <2>6. /\ taken \in Nat /\ sched \in Sessions \cup {0} /\ fired \in Nat /\ spool \in AllFrames \cup {NoFrame}
          /\ acc \in {"idle", "replay", "receipt", "ready"} /\ link \in {"up", "dead", "down"}
          /\ listed \subseteq Sessions /\ slock \in Sessions \cup {0} /\ handler \in Sessions \cup {0}
          /\ live \subseteq Captures
      BY <1>1
    <2>7. QED
      BY <1>3, <1>6, <2>1, <2>2, <2>3, <2>4, <2>5, <2>6 DEF TypeOK
  <1>9. FramesTrue
    BY <1>1, <1>3 DEF FramesTrue, InHand
  <1>10. LinksTrue
    BY <1>1, <1>3 DEF LinksTrue
  <1>11. NamesKnown
    BY <1>1, <1>7 DEF NamesKnown, Known, NoPolicy
  <1>12. Waits /\ ViaTrue
    BY <1>1, <1>2, <1>3 DEF Waits, ViaTrue
  <1>13. \A s \in Sessions : Asked(s) = {} /\ NumberAsked(s) = 0 /\ ~Periodic(s)
    <2>1. \A s \in Sessions : Asked(s) = {} /\ ~Periodic(s)
      BY <1>1, <1>2, Constants DEF Asked, Periodic, NoPlan
    <2>2. QED
      BY <2>1, FS_EmptySet DEF NumberAsked
  <1>14. ScheduleTrue
    BY <1>1, <1>13 DEF ScheduleTrue
  <1>15. \A s \in Sessions : LifeOf(s)
    BY <1>1, <1>2 DEF LifeOf, Active
  <1>16. \A s \in Sessions : RowOf(s)
    BY <1>2, <1>7 DEF RowOf, NoSummary, Active, Terminal
  <1>17. \A s \in Sessions : OverIsQuiet(s) /\ NotBefore(s) /\ CountTrue(s)
    BY <1>13 DEF OverIsQuiet, NotBefore, CountTrue
  <1>18. QED
    BY <1>5, <1>8, <1>9, <1>10, <1>11, <1>12, <1>14, <1>15, <1>16, <1>17
       DEF SessionInv, ThreadInv, QuietInv


-----------------------------------------------------------------------------
(* All together. *)

LEMMA IoStep ==
    ASSUME SessionInv, Io
    PROVE  SessionInv'
  <1>1. CASE IoFails
    BY <1>1, IoFailsStep
  <1>2. CASE BlockedIo
    BY <1>2, BlockedIoStep
  <1>3. CASE Declined
    BY <1>3, DeclinedStep
  <1>4. CASE Execute
    <2>1. io.op = "START" \/ io.op = "ONCE"
      BY <1>4 DEF Execute
    <2>2. QED
      BY <1>4, <2>1, ExecuteStartStep, ExecuteOnceStep
  <1>5. CASE Reply
    <2>1. io.pc = "sent" \/ io.pc = "answered"
      BY <1>5 DEF Reply
    <2>2. QED
      BY <1>5, <2>1, ReplySent, ReplyAnswered
  <1>6. CASE TakeIn
    BY <1>6, TakeInStep
  <1>7. CASE Stage
    BY <1>7, StageStep
  <1>8. CASE Commit
    BY <1>8, CommitReplay, CommitOwn
  <1>9. CASE Record
    BY <1>9, RecordStep
  <1>10. CASE Confirm
    BY <1>10, ConfirmEnds, ConfirmGoesOn
  <1>11. QED
    BY <1>1, <1>2, <1>3, <1>4, <1>5, <1>6, <1>7, <1>8, <1>9, <1>10 DEF Io

LEMMA WorkerStep ==
    ASSUME SessionInv, NEW s \in Sessions, Worker(s)
    PROVE  SessionInv'
  <1>1. CASE WorkerTop(s)
    BY <1>1, WorkerTopStep
  <1>2. CASE WorkerIo(s)
    <2>1. wpc[s] = "renew" \/ wpc[s] = "poll" \/ wpc[s] = "abort"
      BY <1>2 DEF WorkerIo
    <2>2. QED
      BY <1>2, <2>1, WorkerRenewStep, WorkerPollStep, WorkerAbortStep
  <1>3. CASE WorkerTail(s)
    BY <1>3, WorkerTailStep
  <1>4. CASE WorkerError(s)
    BY <1>4, WorkerErrorStep
  <1>5. CASE WorkerAborted(s)
    BY <1>5, WorkerAbortedStep
  <1>6. CASE WorkerExit(s)
    BY <1>6, WorkerExitStep
  <1>7. QED
    BY <1>1, <1>2, <1>3, <1>4, <1>5, <1>6 DEF Worker

LEMMA ThreadStep ==
    ASSUME SessionInv, NEW s \in Sessions, Threads(s) \/ Requests(s)
    PROVE  SessionInv'
  <1>1. CASE StartRegister(s)
    BY <1>1, StartRegisterFails, StartRegisterStep
  <1>2. CASE StartIo(s) \/ StartCleanup(s) \/ StartSave(s)
    BY <1>2, StartIoStep, StartCleanupStep, StartSaveStep
  <1>3. CASE OnceRegister(s)
    BY <1>3, OnceRegisterFails, OnceRegisterStep
  <1>4. CASE OnceSave(s) \/ OnceActivity(s) \/ OnceIo(s) \/ OnceEnd(s)
    BY <1>4, OnceSaveStep, OnceActivityStep, OnceIoStep, OnceEndStep
  <1>5. CASE Worker(s)
    BY <1>5, WorkerStep
  <1>6. CASE StopIo(s) \/ StopEnd(s) \/ StopClear(s) \/ Reconcile(s)
    BY <1>6, StopIoStep, StopEndStep, StopClearStep, ReconcileStep
  <1>7. CASE StopBegin(s)
    BY <1>7, StopBeginStep
  <1>8. CASE \E m \in Menu : StartPeriodic(s, m) \/ OnceCheck(s, m)
    <2>1. PICK m \in Menu : StartPeriodic(s, m) \/ OnceCheck(s, m)
      BY <1>8
    <2>2. QED
      BY <2>1, StartPeriodicStep, OnceCheckStep
  <1>9. QED
    BY <1>1, <1>2, <1>3, <1>4, <1>5, <1>6, <1>7, <1>8 DEF Threads, Requests

\* The tables, the threads and the quiet end of every session, in every
\* reachable state of the core: the invariant of the module above.
THEOREM SessionInvariant == Spec => []SessionInv
  <1>1. Init => SessionInv
    BY InitGood
  <1>2. SessionInv /\ [Next]_vars => SessionInv'
    <2> SUFFICES ASSUME SessionInv, [Next]_vars PROVE SessionInv'
      OBVIOUS
    <2>1. CASE Environment
      BY <2>1, PeriodicCaptureStep, ScheduleEndsStep, BridgeLostStep DEF Environment
    <2>2. CASE Acceptor
      BY <2>2, ConnectStep, ReplayStep, ReplayReceiptStep, PublishStep DEF Acceptor
    <2>3. CASE Io
      BY <2>3, IoStep
    <2>4. CASE Query
      BY <2>4, QueryStep
    <2>5. CASE CoreCrash
      BY <2>5, CoreCrashStep
    <2>6. CASE \E s \in Sessions : Threads(s) \/ Requests(s)
      <3>1. PICK s \in Sessions : Threads(s) \/ Requests(s)
        BY <2>6
      <3>2. QED
        BY <3>1, ThreadStep
    <2>7. CASE UNCHANGED vars
      BY <2>7, Stutter
    <2>8. QED
      BY <2>1, <2>2, <2>3, <2>4, <2>5, <2>6, <2>7 DEF Next
  <1>3. QED
    BY <1>1, <1>2, PTL DEF Spec

-----------------------------------------------------------------------------
(* What the invariant says of the sessions' promises. *)

LEMMA SessionTables ==
    ASSUME SessionInv, NEW s \in Sessions
    PROVE  /\ db \in Databases /\ owner \in Owners /\ RowsGood(db, owner)
           /\ StatsGood(db, owner, s) /\ SummaryGood(db, owner, s)
           /\ AllOrNone(db, owner, Saves, s) /\ LatestGood(db, owner, Saves, s)
           /\ Saves[s] = plan[s].save
           /\ Owned(s) = Own(owner, s) /\ Filed(s) = Fil(db, s)
  <1>1. StoreGood(db, owner, asker, Saves, live) /\ owner \in Owners /\ Saves[s] = plan[s].save
    BY PartsOf, SavesType
  <1>2. QED
    BY <1>1 DEF StoreGood, TablesGood, SessionGood, OpenGood, Owned, Own, Filed, Fil

LEMMA MaxIs ==
    ASSUME NEW S \in SUBSET Nat, NEW m \in S, \A c \in S : c <= m
    PROVE  Max(S) = m
  <1>1. \A c \in S : m >= c
    OBVIOUS
  <1>2. Max(S) \in S /\ \A c \in S : Max(S) >= c
    BY <1>1 DEF Max
  <1>3. PICK x : x = Max(S)
    OBVIOUS
  <1>4. x \in Nat /\ m \in Nat /\ x >= m /\ m >= x
    BY <1>1, <1>2, <1>3
  <1>5. QED
    BY <1>3, <1>4

LEMMA CountsFollow ==
    ASSUME SessionInv, NEW s \in Sessions, Closed(s)
    PROVE  /\ db.summary[s].acquired = Cardinality(Owned(s))
           /\ db.summary[s].saved = Cardinality(Filed(s))
           /\ db.summary[s].discarded = Cardinality(Owned(s) \ Filed(s))
           /\ Owned(s) # {} => db.summary[s].last = Max(Owned(s))
           /\ db.summary[s].lastSaved = IF Filed(s) = {} THEN 0 ELSE Max(Filed(s))
  <1> DEFINE O == Own(owner, s)
             F == Fil(db, s)
             R == RowsOf(db, s)
  <1>0. /\ db \in Databases /\ owner \in Owners /\ RowsGood(db, owner)
        /\ StatsGood(db, owner, s) /\ SummaryGood(db, owner, s)
        /\ Owned(s) = O /\ Filed(s) = F
    BY SessionTables
  <1>1. /\ IsFiniteSet(O) /\ db.stats[s].acquired = Cardinality(O)
        /\ O # {} => db.stats[s].last \in O /\ \A c \in O : c <= db.stats[s].last
    BY <1>0 DEF StatsGood
  <1>2. /\ IsFiniteSet(F) /\ F \subseteq O /\ Cardinality(R) = Cardinality(F)
    BY <1>0, <1>1, RowsCounted
  <1>3. /\ db.summary[s].acquired = db.stats[s].acquired
        /\ db.summary[s].saved = Cardinality(R)
        /\ db.summary[s].discarded = db.stats[s].acquired - Cardinality(R)
        /\ O # {} => db.summary[s].last = db.stats[s].last
        /\ db.summary[s].lastSaved = IF R = {} THEN 0 ELSE LastRow(R).cap
    BY <1>0 DEF SummaryGood, Closed
  <1>4. O \subseteq Nat
    BY Constants DEF Own
  <1>5. Cardinality(O \ F) = Cardinality(O) - Cardinality(F)
    <2>1. O \cap F = F
      BY <1>2
    <2>2. QED
      BY <1>1, <2>1, FS_Difference
  <1>6. O # {} => db.summary[s].last = Max(O)
    <2> SUFFICES ASSUME O # {} PROVE db.summary[s].last = Max(O)
      OBVIOUS
    <2>1. db.stats[s].last \in O /\ \A c \in O : c <= db.stats[s].last
      BY <1>1
    <2> HIDE DEF O
    <2>2. Max(O) = db.stats[s].last
      BY <1>4, <2>1, MaxIs
    <2>3. QED
      BY <1>3, <2>2
  <1>7. db.summary[s].lastSaved = IF F = {} THEN 0 ELSE Max(F)
    <2>1. R = {} <=> F = {}
      BY DEF Fil
    <2>2. CASE R = {}
      BY <1>3, <2>1, <2>2
    <2>3. CASE R # {}
      <3>1. LastRow(R) \in R /\ \A c \in F : c <= LastRow(R).cap
        BY <1>0, <2>3, LastRowIs
      <3>2. LastRow(R).cap \in F /\ F \in SUBSET Nat
        BY <1>2, <1>4, <3>1 DEF Fil
      <3> HIDE DEF F, R
      <3>3. Max(F) = LastRow(R).cap
        BY <3>1, <3>2, MaxIs
      <3>4. QED
        BY <1>3, <2>1, <2>3, <3>3
    <2>4. QED
      BY <2>2, <2>3
  <1>8. QED
    BY <1>0, <1>1, <1>2, <1>3, <1>5, <1>6, <1>7

\* TerminalCounts: the summary of a closed session agrees with the captures
\* decided for it and with the archive, whatever order polls, replays, ends and
\* crashes came in.
THEOREM TerminalCountsAlways == Spec => []TerminalCounts
  <1>1. SessionInv => TerminalCounts
    BY CountsFollow DEF TerminalCounts
  <1>2. QED
    BY <1>1, SessionInvariant, PTL

\* SavePolicyKept: the archive holds all, none or exactly the newest of a
\* session's captures, as commit_delivery and _commit_terminal_replay decide.
THEOREM SavePolicyKeptAlways == Spec => []SavePolicyKept
  <1>1. SessionInv => SavePolicyKept
    <2> SUFFICES ASSUME SessionInv, NEW s \in Sessions
                 PROVE  CASE plan[s].save = "SAVE_ALL" -> Filed(s) = Owned(s)
                          [] plan[s].save = "SAVE_NONE" -> Filed(s) = {}
                          [] plan[s].save = "SAVE_LAST" ->
                               (Closed(s) /\ Owned(s) # {} => Filed(s) = {Max(Owned(s))})
      BY DEF SavePolicyKept
    <2>1. /\ db \in Databases /\ StatsGood(db, owner, s) /\ Saves[s] = plan[s].save
          /\ AllOrNone(db, owner, Saves, s) /\ LatestGood(db, owner, Saves, s)
          /\ Owned(s) = Own(owner, s) /\ Filed(s) = Fil(db, s)
      BY SessionTables
    <2>2. plan[s].save \in {"SAVE_ALL", "SAVE_NONE", "SAVE_LAST"}
      BY PartsOf DEF Parts, TypeOK, Plans, SavePolicies
    <2>3. CASE plan[s].save = "SAVE_ALL"
      BY <2>1, <2>3 DEF AllOrNone
    <2>4. CASE plan[s].save = "SAVE_NONE"
      BY <2>1, <2>4 DEF AllOrNone
    <2>5. CASE plan[s].save = "SAVE_LAST"
      <3> SUFFICES ASSUME Closed(s), Owned(s) # {} PROVE Filed(s) = {Max(Owned(s))}
        BY <2>5
      <3>1. PICK m : m = db.stats[s].last
        OBVIOUS
      <3>2. m \in Owned(s) /\ \A c \in Owned(s) : c <= m
        BY <2>1, <3>1 DEF StatsGood
      <3>3. Owned(s) \in SUBSET Nat
        BY Constants DEF Owned
      <3>4. Max(Owned(s)) = m
        BY <3>2, <3>3, MaxIs
      <3>5. Filed(s) = {m}
        BY <2>1, <2>5, <3>1 DEF LatestGood, Settled, Closed
      <3>6. QED
        BY <3>4, <3>5
    <2>6. QED
      BY <2>2, <2>3, <2>4, <2>5
  <1>2. QED
    BY <1>1, SessionInvariant, PTL

\* PlanKept: a capture that a session decided itself is archived with the
\* configuration staged for its request, however late the row is written.
THEOREM PlanKeptAlways == Spec => []PlanKept
  <1>1. SessionInv => PlanKept
    <2>1. SessionInv => PlansGood(db, owner, asker, live)
      BY PartsOf DEF Parts, StoreInv, StoreGood, TablesGood
    <2>2. QED
      BY <2>1 DEF PlansGood, PlanKept, OwnerIsAsker, AsAsked
  <1>2. QED
    BY <1>1, SessionInvariant, PTL

\* NoSessionLeftActive: whatever is RUNNING or STOPPING in the database or in
\* _sessions has a thread, or the reconciliation of the next start, to end it.
THEOREM NoSessionLeftActiveAlways == Spec => []NoSessionLeftActive
  <1>1. SessionInv => NoSessionLeftActive
    <2> SUFFICES ASSUME SessionInv PROVE NoSessionLeftActive
      OBVIOUS
    <2>1. EachSession /\ listed \subseteq Sessions
      BY PartsOf DEF Parts, TypeOK
    <2>2. ASSUME NEW s \in Sessions, s \in listed, mem[s].state \in Active
          PROVE  wpc[s] \notin {"none", "done"} \/ spc[s] \notin {"none", "done"}
      BY <2>1, <2>2 DEF EachSession, LifeOf
    <2>3. ASSUME NEW s \in Sessions, db.summary[s].state \in Active
          PROVE  Working(s)
      <3>1. pc[s] = "cut" \/ mem[s].state \in Active
        BY <2>1, <2>3 DEF EachSession, RowOf
      <3>2. pc[s] \notin {"new", "done"} \/ (s \in listed /\ mem[s].state \in Active)
        BY <2>1, <3>1 DEF EachSession, LifeOf
      <3>3. QED
        BY <2>2, <3>2 DEF Working
    <2>4. QED
      BY <2>1, <2>2, <2>3 DEF NoSessionLeftActive
  <1>2. QED
    BY <1>1, SessionInvariant, PTL
=============================================================================
