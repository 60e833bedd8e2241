----------------------------- MODULE CoreStore -----------------------------
(***************************************************************************)
(* The capture database of the core, core_store.py: one operator per        *)
(* transaction, from a database to the next one.                            *)
(*                                                                          *)
(* A frame is a record [cap, req, boot]: the capture, the session whose     *)
(* request led to it (its request_id, the same for every capture of a       *)
(* schedule) and the boot session it was taken in.  A row of the archive    *)
(* says whether it was filed with the configuration and run plan staged     *)
(* for its request or with empty ones; its id is its place in the table.    *)
(***************************************************************************)
EXTENDS Integers, Sequences, FiniteSets, FiniteSetsExt

CONSTANTS
    Sessions,       \* session ids, numbered from 1
    Captures,       \* capture ids, numbered from 1 in the order they are taken
    Boots,          \* boot sessions, numbered from 1
    TombLimit       \* _prune_resolutions keeps 4096

ASSUME StoreConstants ==
    /\ Sessions \subseteq Nat \ {0}
    /\ Captures \subseteq Nat \ {0}
    /\ Boots \subseteq Nat \ {0}
    /\ TombLimit \in Nat \ {0}

SavePolicies == {"SAVE_NONE", "SAVE_ALL", "SAVE_LAST"}
Resolutions  == {"RAW_ARCHIVED", "ROLLING_LATEST", "DISCARDED_BY_POLICY"}
Active       == {"RUNNING", "STOPPING"}
Terminal     == {"COMPLETED", "STOPPED", "FAILED", "INTERRUPTED"}

AllFrames == [cap : Captures, req : Sessions, boot : Boots]
NoFrame   == [cap |-> 0, req |-> 0, boot |-> 0]
NoPolicy  == [session |-> 0, save |-> "SAVE_NONE"]

\* acquisition_sessions: the summary of a session; "NONE" for no row.
Summaries == [state : {"NONE"} \cup Active \cup Terminal,
              acquired : Nat, saved : Nat, discarded : Nat, last : Nat, lastSaved : Nat]
NoSummary == [state |-> "NONE", acquired |-> 0, saved |-> 0, discarded |-> 0,
              last |-> 0, lastSaved |-> 0]

Rows  == [id : Nat, cap : Captures, session : Sessions, plan : BOOLEAN]
Tombs == [cap : Captures, res : Resolutions, session : Sessions]

Databases ==
    [archive : SUBSET Rows, lastId : Nat,
     rolling : [Sessions -> AllFrames \cup {NoFrame}],
     tombs   : Seq(Tombs),
     policy  : [Boots -> [session : Sessions \cup {0}, save : SavePolicies]],
     stats   : [Sessions -> [acquired : Nat, last : Nat]],
     summary : [Sessions -> Summaries],
     staged  : SUBSET Sessions]

EmptyStore ==
    [archive |-> {}, lastId |-> 0, rolling |-> [s \in Sessions |-> NoFrame], tombs |-> <<>>,
     policy |-> [b \in Boots |-> NoPolicy],
     stats |-> [s \in Sessions |-> [acquired |-> 0, last |-> 0]],
     summary |-> [s \in Sessions |-> NoSummary], staged |-> {}]

-----------------------------------------------------------------------------
(* Delivery policies and staged configurations. *)

RegisterPolicy(db, b, s, save) == [db EXCEPT !.policy[b] = [session |-> s, save |-> save]]

\* Only the row that still belongs to session s.
UnregisterPolicy(db, b, s) ==
    IF db.policy[b].session = s THEN [db EXCEPT !.policy[b] = NoPolicy] ELSE db

StageConfiguration(db, s) == [db EXCEPT !.staged = @ \cup {s}]

Unstage(db, s) == [db EXCEPT !.staged = @ \ {s}]

-----------------------------------------------------------------------------
(* The decision about one capture. *)

Decided(db, c) == \E i \in 1 .. Len(db.tombs) : db.tombs[i].cap = c

Resolution(db, c) ==
    db.tombs[CHOOSE i \in 1 .. Len(db.tombs) : db.tombs[i].cap = c].res

\* _archive_delivery; a capture that is in the archive already stays as it is.
ArchiveDelivery(db, f, s) ==
    IF \E row \in db.archive : row.cap = f.cap THEN db
    ELSE [db EXCEPT !.lastId = @ + 1,
                    !.archive = @ \cup {[id |-> db.lastId + 1, cap |-> f.cap, session |-> s,
                                          plan |-> f.req \in db.staged]}]

\* The newest frame of a SAVE_LAST session; the configuration staged for
\* another request's frame goes with it.
RollLatest(db, f, s) ==
    LET previous == db.rolling[s]
        rolled   == [db EXCEPT !.rolling[s] = f]
    IN  IF previous # NoFrame /\ previous.req # f.req THEN Unstage(rolled, previous.req)
        ELSE rolled

\* A tombstone, the delivery statistics, and the pruning of old tombstones.
RecordResolution(db, c, s, res) ==
    LET T == Append(db.tombs, [cap |-> c, res |-> res, session |-> s])
    IN  [db EXCEPT !.tombs = SubSeq(T, Max({1, Len(T) - TombLimit + 1}), Len(T)),
                   !.stats[s] = [acquired |-> @.acquired + 1, last |-> c]]

\* commit_delivery of a capture nothing was decided about.
Decide(db, f, s, save) ==
    CASE save = "SAVE_ALL" ->
           Unstage(RecordResolution(ArchiveDelivery(db, f, s), f.cap, s, "RAW_ARCHIVED"), f.req)
      [] save = "SAVE_LAST" ->
           RecordResolution(RollLatest(db, f, s), f.cap, s, "ROLLING_LATEST")
      [] save = "SAVE_NONE" ->
           Unstage(RecordResolution(db, f.cap, s, "DISCARDED_BY_POLICY"), f.req)

\* A faulty variant: a second delivery is decided again.
CommitAgain(db, f, s, save) == Decide(db, f, s, save)

\* A faulty variant: a second delivery always drops the staged configuration.
CommitUnstages(db, f, s, save) ==
    IF ~Decided(db, f.cap) THEN Decide(db, f, s, save) ELSE Unstage(db, f.req)

\* commit_delivery: an earlier decision stands.
CommitDelivery(db, f, s, save) ==
    IF ~Decided(db, f.cap) THEN Decide(db, f, s, save)
    ELSE IF Resolution(db, f.cap) = "ROLLING_LATEST" THEN db
    ELSE Unstage(db, f.req)

-----------------------------------------------------------------------------
(* The end of a session. *)

\* _finalize_latest_capture_in_connection: the rolling frame becomes a row.
FinalizeLatest(db, s) ==
    LET f     == db.rolling[s]
        filed == Unstage(ArchiveDelivery(db, f, s), f.req)
    IN  IF f = NoFrame THEN db
        ELSE [filed EXCEPT
                !.rolling[s] = NoFrame,
                !.tombs = [i \in 1 .. Len(@) |->
                             IF @[i].cap = f.cap THEN [@[i] EXCEPT !.res = "RAW_ARCHIVED"]
                             ELSE @[i]]]

RowsOf(db, s) == {row \in db.archive : row.session = s}

LastRow(rows) == CHOOSE row \in rows : \A r \in rows : r.id <= row.id

\* _finalize_session_summary_in_connection: the rolling frame is filed and
\* the counts are taken from the database, not from the caller.
FinalizeSummary(db, s, state, save) ==
    LET filed    == IF save = "SAVE_LAST" THEN FinalizeLatest(db, s) ELSE db
        rows     == RowsOf(filed, s)
        acquired == db.stats[s].acquired
    IN  [filed EXCEPT !.summary[s] =
           [state |-> state, acquired |-> acquired, saved |-> Cardinality(rows),
            discarded |-> Max({0, acquired - Cardinality(rows)}),
            last |-> IF acquired > 0 THEN db.stats[s].last ELSE @.last,
            lastSaved |-> IF rows = {} THEN 0 ELSE LastRow(rows).cap]]

SaveSummary(db, s, summary) == [db EXCEPT !.summary[s] = summary]

-----------------------------------------------------------------------------
(* Replays. *)

\* A faulty variant: the row filed at the end of the session stays.
SupersedeNothing(db, s) == db

\* A frame that comes after the end of a SAVE_LAST session replaces its row.
Supersede(db, s) ==
    [db EXCEPT
       !.archive = {row \in @ : row.session # s},
       !.tombs = [i \in 1 .. Len(@) |->
                    IF @[i].session = s THEN [@[i] EXCEPT !.res = "DISCARDED_BY_POLICY"]
                    ELSE @[i]]]

\* _commit_terminal_replay
TerminalReplay(db, f, s, save) ==
    LET room  == IF save = "SAVE_LAST" THEN Supersede(db, s) ELSE db
        filed == IF save = "SAVE_NONE" THEN room ELSE ArchiveDelivery(room, f, s)
        res   == IF save = "SAVE_NONE" THEN "DISCARDED_BY_POLICY" ELSE "RAW_ARCHIVED"
    IN  FinalizeSummary(Unstage(RecordResolution(filed, f.cap, s, res), f.req),
                        s, db.summary[s].state, save)

\* commit_replayed_delivery, which needs an earlier decision or a policy.
CanReplay(db, f) == Decided(db, f.cap) \/ db.policy[f.boot] # NoPolicy

CommitReplayed(db, f) ==
    LET p == db.policy[f.boot] IN
    IF Decided(db, f.cap) THEN CommitDelivery(db, f, f.req, "SAVE_ALL")
    ELSE IF db.summary[p.session].state \in Terminal THEN TerminalReplay(db, f, p.session, p.save)
    ELSE CommitDelivery(db, f, p.session, p.save)
=============================================================================
