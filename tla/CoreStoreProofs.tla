-------------------------- MODULE CoreStoreProofs --------------------------
(***************************************************************************)
(* The transactions of core_store.py keep a good database good.             *)
(***************************************************************************)
EXTENDS CoreStore, FiniteSetTheorems, WellFoundedInduction, TLAPS

-----------------------------------------------------------------------------
(* The tables: what a database d means when own[c] is the session capture c  *)
(* was decided for, ask[c] the one that asked for it, save[s] the policy of  *)
(* session s and lv the captures decided by the thread that took them in.   *)

Own(own, s) == {c \in Captures : own[c] = s}
Fil(d, s)   == {row.cap : row \in RowsOf(d, s)}

\* Captures are decided in the order they are taken, and the newest tombstone
\* is that of the last decision.
TombsGood(d, own) ==
    /\ \A i \in 1 .. Len(d.tombs) : own[d.tombs[i].cap] = d.tombs[i].session
    /\ \A i, j \in 1 .. Len(d.tombs) : i < j => d.tombs[i].cap < d.tombs[j].cap
    /\ \A c \in Captures : own[c] # 0 =>
         d.tombs # <<>> /\ c <= d.tombs[Len(d.tombs)].cap

\* The statistics of session s count what was decided for it.
StatsGood(d, own, s) ==
    /\ IsFiniteSet(Own(own, s))
    /\ d.stats[s].acquired = Cardinality(Own(own, s))
    /\ Own(own, s) # {} =>
         d.stats[s].last \in Own(own, s) /\ \A c \in Own(own, s) : c <= d.stats[s].last

\* Rows have different ids and captures, and are filed in the order of both.
RowsGood(d, own) ==
    /\ \A r \in d.archive : r.id <= d.lastId /\ own[r.cap] = r.session
    /\ \A r, q \in d.archive : r.id = q.id \/ r.cap = q.cap => r = q
    /\ \A r, q \in d.archive : r.session = q.session /\ r.id < q.id => r.cap < q.cap

RollingGood(d, own, ask, save, s) ==
    d.rolling[s] # NoFrame =>
      /\ save[s] = "SAVE_LAST"
      /\ own[d.rolling[s].cap] = s
      /\ d.rolling[s].req = ask[d.rolling[s].cap]

\* Of a SAVE_LAST session the newest capture is in the rolling frame until the
\* session is closed, and is the one row it has in the archive from then on.
Rolling(d, own, s) ==
    /\ Fil(d, s) = {}
    /\ Own(own, s) # {} => d.rolling[s].cap = d.stats[s].last
    /\ \A i \in 1 .. Len(d.tombs) :
         d.tombs[i].session = s => d.tombs[i].res = "ROLLING_LATEST"

Settled(d, own, s) ==
    /\ d.rolling[s] = NoFrame
    /\ Own(own, s) = {} => Fil(d, s) = {}
    /\ Own(own, s) # {} => Fil(d, s) = {d.stats[s].last}

LatestGood(d, own, save, s) ==
    save[s] = "SAVE_LAST" =>
      IF d.summary[s].state \in Terminal THEN Settled(d, own, s) ELSE Rolling(d, own, s)

AllOrNone(d, own, save, s) ==
    /\ save[s] = "SAVE_ALL" => Fil(d, s) = Own(own, s)
    /\ save[s] = "SAVE_NONE" => Fil(d, s) = {}

\* A terminal summary says what the tables say.
SummaryGood(d, own, s) ==
    d.summary[s].state \in Terminal =>
      /\ d.summary[s].acquired = d.stats[s].acquired
      /\ d.summary[s].saved = Cardinality(RowsOf(d, s))
      /\ d.summary[s].discarded = d.stats[s].acquired - Cardinality(RowsOf(d, s))
      /\ Own(own, s) # {} => d.summary[s].last = d.stats[s].last
      /\ d.summary[s].lastSaved =
           IF RowsOf(d, s) = {} THEN 0 ELSE LastRow(RowsOf(d, s)).cap

\* A delivery policy is the one of its session.
PoliciesGood(d, save) ==
    \A b \in Boots :
      IF d.policy[b].session = 0 THEN d.policy[b] = NoPolicy
      ELSE d.policy[b].save = save[d.policy[b].session]

AsAsked(own, ask) == \A c \in Captures : own[c] \in {0, ask[c]}

\* While every capture was decided for the session that asked for it, what is
\* staged outlives the captures a session decides itself.
PlansGood(d, own, ask, lv) ==
    AsAsked(own, ask) =>
      /\ \A row \in d.archive : row.cap \in lv => row.plan
      /\ \A s \in Sessions :
           d.rolling[s] # NoFrame /\ d.rolling[s].cap \in lv => s \in d.staged

\* All of it for session s, but for what the end of the session changes.
OpenGood(d, own, ask, save, s) ==
    StatsGood(d, own, s) /\ RollingGood(d, own, ask, save, s) /\ AllOrNone(d, own, save, s)

SessionGood(d, own, ask, save, s) ==
    OpenGood(d, own, ask, save, s) /\ LatestGood(d, own, save, s) /\ SummaryGood(d, own, s)

TablesGood(d, own, ask, save, lv) ==
    /\ d \in Databases
    /\ TombsGood(d, own) /\ RowsGood(d, own) /\ PoliciesGood(d, save)
    /\ PlansGood(d, own, ask, lv)
    /\ \A c \in lv : own[c] # 0

StoreGood(d, own, ask, save, lv) ==
    /\ TablesGood(d, own, ask, save, lv)
    /\ \A s \in Sessions : SessionGood(d, own, ask, save, s)

-----------------------------------------------------------------------------
(* The types of the tables, and what each transaction writes. *)

LEMMA Constants ==
    /\ Sessions \subseteq Nat /\ 0 \notin Sessions
    /\ Captures \subseteq Nat /\ 0 \notin Captures
    /\ Boots \subseteq Nat /\ 0 \notin Boots
    /\ TombLimit \in Nat /\ TombLimit # 0
  BY StoreConstants

LEMMA Tables ==
    ASSUME NEW d \in Databases
    PROVE  /\ d.archive \in SUBSET Rows /\ d.lastId \in Nat
           /\ d.rolling \in [Sessions -> AllFrames \cup {NoFrame}]
           /\ d.tombs \in Seq(Tombs)
           /\ d.policy \in [Boots -> [session : Sessions \cup {0}, save : SavePolicies]]
           /\ d.stats \in [Sessions -> [acquired : Nat, last : Nat]]
           /\ d.summary \in [Sessions -> Summaries]
           /\ d.staged \in SUBSET Sessions
  BY DEF Databases

LEMMA NoFrameIsNone == NoFrame \notin AllFrames /\ NoFrame.cap = 0 /\ NoFrame.req = 0
  BY Constants DEF NoFrame, AllFrames

LEMMA FrameType ==
    ASSUME NEW f \in AllFrames
    PROVE  f.cap \in Captures /\ f.req \in Sessions /\ f.boot \in Boots
  BY DEF AllFrames

LEMMA UnstageWrites ==
    ASSUME NEW d \in Databases, NEW s, NEW e, e = Unstage(d, s)
    PROVE  /\ e \in Databases /\ e.staged = d.staged \ {s}
           /\ e.archive = d.archive /\ e.lastId = d.lastId /\ e.rolling = d.rolling
           /\ e.tombs = d.tombs /\ e.policy = d.policy /\ e.stats = d.stats
           /\ e.summary = d.summary
  BY DEF Unstage, Databases

\* The row a frame is filed in.
RowFor(d, f, s) ==
    [id |-> d.lastId + 1, cap |-> f.cap, session |-> s, plan |-> f.req \in d.staged]

LEMMA ArchiveWrites ==
    ASSUME NEW d \in Databases, NEW f \in AllFrames, NEW s \in Sessions,
           \A row \in d.archive : row.cap # f.cap,
           NEW e, e = ArchiveDelivery(d, f, s)
    PROVE  /\ e \in Databases
           /\ e.archive = d.archive \cup {RowFor(d, f, s)} /\ e.lastId = d.lastId + 1
           /\ e.rolling = d.rolling /\ e.tombs = d.tombs /\ e.policy = d.policy
           /\ e.stats = d.stats /\ e.summary = d.summary /\ e.staged = d.staged
  <1> DEFINE r == RowFor(d, f, s)
  <1>1. r \in Rows
    BY Tables, FrameType DEF RowFor, Rows
  <1>2. e =
          [d EXCEPT !.lastId = d.lastId + 1, !.archive = d.archive \cup {r}]
    BY DEF ArchiveDelivery, RowFor
  <1> HIDE DEF r
  <1>3. d.archive \cup {r} \in SUBSET Rows /\ d.lastId + 1 \in Nat
    BY <1>1, Tables
  <1> DEFINE A == d.archive \cup {r}
             n == d.lastId + 1
  <1>4. e = [d EXCEPT !.lastId = n, !.archive = A]
    BY <1>2
  <1>5. A \in SUBSET Rows /\ n \in Nat
    BY <1>3
  <1> HIDE DEF A, n
  <1>6. /\ e \in Databases /\ e.archive = A /\ e.lastId = n
        /\ e.rolling = d.rolling /\ e.tombs = d.tombs /\ e.policy = d.policy
        /\ e.stats = d.stats /\ e.summary = d.summary /\ e.staged = d.staged
    BY <1>4, <1>5 DEF Databases
  <1>7. QED
    BY <1>6 DEF A, n, r

LEMMA SuffixOf ==
    ASSUME NEW A, NEW q \in Seq(A), NEW m \in 1 .. Len(q)
    PROVE  LET S == SubSeq(q, m, Len(q))
           IN  /\ S \in Seq(A) /\ Len(S) = Len(q) - m + 1
               /\ \A i \in 1 .. Len(S) : S[i] = q[i + m - 1]
  OBVIOUS

LEMMA MaxOfTwo ==
    ASSUME NEW a \in Int, NEW b \in Int
    PROVE  Max({a, b}) = IF a >= b THEN a ELSE b
  <1>1. \E x \in {a, b} : \A y \in {a, b} : x >= y
    <2>1. CASE a >= b
      BY <2>1
    <2>2. CASE ~(a >= b)
      BY <2>2
    <2>3. QED
      BY <2>1, <2>2
  <1>2. Max({a, b}) \in {a, b} /\ \A y \in {a, b} : Max({a, b}) >= y
    BY <1>1 DEF Max
  <1>3. QED
    BY <1>2

\* The tombstones and statistics after a decision: the new tombstone last,
\* before it some of the old ones in their order.
Recorded(d, e, c, s, res) ==
    /\ e.tombs \in Seq(Tombs) /\ e.tombs # <<>>
    /\ e.tombs[Len(e.tombs)] = [cap |-> c, res |-> res, session |-> s]
    /\ \E k \in Nat : /\ Len(d.tombs) = Len(e.tombs) - 1 + k
                      /\ \A i \in 1 .. Len(e.tombs) - 1 : e.tombs[i] = d.tombs[i + k]
    /\ e.stats[s].acquired = d.stats[s].acquired + 1 /\ e.stats[s].last = c
    /\ \A r \in Sessions : r # s => e.stats[r] = d.stats[r]

LEMMA RecordWrites ==
    ASSUME NEW d \in Databases, NEW c \in Captures, NEW s \in Sessions, NEW res \in Resolutions,
           NEW e, e = RecordResolution(d, c, s, res)
    PROVE  /\ e \in Databases /\ Recorded(d, e, c, s, res)
           /\ e.archive = d.archive /\ e.lastId = d.lastId /\ e.rolling = d.rolling
           /\ e.policy = d.policy /\ e.summary = d.summary /\ e.staged = d.staged
  <1> DEFINE t == [cap |-> c, res |-> res, session |-> s]
             T == Append(d.tombs, t)
             m == Max({1, Len(T) - TombLimit + 1})
             S == SubSeq(T, m, Len(T))
             st == [acquired |-> d.stats[s].acquired + 1, last |-> c]
  <1>1. t \in Tombs /\ d.tombs \in Seq(Tombs) /\ st \in [acquired : Nat, last : Nat]
    <2>1. d.stats[s].acquired \in Nat
      BY DEF Databases
    <2>2. c \in Nat /\ d.tombs \in Seq(Tombs)
      BY Tables, Constants
    <2>3. QED
      BY <2>1, <2>2 DEF Tombs
  <1>2. /\ T \in Seq(Tombs) /\ Len(T) = Len(d.tombs) + 1 /\ T[Len(T)] = t
        /\ \A i \in 1 .. Len(d.tombs) : T[i] = d.tombs[i]
    <2> HIDE DEF t
    <2>1. QED
      BY <1>1
  <1> HIDE DEF t, T
  <1>3. Len(T) \in Nat /\ m \in 1 .. Len(T)
    <2> DEFINE D == d.tombs
               n == Len(T)
    <2>0. D \in Seq(Tombs) /\ T \in Seq(Tombs)
      BY <1>1, <1>2
    <2> HIDE DEF D
    <2>1. n \in Nat /\ Len(D) \in Nat /\ n = Len(D) + 1
      BY <1>2, <2>0 DEF D
    <2> HIDE DEF n
    <2>2. TombLimit \in Nat /\ TombLimit >= 1
      BY Constants
    <2>3. 1 \in Int /\ n - TombLimit + 1 \in Int
      BY <2>1, <2>2
    <2>4. Max({1, n - TombLimit + 1}) = IF 1 >= n - TombLimit + 1 THEN 1 ELSE n - TombLimit + 1
      BY <2>3, MaxOfTwo
    <2>5. Max({1, n - TombLimit + 1}) \in 1 .. n
      BY <2>1, <2>2, <2>4
    <2>6. QED
      BY <2>1, <2>5 DEF n
  <1> HIDE DEF m
  <1>4. /\ S \in Seq(Tombs) /\ Len(S) = Len(T) - m + 1
        /\ \A i \in 1 .. Len(S) : S[i] = T[i + m - 1]
    <2>1. T \in Seq(Tombs)
      BY <1>2
    <2>2. QED
      BY <1>3, <2>1, SuffixOf
  <1> HIDE DEF S
  <1>5. S # <<>> /\ S[Len(S)] = t
    BY <1>2, <1>3, <1>4
  <1>6. \A i \in 1 .. Len(S) - 1 : S[i] = d.tombs[i + (m - 1)]
    <2> SUFFICES ASSUME NEW i \in 1 .. Len(S) - 1 PROVE S[i] = d.tombs[i + (m - 1)]
      OBVIOUS
    <2> DEFINE D == d.tombs
    <2>0. D \in Seq(Tombs) /\ Len(T) = Len(D) + 1
      BY <1>1, <1>2
    <2> HIDE DEF D
    <2>a. Len(D) \in Nat /\ Len(T) \in Nat /\ m \in 1 .. Len(T) /\ Len(S) = Len(T) - m + 1
      BY <1>3, <1>4, <2>0
    <2>b. i \in 1 .. Len(S) /\ i + (m - 1) \in 1 .. Len(D) /\ i + m - 1 = i + (m - 1)
      BY <2>0, <2>a
    <2>1. i \in 1 .. Len(S) /\ i + (m - 1) \in 1 .. Len(d.tombs) /\ i + m - 1 = i + (m - 1)
      BY <2>b DEF D
    <2>2. QED
      BY <1>2, <1>4, <2>1
  <1>7. e = [d EXCEPT !.tombs = S, !.stats[s] = st]
    BY DEF RecordResolution, t, T, m, S
  <1>8. e.tombs = S /\ e.stats = [d.stats EXCEPT ![s] = st]
        /\ e.archive = d.archive /\ e.lastId = d.lastId /\ e.rolling = d.rolling
        /\ e.policy = d.policy /\ e.summary = d.summary /\ e.staged = d.staged
    BY <1>7 DEF Databases
  <1>9. e \in Databases
    <2> DEFINE ST == [d.stats EXCEPT ![s] = st]
    <2>1. ST \in [Sessions -> [acquired : Nat, last : Nat]]
      <3> HIDE DEF st
      <3>1. QED
        BY <1>1, Tables
    <2>2. e = [d EXCEPT !.tombs = S, !.stats = ST]
      BY <1>7
    <2> HIDE DEF ST, st
    <2>3. QED
      BY <1>4, <2>1, <2>2 DEF Databases
  <1>10. m - 1 \in Nat /\ Len(d.tombs) = Len(S) - 1 + (m - 1)
    BY <1>1, <1>2, <1>3, <1>4
  <1>11. e.stats[s] = st /\ \A r \in Sessions : r # s => e.stats[r] = d.stats[r]
    BY <1>8, Tables
  <1>12. e.stats[s].acquired = d.stats[s].acquired + 1 /\ e.stats[s].last = c
    BY <1>11
  <1>13. QED
    BY <1>4, <1>5, <1>6, <1>8, <1>9, <1>10, <1>11, <1>12 DEF t, Recorded

LEMMA RecordedAlso ==
    ASSUME NEW a, NEW h, NEW d, NEW e, NEW c, NEW s, NEW res, Recorded(a, h, c, s, res),
           d.tombs = a.tombs, d.stats = a.stats, e.tombs = h.tombs, e.stats = h.stats
    PROVE  Recorded(d, e, c, s, res)
  <1> DEFINE dt == d.tombs
             et == e.tombs
             ds == d.stats
             es == e.stats
  <1>1. dt = a.tombs /\ ds = a.stats /\ et = h.tombs /\ es = h.stats
    OBVIOUS
  <1>2. /\ et \in Seq(Tombs) /\ et # <<>>
        /\ et[Len(et)] = [cap |-> c, res |-> res, session |-> s]
        /\ \E k \in Nat : /\ Len(dt) = Len(et) - 1 + k
                          /\ \A i \in 1 .. Len(et) - 1 : et[i] = dt[i + k]
        /\ es[s].acquired = ds[s].acquired + 1 /\ es[s].last = c
        /\ \A r \in Sessions : r # s => es[r] = ds[r]
    BY <1>1, Zenon DEF Recorded
  <1>3. QED
    BY <1>2, Zenon DEF Recorded


-----------------------------------------------------------------------------
(* Sets of captures. *)

Owners == [Captures -> Sessions \cup {0}]

\* Capture c is decided for session s, where nothing was decided before.
DecidedFor(own, own2, c, s) ==
    /\ own2 \in Owners /\ c \in Captures /\ own[c] = 0 /\ own2[c] = s
    /\ \A x \in Captures : x # c => own2[x] = own[x]

LEMMA OwnGrows ==
    ASSUME NEW own \in Owners, NEW own2, NEW c, NEW s \in Sessions, DecidedFor(own, own2, c, s)
    PROVE  /\ c \notin Own(own, s) /\ Own(own2, s) = Own(own, s) \cup {c}
           /\ \A r \in Sessions : r # s => Own(own2, r) = Own(own, r)
  <1>1. 0 # s
    BY Constants
  <1>2. c \notin Own(own, s) /\ Own(own2, s) = Own(own, s) \cup {c}
    BY <1>1 DEF Own, DecidedFor
  <1>3. \A r \in Sessions : r # s => Own(own2, r) = Own(own, r)
    BY Constants DEF Own, DecidedFor
  <1>4. QED
    BY <1>2, <1>3

LEMMA RowType ==
    ASSUME NEW d \in Databases, NEW row \in d.archive
    PROVE  row.id \in Nat /\ row.cap \in Captures /\ row.session \in Sessions
           /\ row.plan \in BOOLEAN
  BY DEF Databases, Rows

\* The rows of a session are as many as the captures in them, all its own.
LEMMA RowsCounted ==
    ASSUME NEW d \in Databases, NEW own \in Owners, NEW s \in Sessions,
           RowsGood(d, own), IsFiniteSet(Own(own, s))
    PROVE  /\ IsFiniteSet(RowsOf(d, s)) /\ IsFiniteSet(Fil(d, s))
           /\ Fil(d, s) \subseteq Own(own, s)
           /\ Cardinality(RowsOf(d, s)) = Cardinality(Fil(d, s))
           /\ Cardinality(RowsOf(d, s)) <= Cardinality(Own(own, s))
           /\ Cardinality(RowsOf(d, s)) \in Nat
  <1> DEFINE R == RowsOf(d, s)
             F == Fil(d, s)
             g == [c \in F |-> CHOOSE row \in R : row.cap = c]
  <1>1. \A row \in R : row \in d.archive /\ row.session = s /\ row.cap \in Captures
                       /\ own[row.cap] = s /\ row.cap \in F
    BY RowType DEF RowsOf, RowsGood, Fil
  <1>2. F \subseteq Own(own, s)
    BY <1>1 DEF Fil, Own
  <1>3. IsFiniteSet(F) /\ Cardinality(F) <= Cardinality(Own(own, s))
    BY <1>2, FS_Subset
  <1>4. \A c \in F : g[c] \in R /\ g[c].cap = c
    <2> SUFFICES ASSUME NEW c \in F PROVE g[c] \in R /\ g[c].cap = c
      OBVIOUS
    <2>1. \E row \in R : row.cap = c
      BY DEF Fil
    <2>2. QED
      BY <2>1
  <1>5. \A row \in R : g[row.cap] = row
    BY <1>1, <1>4 DEF RowsGood
  <1>6. g \in [F -> R]
    BY <1>4
  <1> HIDE DEF g
  <1>7. g \in Injection(F, R)
    BY <1>4, <1>6 DEF Injection, IsInjective
  <1>8. g \in Surjection(F, R)
    BY <1>1, <1>5, <1>6 DEF Surjection
  <1>9. ExistsBijection(F, R)
    BY <1>7, <1>8 DEF ExistsBijection, Bijection
  <1>10. IsFiniteSet(R) /\ Cardinality(R) = Cardinality(F)
    BY <1>3, <1>9, FS_Bijection
  <1>11. Cardinality(R) \in Nat
    BY <1>10, FS_CardinalityType
  <1>12. QED
    BY <1>2, <1>3, <1>10, <1>11

-----------------------------------------------------------------------------
(* What a transaction does not touch. *)

\* Every tombstone of e is one of d, but for what it says was decided.
OldTombs(e, d) ==
    \A i \in 1 .. Len(e.tombs) : \E j \in 1 .. Len(d.tombs) :
      e.tombs[i].cap = d.tombs[j].cap /\ e.tombs[i].session = d.tombs[j].session

\* No tombstone of session r was added or changed.
TombsKept(e, d, r) ==
    \A i \in 1 .. Len(e.tombs) : e.tombs[i].session = r =>
      \E j \in 1 .. Len(d.tombs) : e.tombs[i] = d.tombs[j]

LEMMA OtherSession ==
    ASSUME NEW d, NEW e, NEW own, NEW own2, NEW ask, NEW save, NEW r \in Sessions,
           SessionGood(d, own, ask, save, r),
           Own(own2, r) = Own(own, r), RowsOf(e, r) = RowsOf(d, r),
           e.rolling[r] = d.rolling[r], e.stats[r] = d.stats[r], e.summary[r] = d.summary[r],
           d.rolling[r] # NoFrame => own2[d.rolling[r].cap] = own[d.rolling[r].cap],
           TombsKept(e, d, r)
    PROVE  SessionGood(e, own2, ask, save, r)
  <1>1. Fil(e, r) = Fil(d, r)
    BY DEF Fil
  <1>2. OpenGood(e, own2, ask, save, r)
    BY <1>1 DEF SessionGood, OpenGood, StatsGood, RollingGood, AllOrNone
  <1>3. Rolling(d, own, r) => Rolling(e, own2, r)
    BY <1>1 DEF Rolling, TombsKept
  <1>4. Settled(d, own, r) => Settled(e, own2, r)
    BY <1>1 DEF Settled
  <1>5. LatestGood(e, own2, save, r)
    BY <1>3, <1>4 DEF SessionGood, LatestGood
  <1>6. SummaryGood(e, own2, r)
    BY DEF SessionGood, SummaryGood
  <1>7. QED
    BY <1>2, <1>5, <1>6 DEF SessionGood

\* Nothing was decided about capture c or a later one.
Newest(own, c) == c \in Captures /\ own[c] = 0 /\ \A x \in Captures : own[x] # 0 => x < c

LEMMA TombsAfterDecision ==
    ASSUME NEW d \in Databases, NEW e, NEW own \in Owners, NEW s \in Sessions, NEW res \in Resolutions,
           NEW c, Newest(own, c), NEW own2, DecidedFor(own, own2, c, s),
           TombsGood(d, own), Recorded(d, e, c, s, res)
    PROVE  /\ TombsGood(e, own2)
           /\ \A i \in 1 .. Len(e.tombs) : i # Len(e.tombs) =>
                \E j \in 1 .. Len(d.tombs) : e.tombs[i] = d.tombs[j]
           /\ \A r \in Sessions : r # s => TombsKept(e, d, r)
  <1> DEFINE D == d.tombs
             E == e.tombs
             n == Len(E)
  <1>1. PICK k \in Nat : Len(D) = n - 1 + k /\ \A i \in 1 .. n - 1 : E[i] = D[i + k]
    BY DEF Recorded
  <1>2. /\ D \in Seq(Tombs) /\ Len(D) \in Nat /\ n \in Nat /\ n >= 1
        /\ \A i \in 1 .. Len(D) : D[i] \in Tombs /\ D[i].cap \in Captures
    <2>1. D \in Seq(Tombs) /\ E \in Seq(Tombs) /\ E # <<>>
      BY Tables DEF Recorded
    <2> HIDE DEF D, E
    <2>2. Len(D) \in Nat /\ n \in Nat /\ n >= 1 /\ \A i \in 1 .. Len(D) : D[i] \in Tombs
      BY <2>1
    <2>3. QED
      BY <2>1, <2>2 DEF Tombs
  <1>3. /\ own2 \in Owners /\ own2[c] = s /\ \A x \in Captures : x # c => own2[x] = own[x]
    BY DEF DecidedFor
  <1>4. E[n].cap = c /\ E[n].session = s
    BY DEF Recorded
  <1> HIDE DEF D, E, n
  <1>5. \A i \in 1 .. n : i # n =>
          i + k \in 1 .. Len(D) /\ E[i] = D[i + k] /\ i \in 1 .. n - 1
    BY <1>1, <1>2
  <1>6. \A i \in 1 .. Len(D) : own[D[i].cap] = D[i].session /\ D[i].session # 0 /\ D[i].cap < c
                               /\ D[i].cap # c
    <2>1. \A i \in 1 .. Len(D) : own[D[i].cap] = D[i].session /\ D[i].session \in Sessions
      BY <1>2 DEF TombsGood, D, Tombs
    <2>2. \A x \in Captures : own[x] # 0 => x < c /\ x # c
      BY Constants DEF Newest
    <2>3. QED
      BY <1>2, <2>1, <2>2, Constants
  <1>7. \A i \in 1 .. n : own2[E[i].cap] = E[i].session
    <2> SUFFICES ASSUME NEW i \in 1 .. n, i # n PROVE own2[E[i].cap] = E[i].session
      BY <1>3, <1>4
    <2>1. PICK j \in 1 .. Len(D) : E[i] = D[j]
      BY <1>5
    <2>2. QED
      BY <1>2, <1>3, <1>6, <2>1
  <1>8. \A i, j \in 1 .. n : i < j => E[i].cap < E[j].cap
    <2> SUFFICES ASSUME NEW i \in 1 .. n, NEW j \in 1 .. n, i < j PROVE E[i].cap < E[j].cap
      OBVIOUS
    <2>1. i # n
      BY <1>2
    <2>2. CASE j = n
      BY <1>4, <1>5, <1>6, <2>1, <2>2
    <2>3. CASE j # n
      <3>1. i + k < j + k
        BY <1>2
      <3>2. QED
        BY <1>5, <2>1, <2>3, <3>1 DEF TombsGood, D
    <2>4. QED
      BY <2>2, <2>3
  <1>9. \A x \in Captures : own2[x] # 0 => E # <<>> /\ x <= E[n].cap
    <2>1. E # <<>>
      BY DEF Recorded, E
    <2>2. QED
      BY <1>3, <1>4, <2>1, Constants DEF Newest
  <1>10. TombsGood(e, own2)
    BY <1>7, <1>8, <1>9 DEF TombsGood, E, n
  <1>11. \A i \in 1 .. n : i # n => \E j \in 1 .. Len(D) : E[i] = D[j]
    BY <1>5
  <1>12. \A r \in Sessions : r # s => TombsKept(e, d, r)
    BY <1>4, <1>11 DEF TombsKept, E, D, n
  <1>13. QED
    BY <1>10, <1>11, <1>12 DEF E, D, n

\* Frame f is filed for session s.
Filing(d, e, own, own2, f, s) ==
    /\ d \in Databases /\ f \in AllFrames /\ s \in Sessions
    /\ RowsGood(d, own) /\ \A row \in d.archive : own2[row.cap] = own[row.cap]
    /\ own2[f.cap] = s /\ \A row \in RowsOf(d, s) : row.cap < f.cap
    /\ \A row \in d.archive : row.cap # f.cap
    /\ e.archive = d.archive \cup {RowFor(d, f, s)} /\ e.lastId = d.lastId + 1

LEMMA RowsAfterFiling ==
    ASSUME NEW d, NEW e, NEW own, NEW own2, NEW f, NEW s, Filing(d, e, own, own2, f, s)
    PROVE  /\ RowsGood(e, own2)
           /\ Fil(e, s) = Fil(d, s) \cup {f.cap}
           /\ \A r \in Sessions : r # s => RowsOf(e, r) = RowsOf(d, r)
  <1>0. /\ d \in Databases /\ f \in AllFrames /\ s \in Sessions
        /\ RowsGood(d, own) /\ \A row \in d.archive : own2[row.cap] = own[row.cap]
        /\ own2[f.cap] = s /\ \A row \in RowsOf(d, s) : row.cap < f.cap
        /\ \A row \in d.archive : row.cap # f.cap
        /\ e.archive = d.archive \cup {RowFor(d, f, s)} /\ e.lastId = d.lastId + 1
    BY DEF Filing
  <1> DEFINE n == RowFor(d, f, s)
  <1>1. n.id = d.lastId + 1 /\ n.cap = f.cap /\ n.session = s
    BY DEF RowFor
  <1> HIDE DEF n
  <1>2. d.lastId \in Nat /\ \A r \in d.archive : r.id \in Nat /\ r.id <= d.lastId
    BY <1>0, Tables, RowType DEF RowsGood
  <1>3. e.archive = d.archive \cup {n}
    BY <1>0 DEF n
  <1>4. \A r \in e.archive : r.id <= e.lastId /\ own2[r.cap] = r.session
    BY <1>0, <1>1, <1>2, <1>3 DEF RowsGood
  <1>5. \A r, q \in e.archive : r.id = q.id \/ r.cap = q.cap => r = q
    BY <1>0, <1>1, <1>2, <1>3 DEF RowsGood
  <1>6. \A r, q \in e.archive : r.session = q.session /\ r.id < q.id => r.cap < q.cap
    BY <1>0, <1>1, <1>2, <1>3 DEF RowsGood, RowsOf
  <1>7. RowsOf(e, s) = RowsOf(d, s) \cup {n}
    BY <1>1, <1>3 DEF RowsOf
  <1>8. Fil(e, s) = Fil(d, s) \cup {f.cap}
    BY <1>1, <1>7 DEF Fil
  <1>9. \A r \in Sessions : r # s => RowsOf(e, r) = RowsOf(d, r)
    BY <1>1, <1>3 DEF RowsOf
  <1>10. QED
    BY <1>4, <1>5, <1>6, <1>8, <1>9 DEF RowsGood

LEMMA StatsAfterDecision ==
    ASSUME NEW d \in Databases, NEW e, NEW own \in Owners, NEW own2, NEW c, NEW s \in Sessions,
           NEW res, StatsGood(d, own, s), Newest(own, c), DecidedFor(own, own2, c, s),
           Recorded(d, e, c, s, res)
    PROVE  StatsGood(e, own2, s) /\ e.stats[s].last = c /\ Own(own2, s) # {}
           /\ \A r \in Sessions : r # s => e.stats[r] = d.stats[r]
  <1>1. e.stats[s].acquired = d.stats[s].acquired + 1 /\ e.stats[s].last = c
        /\ \A r \in Sessions : r # s => e.stats[r] = d.stats[r]
    BY DEF Recorded
  <1>2. c \notin Own(own, s) /\ Own(own2, s) = Own(own, s) \cup {c}
    BY OwnGrows
  <1>3. IsFiniteSet(Own(own2, s)) /\ Cardinality(Own(own2, s)) = Cardinality(Own(own, s)) + 1
    BY <1>2, FS_AddElement DEF StatsGood
  <1>4. \A x \in Own(own2, s) : x <= c
    <2>1. \A x \in Own(own, s) : x < c /\ x \in Nat /\ c \in Nat
      BY Constants DEF Own, Newest
    <2>2. c <= c
      BY Constants DEF Newest
    <2>3. QED
      BY <1>2, <2>1, <2>2
  <1>5. QED
    BY <1>1, <1>2, <1>3, <1>4 DEF StatsGood

-----------------------------------------------------------------------------
(* The decision about a capture. *)

\* A good database, but for what the end of session s writes.
NearlyGood(d, own, ask, save, lv, s) ==
    /\ TablesGood(d, own, ask, save, lv) /\ OpenGood(d, own, ask, save, s)
    /\ \A r \in Sessions : r # s => SessionGood(d, own, ask, save, r)

\* What a decision assumes: the capture is the newest, and what it needs is
\* staged.
Decidable(d, own, own2, ask, save, lv, lv2, f, s) ==
    /\ NearlyGood(d, own, ask, save, lv, s)
    /\ own \in Owners /\ ask \in Owners /\ save \in [Sessions -> SavePolicies]
    /\ f \in AllFrames /\ s \in Sessions /\ lv \in SUBSET Captures
    /\ Newest(own, f.cap) /\ DecidedFor(own, own2, f.cap, s) /\ f.req = ask[f.cap]
    /\ lv2 \in {lv, lv \cup {f.cap}}
    /\ f.cap \in lv2 /\ AsAsked(own2, ask) => f.req \in d.staged

\* Database e has the decision recorded.
Deciding(d, e, own, own2, ask, save, lv, lv2, f, s, res) ==
    /\ Decidable(d, own, own2, ask, save, lv, lv2, f, s)
    /\ res \in Resolutions /\ Recorded(d, e, f.cap, s, res)

\* What every decision writes.
DecisionEffect(d, e, own, own2, ask, lv2, f, s, res) ==
    /\ TombsGood(e, own2)
    /\ \A i \in 1 .. Len(e.tombs) :
         \/ e.tombs[i] = [cap |-> f.cap, res |-> res, session |-> s]
         \/ \E j \in 1 .. Len(d.tombs) : e.tombs[i] = d.tombs[j]
    /\ StatsGood(e, own2, s) /\ e.stats[s].last = f.cap /\ Own(own2, s) # {}
    /\ Own(own2, s) = Own(own, s) \cup {f.cap}
    /\ \A r \in Sessions : r # s =>
         TombsKept(e, d, r) /\ e.stats[r] = d.stats[r] /\ Own(own2, r) = Own(own, r)
    /\ \A c \in lv2 : own2[c] # 0
    /\ AsAsked(own2, ask) => AsAsked(own, ask) /\ f.req = s
    /\ \A row \in d.archive : row.cap < f.cap /\ row.cap # f.cap
                              /\ own2[row.cap] = own[row.cap]
    /\ \A r \in Sessions : d.rolling[r] # NoFrame =>
         d.rolling[r].cap \in Captures /\ d.rolling[r].cap # f.cap
         /\ own2[d.rolling[r].cap] = own[d.rolling[r].cap]

LEMMA DecisionTables ==
    ASSUME NEW d, NEW e, NEW own, NEW own2, NEW ask, NEW save, NEW lv, NEW lv2,
           NEW f, NEW s, NEW res, Deciding(d, e, own, own2, ask, save, lv, lv2, f, s, res)
    PROVE  DecisionEffect(d, e, own, own2, ask, lv2, f, s, res)
  <1>d. Decidable(d, own, own2, ask, save, lv, lv2, f, s) /\ res \in Resolutions
        /\ Recorded(d, e, f.cap, s, res)
    BY DEF Deciding
  <1>0. d \in Databases /\ own \in Owners /\ ask \in Owners /\ f \in AllFrames /\ s \in Sessions
        /\ Newest(own, f.cap) /\ DecidedFor(own, own2, f.cap, s) /\ f.cap \in Captures
        /\ TombsGood(d, own) /\ RowsGood(d, own) /\ StatsGood(d, own, s)
    BY <1>d, FrameType DEF Decidable, NearlyGood, TablesGood, OpenGood
  <1> DEFINE c == f.cap
  <1>1. Newest(own, c) /\ DecidedFor(own, own2, c, s) /\ c \in Captures /\ Recorded(d, e, c, s, res)
    BY <1>d, <1>0
  <1> HIDE DEF c
  <1>3. /\ TombsGood(e, own2)
        /\ \A i \in 1 .. Len(e.tombs) : i # Len(e.tombs) =>
             \E j \in 1 .. Len(d.tombs) : e.tombs[i] = d.tombs[j]
        /\ \A r \in Sessions : r # s => TombsKept(e, d, r)
    BY <1>d, <1>0, <1>1, TombsAfterDecision
  <1>4. e.tombs[Len(e.tombs)] = [cap |-> c, res |-> res, session |-> s]
    BY <1>1 DEF Recorded
  <1>5. StatsGood(e, own2, s) /\ e.stats[s].last = c /\ Own(own2, s) # {}
        /\ \A r \in Sessions : r # s => e.stats[r] = d.stats[r]
    BY <1>d, <1>0, <1>1, StatsAfterDecision
  <1>6. Own(own2, s) = Own(own, s) \cup {c}
        /\ \A r \in Sessions : r # s => Own(own2, r) = Own(own, r)
    BY <1>0, <1>1, OwnGrows
  <1>7. \A x \in Captures : own[x] # 0 => x # c /\ x < c /\ own2[x] = own[x]
    BY <1>1, Constants DEF Newest, DecidedFor
  <1>8. \A x \in lv2 : own2[x] # 0
    <2>1. \A x \in lv : x \in Captures /\ own[x] # 0
      BY <1>d DEF Decidable, NearlyGood, TablesGood
    <2>2. own2[c] # 0
      BY <1>0, <1>1, Constants DEF DecidedFor
    <2>3. lv2 \in {lv, lv \cup {c}}
      BY <1>d DEF Decidable, c
    <2>4. QED
      BY <1>7, <2>1, <2>2, <2>3
  <1>9. AsAsked(own2, ask) => AsAsked(own, ask) /\ f.req = s
    <2>1. f.req = ask[c]
      BY <1>d DEF Decidable, c
    <2>2. QED
      BY <1>0, <1>1, <2>1, Constants DEF AsAsked, DecidedFor
  <1>10. \A row \in d.archive : row.cap \in Captures /\ own[row.cap] # 0
    BY <1>0, RowType, Constants DEF RowsGood
  <1>11. \A r \in Sessions : d.rolling[r] # NoFrame =>
            d.rolling[r].cap \in Captures /\ own[d.rolling[r].cap] # 0
    <2> SUFFICES ASSUME NEW r \in Sessions, d.rolling[r] # NoFrame
                 PROVE  d.rolling[r].cap \in Captures /\ own[d.rolling[r].cap] # 0
      OBVIOUS
    <2>1. d.rolling[r] \in AllFrames
      BY <1>0, Tables
    <2>2. own[d.rolling[r].cap] = r
      <3>1. OpenGood(d, own, ask, save, r)
        BY <1>d DEF Decidable, NearlyGood, SessionGood
      <3>2. QED
        BY <3>1 DEF OpenGood, RollingGood
    <2>3. QED
      BY <2>1, <2>2, FrameType, Constants
  <1>12. QED
    BY <1>3, <1>4, <1>5, <1>6, <1>7, <1>8, <1>9, <1>10, <1>11 DEF c, DecisionEffect
\* The sessions other than s after a decision for session s.
LEMMA DecisionOthers ==
    ASSUME NEW d, NEW e \in Databases, NEW own, NEW own2, NEW ask, NEW save, NEW lv, NEW lv2,
           NEW f, NEW s, NEW res, Deciding(d, e, own, own2, ask, save, lv, lv2, f, s, res),
           e.summary = d.summary,
           \A r \in Sessions : r # s => RowsOf(e, r) = RowsOf(d, r) /\ e.rolling[r] = d.rolling[r]
    PROVE  \A r \in Sessions : r # s => SessionGood(e, own2, ask, save, r)
  <1> SUFFICES ASSUME NEW r \in Sessions, r # s PROVE SessionGood(e, own2, ask, save, r)
    OBVIOUS
  <1>1. SessionGood(d, own, ask, save, r)
    BY DEF Deciding, Decidable, NearlyGood
  <1>e. DecisionEffect(d, e, own, own2, ask, lv2, f, s, res)
    BY DecisionTables
  <1>2. /\ TombsKept(e, d, r) /\ e.stats[r] = d.stats[r] /\ Own(own2, r) = Own(own, r)
        /\ d.rolling[r] # NoFrame => own2[d.rolling[r].cap] = own[d.rolling[r].cap]
    BY <1>e DEF DecisionEffect
  <1>3. RowsOf(e, r) = RowsOf(d, r) /\ e.rolling[r] = d.rolling[r] /\ e.summary[r] = d.summary[r]
    OBVIOUS
  <1>4. QED
    BY <1>1, <1>2, <1>3, OtherSession

LEMMA DecideAllWrites ==
    ASSUME NEW d \in Databases, NEW f \in AllFrames, NEW s \in Sessions,
           \A row \in d.archive : row.cap # f.cap,
           NEW e, e = Decide(d, f, s, "SAVE_ALL")
    PROVE  /\ e \in Databases /\ Recorded(d, e, f.cap, s, "RAW_ARCHIVED")
           /\ e.archive = d.archive \cup {RowFor(d, f, s)} /\ e.lastId = d.lastId + 1
           /\ e.rolling = d.rolling /\ e.policy = d.policy /\ e.summary = d.summary
           /\ e.staged = d.staged \ {f.req}
  <1> DEFINE a == ArchiveDelivery(d, f, s)
             h == RecordResolution(a, f.cap, s, "RAW_ARCHIVED")
  <1>0. f.cap \in Captures /\ "RAW_ARCHIVED" \in Resolutions
    BY FrameType DEF Resolutions
  <1>1. e = Unstage(h, f.req)
    BY DEF Decide
  <1>2. /\ a \in Databases
        /\ a.archive = d.archive \cup {RowFor(d, f, s)} /\ a.lastId = d.lastId + 1
        /\ a.rolling = d.rolling /\ a.tombs = d.tombs /\ a.policy = d.policy
        /\ a.stats = d.stats /\ a.summary = d.summary /\ a.staged = d.staged
    BY ArchiveWrites
  <1> HIDE DEF a
  <1>3. /\ h \in Databases /\ Recorded(a, h, f.cap, s, "RAW_ARCHIVED")
        /\ h.archive = a.archive /\ h.lastId = a.lastId /\ h.rolling = a.rolling
        /\ h.policy = a.policy /\ h.summary = a.summary /\ h.staged = a.staged
    BY <1>0, <1>2, RecordWrites
  <1> HIDE DEF h
  <1>4. /\ e \in Databases /\ e.staged = h.staged \ {f.req}
        /\ e.archive = h.archive /\ e.lastId = h.lastId /\ e.rolling = h.rolling
        /\ e.tombs = h.tombs /\ e.policy = h.policy /\ e.stats = h.stats
        /\ e.summary = h.summary
    BY <1>1, <1>3, UnstageWrites
  <1>5. Recorded(d, e, f.cap, s, "RAW_ARCHIVED")
    BY <1>2, <1>3, <1>4, RecordedAlso
  <1>6. QED
    BY <1>2, <1>3, <1>4, <1>5

\* A capture that is filed at once.
LEMMA DecideAllGood ==
    ASSUME NEW d, NEW own, NEW own2, NEW ask, NEW save, NEW lv, NEW lv2,
           NEW f, NEW s, Decidable(d, own, own2, ask, save, lv, lv2, f, s),
           save[s] # "SAVE_NONE", save[s] = "SAVE_LAST" => d.rolling[s] = NoFrame,
           NEW e, e = Decide(d, f, s, "SAVE_ALL")
    PROVE  /\ NearlyGood(e, own2, ask, save, lv2, s)
           /\ Fil(e, s) = Fil(d, s) \cup {f.cap} /\ e.rolling = d.rolling
           /\ e.stats[s].last = f.cap /\ Own(own2, s) # {}
           /\ e.summary = d.summary /\ e.policy = d.policy
  <1>0. /\ d \in Databases /\ own \in Owners /\ ask \in Owners /\ f \in AllFrames /\ s \in Sessions
        /\ f.cap \in Captures /\ DecidedFor(own, own2, f.cap, s)
        /\ RowsGood(d, own) /\ PoliciesGood(d, save) /\ PlansGood(d, own, ask, lv)
        /\ RollingGood(d, own, ask, save, s) /\ AllOrNone(d, own, save, s)
        /\ lv2 \in {lv, lv \cup {f.cap}}
        /\ f.cap \in lv2 /\ AsAsked(own2, ask) => f.req \in d.staged
    BY FrameType DEF Decidable, NearlyGood, TablesGood, OpenGood
  <1> DEFINE Dec == Decidable(d, own, own2, ask, save, lv, lv2, f, s)
  <1>1. d.rolling[s] = NoFrame
    BY <1>0 DEF RollingGood
  <1>2. \A row \in d.archive : row.cap # f.cap
    <2>1. \A row \in d.archive : row.cap \in Captures /\ own[row.cap] = row.session
                                 /\ row.session \in Sessions
      BY <1>0, RowType DEF RowsGood
    <2>2. own[f.cap] = 0
      BY <1>0 DEF DecidedFor
    <2>3. QED
      BY <2>1, <2>2, Constants
  <1>3. /\ e \in Databases /\ Recorded(d, e, f.cap, s, "RAW_ARCHIVED")
        /\ e.archive = d.archive \cup {RowFor(d, f, s)} /\ e.lastId = d.lastId + 1
        /\ e.rolling = d.rolling /\ e.policy = d.policy /\ e.summary = d.summary
        /\ e.staged = d.staged \ {f.req}
    BY <1>0, <1>2, DecideAllWrites
  <1>r. Deciding(d, e, own, own2, ask, save, lv, lv2, f, s, "RAW_ARCHIVED")
    BY <1>3 DEF Deciding, Resolutions
  <1>e. DecisionEffect(d, e, own, own2, ask, lv2, f, s, "RAW_ARCHIVED")
    BY <1>r, DecisionTables
  <1>4. /\ TombsGood(e, own2) /\ StatsGood(e, own2, s) /\ e.stats[s].last = f.cap
        /\ Own(own2, s) # {} /\ Own(own2, s) = Own(own, s) \cup {f.cap}
        /\ \A c \in lv2 : own2[c] # 0
        /\ AsAsked(own2, ask) => AsAsked(own, ask) /\ f.req = s
        /\ \A row \in d.archive : row.cap < f.cap /\ row.cap # f.cap
                                  /\ own2[row.cap] = own[row.cap]
        /\ \A r \in Sessions : d.rolling[r] # NoFrame =>
             d.rolling[r].cap \in Captures /\ d.rolling[r].cap # f.cap
             /\ own2[d.rolling[r].cap] = own[d.rolling[r].cap]
    BY <1>e DEF DecisionEffect
  <1>5. /\ RowsGood(e, own2) /\ Fil(e, s) = Fil(d, s) \cup {f.cap}
        /\ \A r \in Sessions : r # s => RowsOf(e, r) = RowsOf(d, r)
    <2>1. own2[f.cap] = s
      BY <1>0 DEF DecidedFor
    <2>2. \A row \in RowsOf(d, s) : row.cap < f.cap
      BY <1>4 DEF RowsOf
    <2>3. Filing(d, e, own, own2, f, s)
      BY <1>0, <1>2, <1>3, <1>4, <2>1, <2>2 DEF Filing
    <2>4. QED
      BY <2>3, RowsAfterFiling
  <1>6. \A r \in Sessions : r # s => SessionGood(e, own2, ask, save, r)
    BY <1>r, <1>3, <1>5, DecisionOthers
  <1>7. PoliciesGood(e, save)
    BY <1>0, <1>3 DEF PoliciesGood
  <1>8. PlansGood(e, own2, ask, lv2)
    <2> SUFFICES ASSUME AsAsked(own2, ask)
                 PROVE  /\ \A row \in e.archive : row.cap \in lv2 => row.plan
                        /\ \A r \in Sessions :
                             e.rolling[r] # NoFrame /\ e.rolling[r].cap \in lv2 => r \in e.staged
      BY DEF PlansGood
    <2>1. /\ \A row \in d.archive : row.cap \in lv => row.plan
          /\ \A r \in Sessions :
               d.rolling[r] # NoFrame /\ d.rolling[r].cap \in lv => r \in d.staged
      BY <1>0, <1>4 DEF PlansGood
    <2>2. RowFor(d, f, s).cap \in lv2 => RowFor(d, f, s).plan
      BY <1>0 DEF RowFor
    <2>3. \A row \in e.archive : row.cap \in lv2 => row.plan
      BY <1>0, <1>3, <1>4, <2>1, <2>2
    <2>4. \A r \in Sessions :
            e.rolling[r] # NoFrame /\ e.rolling[r].cap \in lv2 => r \in e.staged
      BY <1>0, <1>1, <1>3, <1>4, <2>1
    <2>5. QED
      BY <2>3, <2>4
  <1>9. OpenGood(e, own2, ask, save, s)
    BY <1>0, <1>1, <1>3, <1>4, <1>5 DEF OpenGood, RollingGood, AllOrNone
  <1>10. QED
    BY <1>3, <1>4, <1>5, <1>6, <1>7, <1>8, <1>9 DEF NearlyGood, TablesGood

LEMMA DecideNoneWrites ==
    ASSUME NEW d \in Databases, NEW f \in AllFrames, NEW s \in Sessions,
           NEW e, e = Decide(d, f, s, "SAVE_NONE")
    PROVE  /\ e \in Databases /\ Recorded(d, e, f.cap, s, "DISCARDED_BY_POLICY")
           /\ e.archive = d.archive /\ e.lastId = d.lastId
           /\ e.rolling = d.rolling /\ e.policy = d.policy /\ e.summary = d.summary
           /\ e.staged = d.staged \ {f.req}
  <1> DEFINE h == RecordResolution(d, f.cap, s, "DISCARDED_BY_POLICY")
  <1>0. f.cap \in Captures /\ "DISCARDED_BY_POLICY" \in Resolutions
    BY FrameType DEF Resolutions
  <1>1. e = Unstage(h, f.req)
    BY DEF Decide
  <1>3. /\ h \in Databases /\ Recorded(d, h, f.cap, s, "DISCARDED_BY_POLICY")
        /\ h.archive = d.archive /\ h.lastId = d.lastId /\ h.rolling = d.rolling
        /\ h.policy = d.policy /\ h.summary = d.summary /\ h.staged = d.staged
    BY <1>0, RecordWrites
  <1> HIDE DEF h
  <1>4. /\ e \in Databases /\ e.staged = h.staged \ {f.req}
        /\ e.archive = h.archive /\ e.lastId = h.lastId /\ e.rolling = h.rolling
        /\ e.tombs = h.tombs /\ e.policy = h.policy /\ e.stats = h.stats
        /\ e.summary = h.summary
    BY <1>1, <1>3, UnstageWrites
  <1>5. Recorded(d, e, f.cap, s, "DISCARDED_BY_POLICY")
    BY <1>3, <1>4, RecordedAlso
  <1>6. QED
    BY <1>3, <1>4, <1>5

\* Rows that stay where they are.
SameRows(d, e, own, own2) ==
    /\ RowsGood(d, own) /\ e.archive = d.archive /\ e.lastId = d.lastId
    /\ \A row \in d.archive : own2[row.cap] = own[row.cap]

LEMMA RowsKept ==
    ASSUME NEW d, NEW e, NEW own, NEW own2, SameRows(d, e, own, own2)
    PROVE  RowsGood(e, own2) /\ \A r : RowsOf(e, r) = RowsOf(d, r) /\ Fil(e, r) = Fil(d, r)
  BY DEF SameRows, RowsGood, RowsOf, Fil

LEMMA DecideNoneGood ==
    ASSUME NEW d, NEW own, NEW own2, NEW ask, NEW save, NEW lv, NEW lv2,
           NEW f, NEW s, Decidable(d, own, own2, ask, save, lv, lv2, f, s),
           save[s] = "SAVE_NONE", NEW e, e = Decide(d, f, s, "SAVE_NONE")
    PROVE  /\ NearlyGood(e, own2, ask, save, lv2, s)
           /\ e.summary = d.summary /\ e.policy = d.policy
  <1>0. /\ d \in Databases /\ own \in Owners /\ ask \in Owners /\ f \in AllFrames /\ s \in Sessions
        /\ f.cap \in Captures
        /\ RowsGood(d, own) /\ PoliciesGood(d, save) /\ PlansGood(d, own, ask, lv)
        /\ RollingGood(d, own, ask, save, s) /\ AllOrNone(d, own, save, s)
        /\ lv2 \in {lv, lv \cup {f.cap}}
    BY FrameType DEF Decidable, NearlyGood, TablesGood, OpenGood
  <1>1. d.rolling[s] = NoFrame
    BY <1>0 DEF RollingGood
  <1>3. /\ e \in Databases /\ Recorded(d, e, f.cap, s, "DISCARDED_BY_POLICY")
        /\ e.archive = d.archive /\ e.lastId = d.lastId
        /\ e.rolling = d.rolling /\ e.policy = d.policy /\ e.summary = d.summary
        /\ e.staged = d.staged \ {f.req}
    BY <1>0, DecideNoneWrites
  <1>r. Deciding(d, e, own, own2, ask, save, lv, lv2, f, s, "DISCARDED_BY_POLICY")
    BY <1>3 DEF Deciding, Resolutions
  <1>e. DecisionEffect(d, e, own, own2, ask, lv2, f, s, "DISCARDED_BY_POLICY")
    BY <1>r, DecisionTables
  <1>4. /\ TombsGood(e, own2) /\ StatsGood(e, own2, s)
        /\ \A c \in lv2 : own2[c] # 0
        /\ AsAsked(own2, ask) => AsAsked(own, ask) /\ f.req = s
        /\ \A row \in d.archive : row.cap # f.cap /\ own2[row.cap] = own[row.cap]
        /\ \A r \in Sessions : d.rolling[r] # NoFrame => d.rolling[r].cap # f.cap
    BY <1>e DEF DecisionEffect
  <1>5. RowsGood(e, own2) /\ \A r : RowsOf(e, r) = RowsOf(d, r) /\ Fil(e, r) = Fil(d, r)
    <2>1. SameRows(d, e, own, own2)
      BY <1>0, <1>3, <1>4 DEF SameRows
    <2>2. QED
      BY <2>1, RowsKept
  <1>6. \A r \in Sessions : r # s => SessionGood(e, own2, ask, save, r)
    <2>1. e \in Databases /\ e.summary = d.summary
      BY <1>3
    <2>2. \A r \in Sessions : r # s => RowsOf(e, r) = RowsOf(d, r) /\ e.rolling[r] = d.rolling[r]
      BY <1>3, <1>5
    <2>3. QED
      BY <1>r, <2>1, <2>2, DecisionOthers
  <1>7. PoliciesGood(e, save)
    BY <1>0, <1>3 DEF PoliciesGood
  <1>8. PlansGood(e, own2, ask, lv2)
    BY <1>0, <1>1, <1>3, <1>4 DEF PlansGood
  <1>9. OpenGood(e, own2, ask, save, s)
    BY <1>0, <1>1, <1>3, <1>4, <1>5 DEF OpenGood, RollingGood, AllOrNone
  <1>10. QED
    BY <1>3, <1>4, <1>5, <1>6, <1>7, <1>8, <1>9 DEF NearlyGood, TablesGood

\* The rolling frame of session s after a decision.
Rolled(d, e, f, s) ==
    /\ e.rolling[s] = f /\ \A r \in Sessions : r # s => e.rolling[r] = d.rolling[r]
    /\ e.staged = IF d.rolling[s] # NoFrame /\ d.rolling[s].req # f.req
                  THEN d.staged \ {d.rolling[s].req} ELSE d.staged

LEMMA RollWrites ==
    ASSUME NEW d \in Databases, NEW f \in AllFrames, NEW s \in Sessions,
           NEW e, e = RollLatest(d, f, s)
    PROVE  /\ e \in Databases /\ Rolled(d, e, f, s)
           /\ e.archive = d.archive /\ e.lastId = d.lastId /\ e.tombs = d.tombs
           /\ e.policy = d.policy /\ e.stats = d.stats /\ e.summary = d.summary
  <1> DEFINE R == [d.rolling EXCEPT ![s] = f]
             h == [d EXCEPT !.rolling = R]
             p == d.rolling[s]
  <1>1. /\ R \in [Sessions -> AllFrames \cup {NoFrame}] /\ R[s] = f
        /\ \A r \in Sessions : r # s => R[r] = d.rolling[r]
    BY Tables
  <1>2. e = IF p # NoFrame /\ p.req # f.req THEN Unstage(h, p.req) ELSE h
    BY DEF RollLatest
  <1> HIDE DEF R
  <1>3. /\ h \in Databases /\ h.rolling = R /\ h.staged = d.staged
        /\ h.archive = d.archive /\ h.lastId = d.lastId /\ h.tombs = d.tombs
        /\ h.policy = d.policy /\ h.stats = d.stats /\ h.summary = d.summary
    BY <1>1 DEF Databases
  <1> HIDE DEF h
  <1>4. CASE p # NoFrame /\ p.req # f.req
    <2>1. e = Unstage(h, p.req)
      BY <1>2, <1>4
    <2>2. /\ e \in Databases /\ e.staged = h.staged \ {p.req}
          /\ e.archive = h.archive /\ e.lastId = h.lastId /\ e.rolling = h.rolling
          /\ e.tombs = h.tombs /\ e.policy = h.policy /\ e.stats = h.stats
          /\ e.summary = h.summary
      BY <1>3, <2>1, UnstageWrites
    <2>3. QED
      BY <1>1, <1>3, <1>4, <2>2 DEF Rolled
  <1>5. CASE ~(p # NoFrame /\ p.req # f.req)
    <2>1. e = h
      BY <1>2, <1>5
    <2>2. QED
      BY <1>1, <1>3, <1>5, <2>1 DEF Rolled
  <1>6. QED
    BY <1>4, <1>5

LEMMA DecideLastWrites ==
    ASSUME NEW d \in Databases, NEW f \in AllFrames, NEW s \in Sessions,
           NEW e, e = Decide(d, f, s, "SAVE_LAST")
    PROVE  /\ e \in Databases /\ Recorded(d, e, f.cap, s, "ROLLING_LATEST") /\ Rolled(d, e, f, s)
           /\ e.archive = d.archive /\ e.lastId = d.lastId
           /\ e.policy = d.policy /\ e.summary = d.summary
  <1> DEFINE h == RollLatest(d, f, s)
  <1>0. f.cap \in Captures /\ "ROLLING_LATEST" \in Resolutions
    BY FrameType DEF Resolutions
  <1>1. e = RecordResolution(h, f.cap, s, "ROLLING_LATEST")
    BY DEF Decide
  <1>2. /\ h \in Databases /\ Rolled(d, h, f, s)
        /\ h.archive = d.archive /\ h.lastId = d.lastId /\ h.tombs = d.tombs
        /\ h.policy = d.policy /\ h.stats = d.stats /\ h.summary = d.summary
    BY RollWrites
  <1> HIDE DEF h
  <1>3. /\ e \in Databases /\ Recorded(h, e, f.cap, s, "ROLLING_LATEST")
        /\ e.archive = h.archive /\ e.lastId = h.lastId /\ e.rolling = h.rolling
        /\ e.policy = h.policy /\ e.summary = h.summary /\ e.staged = h.staged
    BY <1>0, <1>1, <1>2, RecordWrites
  <1>4. Recorded(d, e, f.cap, s, "ROLLING_LATEST")
    BY <1>2, <1>3, RecordedAlso
  <1>5. Rolled(d, e, f, s)
    BY <1>2, <1>3 DEF Rolled
  <1>6. QED
    BY <1>2, <1>3, <1>4, <1>5

LEMMA DecideLastGood ==
    ASSUME NEW d, NEW own, NEW own2, NEW ask, NEW save, NEW lv, NEW lv2,
           NEW f, NEW s, Decidable(d, own, own2, ask, save, lv, lv2, f, s),
           save[s] = "SAVE_LAST", Rolling(d, own, s), NEW e, e = Decide(d, f, s, "SAVE_LAST")
    PROVE  /\ NearlyGood(e, own2, ask, save, lv2, s) /\ Rolling(e, own2, s)
           /\ e.summary = d.summary /\ e.policy = d.policy
  <1>0. /\ d \in Databases /\ own \in Owners /\ ask \in Owners /\ f \in AllFrames /\ s \in Sessions
        /\ f.cap \in Captures /\ DecidedFor(own, own2, f.cap, s) /\ f.req = ask[f.cap]
        /\ RowsGood(d, own) /\ PoliciesGood(d, save) /\ PlansGood(d, own, ask, lv)
        /\ RollingGood(d, own, ask, save, s) /\ AllOrNone(d, own, save, s)
        /\ lv2 \in {lv, lv \cup {f.cap}}
        /\ f.cap \in lv2 /\ AsAsked(own2, ask) => f.req \in d.staged
    BY FrameType DEF Decidable, NearlyGood, TablesGood, OpenGood
  <1>3. /\ e \in Databases /\ Recorded(d, e, f.cap, s, "ROLLING_LATEST") /\ Rolled(d, e, f, s)
        /\ e.archive = d.archive /\ e.lastId = d.lastId
        /\ e.policy = d.policy /\ e.summary = d.summary
    BY <1>0, DecideLastWrites
  <1>r. Deciding(d, e, own, own2, ask, save, lv, lv2, f, s, "ROLLING_LATEST")
    BY <1>3 DEF Deciding, Resolutions
  <1>e. DecisionEffect(d, e, own, own2, ask, lv2, f, s, "ROLLING_LATEST")
    BY <1>r, DecisionTables
  <1>4. /\ TombsGood(e, own2) /\ StatsGood(e, own2, s) /\ e.stats[s].last = f.cap
        /\ \A c \in lv2 : own2[c] # 0
        /\ AsAsked(own2, ask) => AsAsked(own, ask) /\ f.req = s
        /\ \A row \in d.archive : row.cap # f.cap /\ own2[row.cap] = own[row.cap]
        /\ \A r \in Sessions : d.rolling[r] # NoFrame =>
             d.rolling[r].cap \in Captures /\ d.rolling[r].cap # f.cap
    BY <1>e DEF DecisionEffect
  <1>5. RowsGood(e, own2) /\ \A r : RowsOf(e, r) = RowsOf(d, r) /\ Fil(e, r) = Fil(d, r)
    <2>1. SameRows(d, e, own, own2)
      BY <1>0, <1>3, <1>4 DEF SameRows
    <2>2. QED
      BY <2>1, RowsKept
  <1>s. e.rolling[s] = f /\ \A r \in Sessions : r # s => e.rolling[r] = d.rolling[r]
    BY <1>3 DEF Rolled
  <1>6. \A r \in Sessions : r # s => SessionGood(e, own2, ask, save, r)
    BY <1>r, <1>3, <1>5, <1>s, DecisionOthers
  <1>7. PoliciesGood(e, save)
    BY <1>0, <1>3 DEF PoliciesGood
  <1>8. PlansGood(e, own2, ask, lv2)
    <2> SUFFICES ASSUME AsAsked(own2, ask)
                 PROVE  /\ \A row \in e.archive : row.cap \in lv2 => row.plan
                        /\ \A r \in Sessions :
                             e.rolling[r] # NoFrame /\ e.rolling[r].cap \in lv2 => r \in e.staged
      BY DEF PlansGood
    <2>1. /\ \A row \in d.archive : row.cap \in lv => row.plan
          /\ \A r \in Sessions :
               d.rolling[r] # NoFrame /\ d.rolling[r].cap \in lv => r \in d.staged
      BY <1>0, <1>4 DEF PlansGood
    <2>2. e.staged = d.staged
      <3>1. d.rolling[s] # NoFrame => d.rolling[s].req = s
        BY <1>0, <1>4, Constants DEF RollingGood, AsAsked
      <3>2. QED
        BY <1>3, <1>4, <3>1 DEF Rolled
    <2>3. \A row \in e.archive : row.cap \in lv2 => row.plan
      BY <1>0, <1>3, <1>4, <2>1
    <2>4. \A r \in Sessions :
            e.rolling[r] # NoFrame /\ e.rolling[r].cap \in lv2 => r \in e.staged
      <3> SUFFICES ASSUME NEW r \in Sessions, e.rolling[r] # NoFrame, e.rolling[r].cap \in lv2
                   PROVE  r \in d.staged
        BY <2>2
      <3>1. CASE r = s
        BY <1>0, <1>4, <1>s, <3>1
      <3>2. CASE r # s
        BY <1>0, <1>4, <1>s, <2>1, <3>2
      <3>3. QED
        BY <3>1, <3>2
    <2>5. QED
      BY <2>3, <2>4
  <1>9. OpenGood(e, own2, ask, save, s)
    <2>1. RollingGood(e, own2, ask, save, s)
      BY <1>0, <1>s DEF RollingGood, DecidedFor
    <2>2. QED
      BY <1>4, <2>1 DEF OpenGood, AllOrNone
  <1>10. Rolling(e, own2, s)
    <2>1. Fil(e, s) = {} /\ e.rolling[s].cap = e.stats[s].last
      BY <1>4, <1>5, <1>s DEF Rolling
    <2>2. \A i \in 1 .. Len(e.tombs) :
            e.tombs[i].session = s => e.tombs[i].res = "ROLLING_LATEST"
      <3> SUFFICES ASSUME NEW i \in 1 .. Len(e.tombs), e.tombs[i].session = s
                   PROVE  e.tombs[i].res = "ROLLING_LATEST"
        OBVIOUS
      <3>1. \/ e.tombs[i] = [cap |-> f.cap, res |-> "ROLLING_LATEST", session |-> s]
            \/ \E j \in 1 .. Len(d.tombs) : e.tombs[i] = d.tombs[j]
        BY <1>e DEF DecisionEffect
      <3>2. QED
        BY <3>1 DEF Rolling
    <2>3. QED
      BY <2>1, <2>2 DEF Rolling
  <1>11. QED
    BY <1>3, <1>4, <1>5, <1>6, <1>7, <1>8, <1>9, <1>10 DEF NearlyGood, TablesGood

\* A decision for a session that is not closed.
LEMMA DecideGood ==
    ASSUME NEW d, NEW own, NEW own2, NEW ask, NEW save, NEW lv, NEW lv2,
           NEW f, NEW s, Decidable(d, own, own2, ask, save, lv, lv2, f, s),
           SessionGood(d, own, ask, save, s), d.summary[s].state \notin Terminal,
           NEW e, e = Decide(d, f, s, save[s])
    PROVE  /\ StoreGood(e, own2, ask, save, lv2)
           /\ e.summary = d.summary /\ e.policy = d.policy
  <1>0. save[s] \in SavePolicies /\ s \in Sessions
    BY DEF Decidable
  <1>1. CASE save[s] = "SAVE_ALL"
    <2>1. NearlyGood(e, own2, ask, save, lv2, s) /\ e.summary = d.summary /\ e.policy = d.policy
      BY <1>1, DecideAllGood
    <2>2. QED
      BY <1>0, <1>1, <2>1 DEF NearlyGood, StoreGood, SessionGood, LatestGood, SummaryGood
  <1>2. CASE save[s] = "SAVE_NONE"
    <2>1. NearlyGood(e, own2, ask, save, lv2, s) /\ e.summary = d.summary /\ e.policy = d.policy
      BY <1>2, DecideNoneGood
    <2>2. QED
      BY <1>0, <1>2, <2>1 DEF NearlyGood, StoreGood, SessionGood, LatestGood, SummaryGood
  <1>3. CASE save[s] = "SAVE_LAST"
    <2>0. Rolling(d, own, s)
      BY <1>3 DEF SessionGood, LatestGood
    <2>1. /\ NearlyGood(e, own2, ask, save, lv2, s) /\ Rolling(e, own2, s)
          /\ e.summary = d.summary /\ e.policy = d.policy
      BY <1>3, <2>0, DecideLastGood
    <2>2. QED
      BY <1>0, <1>3, <2>1 DEF NearlyGood, StoreGood, SessionGood, LatestGood, SummaryGood
  <1>4. QED
    BY <1>0, <1>1, <1>2, <1>3 DEF SavePolicies

-----------------------------------------------------------------------------
(* Least and greatest numbers. *)

LEMMA LeastNumber ==
    ASSUME NEW T, T \subseteq Nat, T # {}
    PROVE  \E x \in T : \A y \in T : x <= y
  <1> DEFINE R == OpToRel(<, Nat)
  <1>1. R = {ss \in Nat \X Nat : ss[1] < ss[2]}
    BY DEF OpToRel
  <1>2. IsWellFoundedOn(R, Nat)
    BY NatLessThanWellFounded
  <1> HIDE DEF R
  <1>3. PICK x \in T : \A y \in T : ~(<<y, x>> \in R)
    BY <1>2, WFMin
  <1>4. \A y \in T : ~(y < x)
    BY <1>1, <1>3
  <1>5. QED
    BY <1>3, <1>4

LEMMA GreatestNumber ==
    ASSUME NEW T, T \subseteq Nat, T # {}, NEW n \in Nat, \A y \in T : y <= n
    PROVE  \E x \in T : \A y \in T : y <= x
  <1> DEFINE B == {m \in Nat : \A y \in T : y <= m}
  <1>1. B \subseteq Nat /\ n \in B
    OBVIOUS
  <1>2. PICK x \in B : \A m \in B : x <= m
    BY <1>1, LeastNumber
  <1>3. x \in T
    <2> SUFFICES ASSUME x \notin T PROVE FALSE
      OBVIOUS
    <2>1. \A y \in T : y <= x - 1
      BY <1>2
    <2>2. PICK y \in T : TRUE
      OBVIOUS
    <2>3. x - 1 \in Nat
      BY <1>2, <2>1, <2>2
    <2>4. x - 1 \in B /\ ~(x <= x - 1)
      BY <2>1, <2>3
    <2>5. QED
      BY <1>2, <2>4
  <1>4. QED
    BY <1>2, <1>3

\* The last row of a session is the one of its newest capture in the archive.
LEMMA LastRowIs ==
    ASSUME NEW d \in Databases, NEW own, RowsGood(d, own), NEW s, RowsOf(d, s) # {}
    PROVE  /\ LastRow(RowsOf(d, s)) \in RowsOf(d, s)
           /\ \A c \in Fil(d, s) : c <= LastRow(RowsOf(d, s)).cap
  <1> DEFINE R == RowsOf(d, s)
             T == {r.id : r \in R}
             l == LastRow(R)
  <1>1. \A r \in R : r \in d.archive /\ r.id \in Nat /\ r.id <= d.lastId /\ r.session = s
                     /\ r.cap \in Nat
    BY RowType, Constants DEF RowsOf, RowsGood
  <1>2. T \subseteq Nat /\ T # {} /\ \A y \in T : y <= d.lastId
    BY <1>1
  <1>3. d.lastId \in Nat
    BY Tables
  <1>4. PICK x \in T : \A y \in T : y <= x
    BY <1>2, <1>3, GreatestNumber
  <1>5. \E row \in R : \A r \in R : r.id <= row.id
    BY <1>4
  <1> HIDE DEF R
  <1>6. l \in R /\ \A r \in R : r.id <= l.id
    BY <1>5 DEF LastRow
  <1> HIDE DEF l
  <1>7. \A r \in R : r.cap <= l.cap
    <2> SUFFICES ASSUME NEW r \in R PROVE r.cap <= l.cap
      OBVIOUS
    <2>1. r \in d.archive /\ l \in d.archive /\ r.session = l.session /\ r.id <= l.id
          /\ r.id \in Nat /\ l.id \in Nat /\ r.cap \in Nat /\ l.cap \in Nat
      BY <1>1, <1>6
    <2>2. CASE r.id = l.id
      BY <2>1, <2>2 DEF RowsGood
    <2>3. CASE r.id # l.id
      BY <2>1, <2>3 DEF RowsGood
    <2>4. QED
      BY <2>2, <2>3
  <1>8. QED
    BY <1>6, <1>7 DEF Fil, l, R

-----------------------------------------------------------------------------
(* The end of a session. *)

\* The same tombstones, but for what was decided.
SameTombs(d, e) ==
    /\ d.tombs \in Seq(Tombs) /\ e.tombs \in Seq(Tombs) /\ Len(e.tombs) = Len(d.tombs)
    /\ \A i \in 1 .. Len(d.tombs) :
         e.tombs[i].cap = d.tombs[i].cap /\ e.tombs[i].session = d.tombs[i].session

LEMMA SameTombsGood ==
    ASSUME NEW d, NEW e, NEW own, SameTombs(d, e), TombsGood(d, own)
    PROVE  TombsGood(e, own) /\ \A c : Decided(e, c) <=> Decided(d, c)
  <1> DEFINE D == d.tombs
             E == e.tombs
  <1>1. /\ D \in Seq(Tombs) /\ E \in Seq(Tombs) /\ Len(E) = Len(D)
        /\ \A i \in 1 .. Len(D) : E[i].cap = D[i].cap /\ E[i].session = D[i].session
    BY DEF SameTombs
  <1>2. /\ \A i \in 1 .. Len(D) : own[D[i].cap] = D[i].session
        /\ \A i, j \in 1 .. Len(D) : i < j => D[i].cap < D[j].cap
        /\ \A c \in Captures : own[c] # 0 => D # <<>> /\ c <= D[Len(D)].cap
    BY DEF TombsGood
  <1>3. \A c : Decided(e, c) <=> Decided(d, c)
    BY <1>1 DEF Decided
  <1> HIDE DEF D, E
  <1>4. /\ \A i \in 1 .. Len(E) : own[E[i].cap] = E[i].session
        /\ \A i, j \in 1 .. Len(E) : i < j => E[i].cap < E[j].cap
    BY <1>1, <1>2
  <1>5. \A c \in Captures : own[c] # 0 => E # <<>> /\ c <= E[Len(E)].cap
    <2> SUFFICES ASSUME NEW c \in Captures, own[c] # 0 PROVE E # <<>> /\ c <= E[Len(E)].cap
      OBVIOUS
    <2>1. D # <<>> /\ c <= D[Len(D)].cap
      BY <1>2
    <2>2. Len(D) \in 1 .. Len(D) /\ E # <<>>
      BY <1>1, <2>1
    <2>3. QED
      BY <1>1, <2>1, <2>2
  <1>6. TombsGood(e, own)
    BY <1>4, <1>5 DEF TombsGood, E
  <1>7. QED
    BY <1>3, <1>6

\* The rolling frame f of session s is filed.
Settling(d, e, f, s) ==
    /\ e.archive = d.archive \cup {RowFor(d, f, s)} /\ e.lastId = d.lastId + 1
    /\ e.rolling[s] = NoFrame /\ \A r \in Sessions : r # s => e.rolling[r] = d.rolling[r]
    /\ SameTombs(d, e)
    /\ \A i \in 1 .. Len(d.tombs) : d.tombs[i].cap # f.cap => e.tombs[i] = d.tombs[i]
    /\ e.policy = d.policy /\ e.stats = d.stats /\ e.summary = d.summary
    /\ e.staged = d.staged \ {f.req}

LEMMA FinalizeLatestWrites ==
    ASSUME NEW d \in Databases, NEW s \in Sessions, d.rolling[s] # NoFrame,
           \A row \in d.archive : row.cap # d.rolling[s].cap,
           NEW e, e = FinalizeLatest(d, s)
    PROVE  e \in Databases /\ Settling(d, e, d.rolling[s], s)
  <1> DEFINE f == d.rolling[s]
             a == ArchiveDelivery(d, f, s)
             u == Unstage(a, f.req)
             R == [d.rolling EXCEPT ![s] = NoFrame]
             new(t) == IF t.cap = f.cap THEN [t EXCEPT !.res = "RAW_ARCHIVED"] ELSE t
             T == [i \in 1 .. Len(d.tombs) |-> new(d.tombs[i])]
  <1>1. f \in AllFrames
    BY Tables
  <1>2. /\ a \in Databases
        /\ a.archive = d.archive \cup {RowFor(d, f, s)} /\ a.lastId = d.lastId + 1
        /\ a.rolling = d.rolling /\ a.tombs = d.tombs /\ a.policy = d.policy
        /\ a.stats = d.stats /\ a.summary = d.summary /\ a.staged = d.staged
    BY <1>1, ArchiveWrites
  <1> HIDE DEF a
  <1>3. /\ u \in Databases /\ u.staged = a.staged \ {f.req}
        /\ u.archive = a.archive /\ u.lastId = a.lastId /\ u.rolling = a.rolling
        /\ u.tombs = a.tombs /\ u.policy = a.policy /\ u.stats = a.stats
        /\ u.summary = a.summary
    BY <1>2, UnstageWrites
  <1>4. e = [u EXCEPT !.rolling = R, !.tombs = T]
    <2>1. e = [u EXCEPT !.rolling = [u.rolling EXCEPT ![s] = NoFrame],
                        !.tombs = [i \in 1 .. Len(u.tombs) |->
                                     IF u.tombs[i].cap = f.cap
                                     THEN [u.tombs[i] EXCEPT !.res = "RAW_ARCHIVED"]
                                     ELSE u.tombs[i]]]
      BY DEF FinalizeLatest, a
    <2>2. u.rolling = d.rolling /\ u.tombs = d.tombs
      BY <1>2, <1>3
    <2> HIDE DEF u
    <2>3. /\ R = [u.rolling EXCEPT ![s] = NoFrame]
          /\ T = [i \in 1 .. Len(u.tombs) |->
                    IF u.tombs[i].cap = f.cap THEN [u.tombs[i] EXCEPT !.res = "RAW_ARCHIVED"]
                    ELSE u.tombs[i]]
      BY <2>2
    <2> HIDE DEF R, T, new, f
    <2>4. QED
      BY <2>1, <2>3
  <1> HIDE DEF u
  <1>5. /\ R \in [Sessions -> AllFrames \cup {NoFrame}] /\ R[s] = NoFrame
        /\ \A r \in Sessions : r # s => R[r] = d.rolling[r]
    BY Tables
  <1>6. \A t \in Tombs : new(t) \in Tombs /\ new(t).cap = t.cap /\ new(t).session = t.session
                         /\ (t.cap # f.cap => new(t) = t)
    BY DEF Tombs, Resolutions
  <1>7. d.tombs \in Seq(Tombs)
    BY Tables
  <1>8. Len(d.tombs) \in Nat /\ \A i \in 1 .. Len(d.tombs) : d.tombs[i] \in Tombs
    <2> DEFINE D == d.tombs
    <2>1. D \in Seq(Tombs)
      BY <1>7
    <2> HIDE DEF D
    <2>2. Len(D) \in Nat /\ \A i \in 1 .. Len(D) : D[i] \in Tombs
      BY <2>1
    <2>3. QED
      BY <2>2 DEF D
  <1>9. \A i \in 1 .. Len(d.tombs) : T[i] = new(d.tombs[i])
    OBVIOUS
  <1> HIDE DEF new
  <1>10. T \in Seq(Tombs) /\ Len(T) = Len(d.tombs)
    BY <1>6, <1>8
  <1> HIDE DEF T, R, f
  <1>11. /\ e \in Databases /\ e.rolling = R /\ e.tombs = T
         /\ e.archive = u.archive /\ e.lastId = u.lastId /\ e.staged = u.staged
         /\ e.policy = u.policy /\ e.stats = u.stats /\ e.summary = u.summary
    BY <1>3, <1>4, <1>5, <1>10 DEF Databases
  <1>12. SameTombs(d, e) /\ \A i \in 1 .. Len(d.tombs) : d.tombs[i].cap # f.cap => e.tombs[i] = d.tombs[i]
    BY <1>6, <1>7, <1>8, <1>9, <1>10, <1>11 DEF SameTombs
  <1>13. Settling(d, e, f, s)
    BY <1>2, <1>3, <1>5, <1>11, <1>12 DEF Settling
  <1>14. QED
    BY <1>11, <1>13 DEF f

\* What the end of session s leaves as it is.
EndKeeps(d, e, own, ask, s) ==
    /\ e.policy = d.policy /\ e.stats = d.stats
    /\ \A c : Decided(e, c) <=> Decided(d, c)
    /\ AsAsked(own, ask) => \A r \in d.staged : r # s => r \in e.staged

Typed(own, ask, save) == own \in Owners /\ ask \in Owners /\ save \in [Sessions -> SavePolicies]

LEMMA SettlingGood ==
    ASSUME NEW d, NEW own, NEW ask, NEW save, NEW lv, NEW s \in Sessions,
           NearlyGood(d, own, ask, save, lv, s), Typed(own, ask, save),
           save[s] = "SAVE_LAST", Rolling(d, own, s), d.rolling[s] # NoFrame,
           NEW e, e = FinalizeLatest(d, s)
    PROVE  /\ NearlyGood(e, own, ask, save, lv, s) /\ Settled(e, own, s)
           /\ EndKeeps(d, e, own, ask, s) /\ e.summary = d.summary
  <1> DEFINE f == d.rolling[s]
  <1>0. /\ d \in Databases /\ own \in Owners /\ ask \in Owners
        /\ TombsGood(d, own) /\ RowsGood(d, own) /\ PoliciesGood(d, save)
        /\ PlansGood(d, own, ask, lv) /\ \A c \in lv : own[c] # 0
        /\ StatsGood(d, own, s) /\ RollingGood(d, own, ask, save, s)
    BY DEF NearlyGood, TablesGood, OpenGood, Typed
  <1>1. f \in AllFrames /\ f.cap \in Captures
    BY <1>0, Tables, FrameType
  <1>2. own[f.cap] = s /\ f.req = ask[f.cap]
    BY <1>0 DEF RollingGood
  <1>3. f.cap \in Own(own, s) /\ d.stats[s].last = f.cap
    BY <1>1, <1>2 DEF Own, Rolling
  <1>4. RowsOf(d, s) = {} /\ Fil(d, s) = {}
    BY DEF Rolling, Fil
  <1>5. \A row \in d.archive : row.cap # f.cap
    BY <1>0, <1>2, <1>4 DEF RowsGood, RowsOf
  <1>6. e \in Databases /\ Settling(d, e, f, s)
    BY <1>0, <1>5, FinalizeLatestWrites
  <1> HIDE DEF f
  <1>7. /\ e.archive = d.archive \cup {RowFor(d, f, s)} /\ e.lastId = d.lastId + 1
        /\ e.rolling[s] = NoFrame /\ \A r \in Sessions : r # s => e.rolling[r] = d.rolling[r]
        /\ SameTombs(d, e)
        /\ \A i \in 1 .. Len(d.tombs) : d.tombs[i].cap # f.cap => e.tombs[i] = d.tombs[i]
        /\ e.policy = d.policy /\ e.stats = d.stats /\ e.summary = d.summary
        /\ e.staged = d.staged \ {f.req}
    BY <1>6 DEF Settling
  <1>8. TombsGood(e, own) /\ \A c : Decided(e, c) <=> Decided(d, c)
    BY <1>0, <1>7, SameTombsGood
  <1>9. /\ RowsGood(e, own) /\ Fil(e, s) = Fil(d, s) \cup {f.cap}
        /\ \A r \in Sessions : r # s => RowsOf(e, r) = RowsOf(d, r)
    <2>1. \A row \in RowsOf(d, s) : row.cap < f.cap
      BY <1>4
    <2>2. Filing(d, e, own, own, f, s)
      BY <1>0, <1>1, <1>2, <1>5, <1>7, <2>1 DEF Filing
    <2>3. QED
      BY <2>2, RowsAfterFiling
  <1>10. \A r \in Sessions : r # s => SessionGood(e, own, ask, save, r)
    <2> SUFFICES ASSUME NEW r \in Sessions, r # s PROVE SessionGood(e, own, ask, save, r)
      OBVIOUS
    <2>1. SessionGood(d, own, ask, save, r)
      BY DEF NearlyGood
    <2>2. TombsKept(e, d, r)
      <3> SUFFICES ASSUME NEW i \in 1 .. Len(e.tombs), e.tombs[i].session = r
                   PROVE  \E j \in 1 .. Len(d.tombs) : e.tombs[i] = d.tombs[j]
        BY DEF TombsKept
      <3>1. i \in 1 .. Len(d.tombs) /\ d.tombs[i].session = r
        BY <1>7 DEF SameTombs
      <3>2. own[d.tombs[i].cap] = r
        BY <1>0, <3>1 DEF TombsGood
      <3>3. QED
        BY <1>2, <1>7, <3>1, <3>2
    <2>3. RowsOf(e, r) = RowsOf(d, r) /\ e.rolling[r] = d.rolling[r] /\ e.stats[r] = d.stats[r]
          /\ e.summary[r] = d.summary[r]
      BY <1>7, <1>9
    <2>4. QED
      BY <2>1, <2>2, <2>3, OtherSession
  <1>11. AsAsked(own, ask) => f.req = s
    BY <1>1, <1>2, Constants DEF AsAsked
  <1>12. PlansGood(e, own, ask, lv)
    <2> SUFFICES ASSUME AsAsked(own, ask)
                 PROVE  /\ \A row \in e.archive : row.cap \in lv => row.plan
                        /\ \A r \in Sessions :
                             e.rolling[r] # NoFrame /\ e.rolling[r].cap \in lv => r \in e.staged
      BY DEF PlansGood
    <2>1. /\ \A row \in d.archive : row.cap \in lv => row.plan
          /\ \A r \in Sessions :
               d.rolling[r] # NoFrame /\ d.rolling[r].cap \in lv => r \in d.staged
      BY <1>0 DEF PlansGood
    <2>2. RowFor(d, f, s).cap \in lv => RowFor(d, f, s).plan
      BY <1>11, <2>1 DEF RowFor, f
    <2>3. \A row \in e.archive : row.cap \in lv => row.plan
      BY <1>7, <2>1, <2>2
    <2>4. \A r \in Sessions :
            e.rolling[r] # NoFrame /\ e.rolling[r].cap \in lv => r \in e.staged
      BY <1>7, <1>11, <2>1
    <2>5. QED
      BY <2>3, <2>4
  <1>13. PoliciesGood(e, save)
    BY <1>0, <1>7 DEF PoliciesGood
  <1>14. OpenGood(e, own, ask, save, s)
    BY <1>0, <1>7 DEF OpenGood, StatsGood, RollingGood, AllOrNone
  <1>15. Settled(e, own, s)
    BY <1>3, <1>4, <1>7, <1>9 DEF Settled
  <1>16. EndKeeps(d, e, own, ask, s)
    BY <1>7, <1>8, <1>11 DEF EndKeeps
  <1>17. QED
    BY <1>0, <1>6, <1>7, <1>8, <1>9, <1>10, <1>12, <1>13, <1>14, <1>15, <1>16
    DEF NearlyGood, TablesGood

LEMMA FinalizeLatestGood ==
    ASSUME NEW d, NEW own, NEW ask, NEW save, NEW lv, NEW s \in Sessions,
           NearlyGood(d, own, ask, save, lv, s), Typed(own, ask, save),
           save[s] = "SAVE_LAST", Rolling(d, own, s) \/ Settled(d, own, s),
           NEW e, e = FinalizeLatest(d, s)
    PROVE  /\ NearlyGood(e, own, ask, save, lv, s) /\ Settled(e, own, s)
           /\ EndKeeps(d, e, own, ask, s) /\ e.summary = d.summary
  <1>1. CASE d.rolling[s] = NoFrame
    <2>1. e = d
      BY <1>1 DEF FinalizeLatest
    <2>2. StatsGood(d, own, s)
      BY DEF NearlyGood, OpenGood
    <2>3. Settled(d, own, s)
      <3>1. ASSUME Rolling(d, own, s), Own(own, s) # {} PROVE FALSE
        <4>1. d.rolling[s].cap \in Own(own, s)
          BY <2>2, <3>1 DEF Rolling, StatsGood
        <4>2. QED
          BY <1>1, <4>1, NoFrameIsNone, Constants DEF Own
      <3>2. QED
        BY <1>1, <3>1 DEF Rolling, Settled
    <2>4. QED
      BY <2>1, <2>3 DEF EndKeeps
  <1>2. CASE d.rolling[s] # NoFrame
    <2>1. Rolling(d, own, s)
      BY <1>2 DEF Settled
    <2>2. QED
      BY <1>2, <2>1, SettlingGood
  <1>3. QED
    BY <1>1, <1>2

\* The summary of session s, taken from the tables.
SummaryFrom(g, s, state, old) ==
    [state |-> state, acquired |-> g.stats[s].acquired, saved |-> Cardinality(RowsOf(g, s)),
     discarded |-> Max({0, g.stats[s].acquired - Cardinality(RowsOf(g, s))}),
     last |-> IF g.stats[s].acquired > 0 THEN g.stats[s].last ELSE old,
     lastSaved |-> IF RowsOf(g, s) = {} THEN 0 ELSE LastRow(RowsOf(g, s)).cap]

LEMMA SummaryFromTables ==
    ASSUME NEW g \in Databases, NEW own \in Owners, NEW s \in Sessions, NEW state \in Terminal,
           NEW old \in Nat, RowsGood(g, own), StatsGood(g, own, s),
           NEW x, x = SummaryFrom(g, s, state, old)
    PROVE  /\ x \in Summaries /\ x.state = state /\ x.acquired = g.stats[s].acquired
           /\ x.saved = Cardinality(RowsOf(g, s))
           /\ x.discarded = g.stats[s].acquired - Cardinality(RowsOf(g, s))
           /\ Own(own, s) # {} => x.last = g.stats[s].last
           /\ x.lastSaved = IF RowsOf(g, s) = {} THEN 0 ELSE LastRow(RowsOf(g, s)).cap
  <1> DEFINE a == g.stats[s].acquired
             n == Cardinality(RowsOf(g, s))
             l == IF RowsOf(g, s) = {} THEN 0 ELSE LastRow(RowsOf(g, s)).cap
             w == g.stats[s].last
  <1>1. IsFiniteSet(Own(own, s)) /\ a = Cardinality(Own(own, s))
    BY DEF StatsGood
  <1>2. n \in Nat /\ n <= Cardinality(Own(own, s))
    BY <1>1, RowsCounted
  <1>3. a \in Nat /\ w \in Nat
    BY DEF Databases
  <1>4. Own(own, s) # {} => a > 0
    BY <1>1, <1>3, FS_EmptySet
  <1>5. l \in Nat
    <2>1. CASE RowsOf(g, s) = {}
      BY <2>1
    <2>2. CASE RowsOf(g, s) # {}
      <3>1. LastRow(RowsOf(g, s)) \in g.archive
        BY <2>2, LastRowIs DEF RowsOf
      <3>2. QED
        BY <2>2, <3>1, RowType, Constants
    <2>3. QED
      BY <2>1, <2>2
  <1>6. x = [state |-> state, acquired |-> a, saved |-> n, discarded |-> Max({0, a - n}),
             last |-> IF a > 0 THEN w ELSE old, lastSaved |-> l]
    BY DEF SummaryFrom
  <1> HIDE DEF a, n, l, w
  <1>7. Max({0, a - n}) = a - n /\ a - n \in Nat
    <2>1. a - n \in Int /\ 0 \in Int /\ a - n >= 0
      BY <1>1, <1>2, <1>3
    <2>2. QED
      BY <2>1, MaxOfTwo
  <1>8. state \in {"NONE"} \cup Active \cup Terminal
    OBVIOUS
  <1> DEFINE m == IF a > 0 THEN w ELSE old
  <1>9. m \in Nat /\ (a > 0 => m = w)
    BY <1>3
  <1>10. x = [state |-> state, acquired |-> a, saved |-> n, discarded |-> a - n, last |-> m,
              lastSaved |-> l]
    BY <1>6, <1>7
  <1> HIDE DEF m
  <1>11. x \in Summaries
    BY <1>2, <1>3, <1>5, <1>7, <1>8, <1>9, <1>10 DEF Summaries
  <1>12. /\ x.state = state /\ x.acquired = a /\ x.saved = n /\ x.discarded = a - n
         /\ x.last = m /\ x.lastSaved = l
    BY <1>10
  <1>13. QED
    BY <1>4, <1>9, <1>11, <1>12 DEF a, n, l, w

\* The summary is written over tables that are ready for it.
Closing(g, e, s, state) ==
    e = [g EXCEPT !.summary[s] = SummaryFrom(g, s, state, g.summary[s].last)]

LEMMA CloseGood ==
    ASSUME NEW g, NEW own, NEW ask, NEW save, NEW lv, NEW s \in Sessions, NEW state \in Terminal,
           NearlyGood(g, own, ask, save, lv, s), Typed(own, ask, save),
           save[s] = "SAVE_LAST" => Settled(g, own, s),
           NEW e, Closing(g, e, s, state)
    PROVE  /\ StoreGood(e, own, ask, save, lv)
           /\ e.summary[s].state = state
           /\ \A r \in Sessions : r # s => e.summary[r] = g.summary[r]
           /\ e.policy = g.policy /\ e.stats = g.stats /\ e.tombs = g.tombs /\ e.staged = g.staged
  <1>0. /\ g \in Databases /\ own \in Owners /\ TombsGood(g, own) /\ RowsGood(g, own)
        /\ PoliciesGood(g, save) /\ PlansGood(g, own, ask, lv) /\ \A c \in lv : own[c] # 0
        /\ OpenGood(g, own, ask, save, s) /\ StatsGood(g, own, s)
    BY DEF NearlyGood, TablesGood, OpenGood, Typed
  <1> DEFINE x == SummaryFrom(g, s, state, g.summary[s].last)
  <1>1. g.summary[s].last \in Nat
    BY <1>0 DEF Databases, Summaries
  <1>2. /\ x \in Summaries /\ x.state = state /\ x.acquired = g.stats[s].acquired
        /\ x.saved = Cardinality(RowsOf(g, s))
        /\ x.discarded = g.stats[s].acquired - Cardinality(RowsOf(g, s))
        /\ Own(own, s) # {} => x.last = g.stats[s].last
        /\ x.lastSaved = IF RowsOf(g, s) = {} THEN 0 ELSE LastRow(RowsOf(g, s)).cap
    BY <1>0, <1>1, SummaryFromTables
  <1>x. e = [g EXCEPT !.summary[s] = x]
    BY DEF Closing
  <1> HIDE DEF x
  <1> DEFINE S == [g.summary EXCEPT ![s] = x]
  <1>3. S \in [Sessions -> Summaries] /\ S[s] = x /\ \A r \in Sessions : r # s => S[r] = g.summary[r]
    BY <1>0, <1>2, Tables
  <1>4. e = [g EXCEPT !.summary = S]
    BY <1>x
  <1> HIDE DEF S
  <1>5. /\ e \in Databases /\ e.summary = S
        /\ e.archive = g.archive /\ e.lastId = g.lastId /\ e.rolling = g.rolling
        /\ e.tombs = g.tombs /\ e.policy = g.policy /\ e.stats = g.stats /\ e.staged = g.staged
    BY <1>0, <1>3, <1>4 DEF Databases
  <1>6. RowsGood(e, own) /\ \A r : RowsOf(e, r) = RowsOf(g, r) /\ Fil(e, r) = Fil(g, r)
    <2>1. SameRows(g, e, own, own)
      BY <1>0, <1>5 DEF SameRows
    <2>2. QED
      BY <2>1, RowsKept
  <1>7. TombsGood(e, own) /\ PoliciesGood(e, save) /\ PlansGood(e, own, ask, lv)
    BY <1>0, <1>5 DEF TombsGood, PoliciesGood, PlansGood
  <1>8. \A r \in Sessions : r # s => SessionGood(e, own, ask, save, r)
    <2> SUFFICES ASSUME NEW r \in Sessions, r # s PROVE SessionGood(e, own, ask, save, r)
      OBVIOUS
    <2>1. SessionGood(g, own, ask, save, r) /\ TombsKept(e, g, r)
      BY <1>5 DEF NearlyGood, TombsKept
    <2>2. QED
      BY <1>3, <1>5, <1>6, <2>1, OtherSession
  <1>9. OpenGood(e, own, ask, save, s)
    BY <1>0, <1>5, <1>6 DEF OpenGood, StatsGood, RollingGood, AllOrNone
  <1>10. LatestGood(e, own, save, s)
    BY <1>2, <1>3, <1>5, <1>6 DEF LatestGood, Settled
  <1>11. SummaryGood(e, own, s)
    BY <1>2, <1>3, <1>5, <1>6 DEF SummaryGood
  <1>12. QED
    BY <1>0, <1>2, <1>3, <1>5, <1>6, <1>7, <1>8, <1>9, <1>10, <1>11
    DEF StoreGood, TablesGood, SessionGood

\* The end of session s, in whatever state its last capture is.
LEMMA FinalizeGood ==
    ASSUME NEW d, NEW own, NEW ask, NEW save, NEW lv, NEW s \in Sessions, NEW state \in Terminal,
           NearlyGood(d, own, ask, save, lv, s), Typed(own, ask, save),
           save[s] = "SAVE_LAST" => Rolling(d, own, s) \/ Settled(d, own, s),
           NEW e, e = FinalizeSummary(d, s, state, save[s])
    PROVE  /\ StoreGood(e, own, ask, save, lv)
           /\ e.summary[s].state = state
           /\ \A r \in Sessions : r # s => e.summary[r] = d.summary[r]
           /\ EndKeeps(d, e, own, ask, s)
  <1> DEFINE g == IF save[s] = "SAVE_LAST" THEN FinalizeLatest(d, s) ELSE d
  <1>1. /\ NearlyGood(g, own, ask, save, lv, s) /\ EndKeeps(d, g, own, ask, s)
        /\ g.summary = d.summary /\ (save[s] = "SAVE_LAST" => Settled(g, own, s))
    <2>1. CASE save[s] = "SAVE_LAST"
      BY <2>1, FinalizeLatestGood
    <2>2. CASE save[s] # "SAVE_LAST"
      BY <2>2 DEF EndKeeps
    <2>3. QED
      BY <2>1, <2>2
  <1>2. d \in Databases /\ g \in Databases
    BY <1>1 DEF NearlyGood, TablesGood
  <1>3. g.stats = d.stats
    BY <1>1 DEF EndKeeps
  <1>4. e = [g EXCEPT !.summary[s] =
               [state |-> state, acquired |-> d.stats[s].acquired,
                saved |-> Cardinality(RowsOf(g, s)),
                discarded |-> Max({0, d.stats[s].acquired - Cardinality(RowsOf(g, s))}),
                last |-> IF d.stats[s].acquired > 0 THEN d.stats[s].last ELSE g.summary[s].last,
                lastSaved |-> IF RowsOf(g, s) = {} THEN 0 ELSE LastRow(RowsOf(g, s)).cap]]
    <2>1. g.summary \in [Sessions -> Summaries]
      BY <1>2, Tables
    <2>2. QED
      BY <2>1 DEF FinalizeSummary
  <1> HIDE DEF g
  <1>5. Closing(g, e, s, state)
    BY <1>3, <1>4 DEF SummaryFrom, Closing
  <1>6. /\ StoreGood(e, own, ask, save, lv) /\ e.summary[s].state = state
        /\ \A r \in Sessions : r # s => e.summary[r] = g.summary[r]
        /\ e.policy = g.policy /\ e.stats = g.stats /\ e.tombs = g.tombs /\ e.staged = g.staged
    BY <1>1, <1>5, CloseGood
  <1>7. EndKeeps(d, e, own, ask, s)
    BY <1>1, <1>6 DEF EndKeeps, Decided
  <1>8. QED
    BY <1>1, <1>6, <1>7

-----------------------------------------------------------------------------
(* Second deliveries and replays. *)

LEMMA TombTypes ==
    ASSUME NEW d \in Databases, NEW i \in 1 .. Len(d.tombs)
    PROVE  /\ d.tombs[i] \in Tombs /\ d.tombs[i].cap \in Captures
           /\ d.tombs[i].res \in Resolutions /\ d.tombs[i].session \in Sessions
  <1> DEFINE D == d.tombs
  <1>1. D \in Seq(Tombs) /\ i \in 1 .. Len(D)
    BY Tables
  <1> HIDE DEF D
  <1>2. D[i] \in Tombs
    BY <1>1
  <1>3. D[i].cap \in Captures /\ D[i].res \in Resolutions /\ D[i].session \in Sessions
    BY <1>2 DEF Tombs
  <1>4. QED
    BY <1>2, <1>3 DEF D

\* The newest capture has a tombstone exactly when it was decided: pruning
\* never takes it.
LEMMA NewestDecided ==
    ASSUME NEW d \in Databases, NEW own \in Owners, TombsGood(d, own), NEW c \in Captures,
           \A x \in Captures : own[x] # 0 => x <= c
    PROVE  /\ Decided(d, c) <=> own[c] # 0
           /\ Decided(d, c) => Resolution(d, c) \in Resolutions
  <1>1. Decided(d, c) => own[c] # 0
    BY TombTypes, Constants DEF Decided, TombsGood
  <1>2. own[c] # 0 => Decided(d, c)
    <2> SUFFICES ASSUME own[c] # 0 PROVE Decided(d, c)
      OBVIOUS
    <2> DEFINE n == Len(d.tombs)
    <2>1. d.tombs # <<>> /\ c <= d.tombs[n].cap
      BY DEF TombsGood
    <2>2. n \in 1 .. n
      <3> DEFINE D == d.tombs
      <3>1. D \in Seq(Tombs) /\ D # <<>>
        BY <2>1, Tables
      <3> HIDE DEF D
      <3>2. Len(D) \in 1 .. Len(D)
        BY <3>1
      <3>3. QED
        BY <3>2 DEF D
    <2>3. d.tombs[n].cap \in Captures /\ own[d.tombs[n].cap] # 0
      BY <2>2, TombTypes, Constants DEF TombsGood
    <2> DEFINE x == d.tombs[n].cap
    <2>4. x = c
      <3>1. x \in Captures /\ own[x] # 0 /\ c <= x
        BY <2>1, <2>3
      <3> HIDE DEF x
      <3>2. x <= c
        BY <3>1
      <3>3. x \in Nat /\ c \in Nat
        BY <3>1, Constants
      <3>4. QED
        BY <3>1, <3>2, <3>3
    <2>5. QED
      BY <2>2, <2>4 DEF Decided
  <1>3. Decided(d, c) => Resolution(d, c) \in Resolutions
    BY TombTypes DEF Decided, Resolution
  <1>4. QED
    BY <1>1, <1>2, <1>3

\* Frame f is delivered a second time.
Again(d, e, ask, f) ==
    /\ f \in AllFrames /\ f.req = ask[f.cap] /\ Decided(d, f.cap)
    /\ e = IF Resolution(d, f.cap) = "ROLLING_LATEST" THEN d ELSE Unstage(d, f.req)

\* A second delivery leaves everything as it is but what is staged for it.
LEMMA DecidedAgain ==
    ASSUME NEW d, NEW own, NEW ask, NEW save, NEW lv, NEW f,
           StoreGood(d, own, ask, save, lv), Typed(own, ask, save), NEW e, Again(d, e, ask, f)
    PROVE  /\ StoreGood(e, own, ask, save, lv)
           /\ e.summary = d.summary /\ e.policy = d.policy /\ e.tombs = d.tombs
  <1>0. f \in AllFrames /\ f.req = ask[f.cap] /\ Decided(d, f.cap)
    BY DEF Again
  <1>1. CASE Resolution(d, f.cap) = "ROLLING_LATEST"
    BY <1>1 DEF Again
  <1>2. CASE Resolution(d, f.cap) # "ROLLING_LATEST"
    <2>1. e = Unstage(d, f.req)
      BY <1>2 DEF Again
    <2>2. /\ d \in Databases /\ own \in Owners /\ TombsGood(d, own) /\ RowsGood(d, own)
          /\ PoliciesGood(d, save) /\ PlansGood(d, own, ask, lv) /\ \A c \in lv : own[c] # 0
      BY DEF StoreGood, TablesGood, Typed
    <2>3. /\ e \in Databases /\ e.staged = d.staged \ {f.req}
          /\ e.archive = d.archive /\ e.lastId = d.lastId /\ e.rolling = d.rolling
          /\ e.tombs = d.tombs /\ e.policy = d.policy /\ e.stats = d.stats
          /\ e.summary = d.summary
      BY <2>1, <2>2, UnstageWrites
    <2>4. \A r \in Sessions : SessionGood(e, own, ask, save, r)
      <3> SUFFICES ASSUME NEW r \in Sessions PROVE SessionGood(e, own, ask, save, r)
        OBVIOUS
      <3>1. SessionGood(d, own, ask, save, r) /\ TombsKept(e, d, r) /\ RowsOf(e, r) = RowsOf(d, r)
        BY <2>3 DEF StoreGood, TombsKept, RowsOf
      <3>2. QED
        BY <2>3, <3>1, OtherSession
    <2>5. AsAsked(own, ask) => f.req \in Sessions /\ d.rolling[f.req] = NoFrame
      <3> SUFFICES ASSUME AsAsked(own, ask), d.rolling[f.req] # NoFrame PROVE FALSE
        BY <1>0, FrameType
      <3> DEFINE r == f.req
      <3>1. r \in Sessions /\ f.cap \in Captures
        BY <1>0, FrameType
      <3>2. PICK i \in 1 .. Len(d.tombs) :
              d.tombs[i].cap = f.cap /\ Resolution(d, f.cap) = d.tombs[i].res
        BY <1>0 DEF Decided, Resolution
      <3>3. d.tombs[i].session = r
        <4>1. own[f.cap] = d.tombs[i].session /\ d.tombs[i].session # 0
          BY <2>2, <3>2, TombTypes, Constants DEF TombsGood
        <4>2. QED
          BY <1>0, <3>1, <4>1 DEF AsAsked
      <3>4. SessionGood(d, own, ask, save, r)
        BY <3>1 DEF StoreGood
      <3>5. save[r] = "SAVE_LAST"
        BY <3>1, <3>4 DEF SessionGood, OpenGood, RollingGood
      <3>6. Rolling(d, own, r)
        BY <3>4, <3>5 DEF SessionGood, LatestGood, Settled
      <3>7. QED
        BY <1>2, <3>2, <3>3, <3>6 DEF Rolling
    <2>6. PlansGood(e, own, ask, lv)
      BY <2>2, <2>3, <2>5 DEF PlansGood
    <2>7. TombsGood(e, own) /\ PoliciesGood(e, save) /\ RowsGood(e, own)
      BY <2>2, <2>3 DEF TombsGood, PoliciesGood, RowsGood
    <2>8. QED
      BY <2>2, <2>3, <2>4, <2>6, <2>7 DEF StoreGood, TablesGood
  <1>3. QED
    BY <1>1, <1>2

\* The rows of session s are taken out of the archive.
Superseded(d, e, s) ==
    /\ e.archive = {row \in d.archive : row.session # s} /\ e.lastId = d.lastId
    /\ e.rolling = d.rolling /\ e.policy = d.policy /\ e.stats = d.stats
    /\ e.summary = d.summary /\ e.staged = d.staged
    /\ SameTombs(d, e)
    /\ \A i \in 1 .. Len(d.tombs) : d.tombs[i].session # s => e.tombs[i] = d.tombs[i]

LEMMA SupersedeWrites ==
    ASSUME NEW d \in Databases, NEW s, NEW e, e = Supersede(d, s)
    PROVE  e \in Databases /\ Superseded(d, e, s)
  <1> DEFINE new(t) == IF t.session = s THEN [t EXCEPT !.res = "DISCARDED_BY_POLICY"] ELSE t
             T == [i \in 1 .. Len(d.tombs) |-> new(d.tombs[i])]
             A == {row \in d.archive : row.session # s}
  <1>1. e = [d EXCEPT !.archive = A, !.tombs = T]
    BY DEF Supersede
  <1>2. \A t \in Tombs : new(t) \in Tombs /\ new(t).cap = t.cap /\ new(t).session = t.session
                         /\ (t.session # s => new(t) = t)
    BY DEF Tombs, Resolutions
  <1>3. d.tombs \in Seq(Tombs)
    BY Tables
  <1>4. Len(d.tombs) \in Nat /\ \A i \in 1 .. Len(d.tombs) : d.tombs[i] \in Tombs
    <2>1. \A i \in 1 .. Len(d.tombs) : d.tombs[i] \in Tombs
      BY TombTypes
    <2>2. QED
      BY <1>3, <2>1
  <1>5. \A i \in 1 .. Len(d.tombs) : T[i] = new(d.tombs[i])
    OBVIOUS
  <1> HIDE DEF new
  <1>6. T \in Seq(Tombs) /\ Len(T) = Len(d.tombs)
    BY <1>2, <1>4
  <1>7. A \in SUBSET Rows
    BY Tables
  <1> HIDE DEF T, A
  <1>8. /\ e \in Databases /\ e.archive = A /\ e.tombs = T
        /\ e.rolling = d.rolling /\ e.lastId = d.lastId /\ e.staged = d.staged
        /\ e.policy = d.policy /\ e.stats = d.stats /\ e.summary = d.summary
    BY <1>1, <1>6, <1>7 DEF Databases
  <1>9. SameTombs(d, e) /\ \A i \in 1 .. Len(d.tombs) : d.tombs[i].session # s => e.tombs[i] = d.tombs[i]
    BY <1>2, <1>3, <1>4, <1>5, <1>6, <1>8 DEF SameTombs
  <1>10. QED
    BY <1>8, <1>9 DEF Superseded, A

LEMMA SupersedeGood ==
    ASSUME NEW d, NEW own, NEW ask, NEW save, NEW lv, NEW s \in Sessions,
           NearlyGood(d, own, ask, save, lv, s), save[s] = "SAVE_LAST",
           NEW e, e = Supersede(d, s)
    PROVE  /\ NearlyGood(e, own, ask, save, lv, s) /\ Fil(e, s) = {}
           /\ e.rolling = d.rolling /\ e.summary = d.summary /\ e.policy = d.policy
  <1>0. /\ d \in Databases /\ TombsGood(d, own) /\ RowsGood(d, own) /\ PoliciesGood(d, save)
        /\ PlansGood(d, own, ask, lv) /\ \A c \in lv : own[c] # 0
        /\ OpenGood(d, own, ask, save, s)
    BY DEF NearlyGood, TablesGood
  <1>1. e \in Databases /\ Superseded(d, e, s)
    BY <1>0, SupersedeWrites
  <1>2. /\ e.archive = {row \in d.archive : row.session # s} /\ e.lastId = d.lastId
        /\ e.rolling = d.rolling /\ e.policy = d.policy /\ e.stats = d.stats
        /\ e.summary = d.summary /\ e.staged = d.staged
        /\ SameTombs(d, e)
        /\ \A i \in 1 .. Len(d.tombs) : d.tombs[i].session # s => e.tombs[i] = d.tombs[i]
    BY <1>1 DEF Superseded
  <1>3. TombsGood(e, own)
    BY <1>0, <1>2, SameTombsGood
  <1>4. RowsGood(e, own) /\ \A r : RowsOf(e, r) = IF r = s THEN {} ELSE RowsOf(d, r)
    BY <1>0, <1>2 DEF RowsGood, RowsOf
  <1>5. Fil(e, s) = {}
    BY <1>4 DEF Fil
  <1>6. PoliciesGood(e, save) /\ PlansGood(e, own, ask, lv)
    BY <1>0, <1>2 DEF PoliciesGood, PlansGood
  <1>7. OpenGood(e, own, ask, save, s)
    BY <1>0, <1>2 DEF OpenGood, StatsGood, RollingGood, AllOrNone
  <1>8. \A r \in Sessions : r # s => SessionGood(e, own, ask, save, r)
    <2> SUFFICES ASSUME NEW r \in Sessions, r # s PROVE SessionGood(e, own, ask, save, r)
      OBVIOUS
    <2>1. SessionGood(d, own, ask, save, r) /\ RowsOf(e, r) = RowsOf(d, r)
      BY <1>4 DEF NearlyGood
    <2>2. TombsKept(e, d, r)
      BY <1>2 DEF TombsKept, SameTombs
    <2>3. QED
      BY <1>2, <2>1, <2>2, OtherSession
  <1>9. QED
    BY <1>0, <1>1, <1>2, <1>3, <1>4, <1>5, <1>6, <1>7, <1>8 DEF NearlyGood, TablesGood

\* A capture that is replayed after the end of its session.
LEMMA TerminalReplayGood ==
    ASSUME NEW d, NEW own, NEW own2, NEW ask, NEW save, NEW lv,
           NEW f, NEW s, Decidable(d, own, own2, ask, save, lv, lv, f, s),
           SessionGood(d, own, ask, save, s), d.summary[s].state \in Terminal,
           NEW e, e = TerminalReplay(d, f, s, save[s])
    PROVE  /\ StoreGood(e, own2, ask, save, lv)
           /\ e.summary[s].state = d.summary[s].state
           /\ \A r \in Sessions : r # s => e.summary[r] = d.summary[r]
           /\ e.policy = d.policy
  <1> DEFINE room == IF save[s] = "SAVE_LAST" THEN Supersede(d, s) ELSE d
             sv   == IF save[s] = "SAVE_NONE" THEN "SAVE_NONE" ELSE "SAVE_ALL"
             h    == Decide(room, f, s, sv)
             state == d.summary[s].state
  <1>0. /\ save[s] \in SavePolicies /\ s \in Sessions /\ NearlyGood(d, own, ask, save, lv, s)
        /\ Typed(own, ask, save) /\ DecidedFor(own, own2, f.cap, s) /\ f.cap \in Captures
    BY FrameType DEF Decidable, Typed
  <1>1. e = FinalizeSummary(h, s, state, save[s])
    BY <1>0 DEF TerminalReplay, Decide, SavePolicies
  <1>2. save[s] = "SAVE_LAST" => Settled(d, own, s)
    BY DEF SessionGood, LatestGood
  <1>3. /\ NearlyGood(room, own, ask, save, lv, s)
        /\ room.rolling = d.rolling /\ room.summary = d.summary /\ room.policy = d.policy
        /\ save[s] = "SAVE_LAST" => Fil(room, s) = {} /\ room.rolling[s] = NoFrame
    <2>1. CASE save[s] = "SAVE_LAST"
      <3>1. room = Supersede(d, s)
        BY <2>1
      <3> HIDE DEF room
      <3>2. /\ NearlyGood(room, own, ask, save, lv, s) /\ Fil(room, s) = {}
            /\ room.rolling = d.rolling /\ room.summary = d.summary /\ room.policy = d.policy
        BY <1>0, <2>1, <3>1, SupersedeGood
      <3>3. QED
        BY <1>2, <2>1, <3>2 DEF Settled
    <2>2. CASE save[s] # "SAVE_LAST"
      BY <1>0, <2>2
    <2>3. QED
      BY <2>1, <2>2
  <1>4. Decidable(room, own, own2, ask, save, lv, lv, f, s)
    <2>1. f.cap \notin lv
      BY DEF Decidable, NearlyGood, TablesGood, DecidedFor
    <2> HIDE DEF room
    <2>2. QED
      BY <1>3, <2>1 DEF Decidable
  <1> HIDE DEF room
  <1>5. /\ NearlyGood(h, own2, ask, save, lv, s)
        /\ h.summary = room.summary /\ h.policy = room.policy
        /\ save[s] = "SAVE_LAST" => Settled(h, own2, s)
    <2>1. CASE save[s] = "SAVE_NONE"
      BY <1>4, <2>1, DecideNoneGood
    <2>2. CASE save[s] # "SAVE_NONE"
      <3>1. h = Decide(room, f, s, "SAVE_ALL")
        BY <2>2
      <3>2. /\ NearlyGood(h, own2, ask, save, lv, s)
            /\ Fil(h, s) = Fil(room, s) \cup {f.cap} /\ h.rolling = room.rolling
            /\ h.stats[s].last = f.cap /\ Own(own2, s) # {}
            /\ h.summary = room.summary /\ h.policy = room.policy
        BY <1>3, <1>4, <2>2, <3>1, DecideAllGood
      <3>3. QED
        BY <1>3, <3>2 DEF Settled
    <2>3. QED
      BY <2>1, <2>2
  <1>6. Typed(own2, ask, save)
    BY <1>0 DEF Typed, DecidedFor
  <1> HIDE DEF h
  <1>7. /\ StoreGood(e, own2, ask, save, lv) /\ e.summary[s].state = state
        /\ \A r \in Sessions : r # s => e.summary[r] = h.summary[r]
        /\ EndKeeps(h, e, own2, ask, s)
    BY <1>0, <1>1, <1>5, <1>6, FinalizeGood
  <1>8. QED
    BY <1>3, <1>5, <1>7 DEF EndKeeps

-----------------------------------------------------------------------------
(* The smaller transactions. *)

\* Only the policies, the summaries and what is staged may differ.
SameCaptures(d, e) ==
    /\ e \in Databases
    /\ e.archive = d.archive /\ e.lastId = d.lastId /\ e.rolling = d.rolling
    /\ e.tombs = d.tombs /\ e.stats = d.stats

\* Summary, policies and staged configurations that do no harm.
Harmless(d, e, save) ==
    /\ SameCaptures(d, e) /\ PoliciesGood(e, save) /\ d.staged \subseteq e.staged
    /\ \A s \in Sessions :
         \/ e.summary[s] = d.summary[s]
         \/ d.summary[s].state \notin Terminal /\ e.summary[s].state \notin Terminal

LEMMA HarmlessGood ==
    ASSUME NEW d, NEW e, NEW own, NEW ask, NEW save, NEW lv,
           StoreGood(d, own, ask, save, lv), Harmless(d, e, save)
    PROVE  StoreGood(e, own, ask, save, lv) /\ \A c : Decided(e, c) <=> Decided(d, c)
  <1>0. /\ e \in Databases
        /\ e.archive = d.archive /\ e.lastId = d.lastId /\ e.rolling = d.rolling
        /\ e.tombs = d.tombs /\ e.stats = d.stats /\ PoliciesGood(e, save)
        /\ d.staged \subseteq e.staged
    BY DEF Harmless, SameCaptures
  <1>1. TombsGood(e, own) /\ RowsGood(e, own) /\ PlansGood(e, own, ask, lv)
        /\ \A c \in lv : own[c] # 0
    BY <1>0 DEF StoreGood, TablesGood, TombsGood, RowsGood, PlansGood
  <1>2. \A s \in Sessions : SessionGood(e, own, ask, save, s)
    <2> SUFFICES ASSUME NEW s \in Sessions PROVE SessionGood(e, own, ask, save, s)
      OBVIOUS
    <2>1. SessionGood(d, own, ask, save, s) /\ RowsOf(e, s) = RowsOf(d, s) /\ Fil(e, s) = Fil(d, s)
          /\ TombsKept(e, d, s)
      BY <1>0 DEF StoreGood, RowsOf, Fil, TombsKept
    <2>2. CASE e.summary[s] = d.summary[s]
      BY <1>0, <2>1, <2>2, OtherSession
    <2>3. CASE d.summary[s].state \notin Terminal /\ e.summary[s].state \notin Terminal
      <3>1. OpenGood(e, own, ask, save, s)
        BY <1>0, <2>1 DEF SessionGood, OpenGood, StatsGood, RollingGood, AllOrNone
      <3>2. LatestGood(e, own, save, s) /\ SummaryGood(e, own, s)
        BY <1>0, <2>1, <2>3 DEF SessionGood, LatestGood, SummaryGood, Rolling
      <3>3. QED
        BY <3>1, <3>2 DEF SessionGood
    <2>4. QED
      BY <2>2, <2>3 DEF Harmless
  <1>3. \A c : Decided(e, c) <=> Decided(d, c)
    BY <1>0 DEF Decided
  <1>4. QED
    BY <1>0, <1>1, <1>2, <1>3 DEF StoreGood, TablesGood

LEMMA PolicyType ==
    ASSUME NEW d \in Databases, NEW b \in Boots
    PROVE  d.policy[b].session \in Sessions \cup {0} /\ d.policy[b].save \in SavePolicies
  BY DEF Databases

LEMMA RegisterGood ==
    ASSUME NEW d, NEW own, NEW ask, NEW save, NEW lv, StoreGood(d, own, ask, save, lv),
           save \in [Sessions -> SavePolicies], NEW b \in Boots, NEW s \in Sessions,
           NEW e, e = RegisterPolicy(d, b, s, save[s])
    PROVE  /\ Harmless(d, e, save) /\ e.summary = d.summary /\ e.staged = d.staged
           /\ e.policy[b].session = s
           /\ \A x \in Boots : x # b => e.policy[x] = d.policy[x]
  <1> DEFINE p == [session |-> s, save |-> save[s]]
             P == [d.policy EXCEPT ![b] = p]
  <1>0. d \in Databases /\ PoliciesGood(d, save)
    BY DEF StoreGood, TablesGood
  <1>1. p \in [session : Sessions \cup {0}, save : SavePolicies] /\ p.session = s /\ p.save = save[s]
    OBVIOUS
  <1>2. e = [d EXCEPT !.policy = P]
    BY DEF RegisterPolicy
  <1> HIDE DEF p
  <1>3. /\ P \in [Boots -> [session : Sessions \cup {0}, save : SavePolicies]] /\ P[b] = p
        /\ \A x \in Boots : x # b => P[x] = d.policy[x]
    BY <1>0, <1>1, Tables
  <1> HIDE DEF P
  <1>4. /\ e \in Databases /\ e.policy = P
        /\ e.archive = d.archive /\ e.lastId = d.lastId /\ e.rolling = d.rolling
        /\ e.tombs = d.tombs /\ e.stats = d.stats /\ e.summary = d.summary /\ e.staged = d.staged
    BY <1>0, <1>2, <1>3 DEF Databases
  <1>5. PoliciesGood(e, save)
    BY <1>0, <1>1, <1>3, <1>4, Constants DEF PoliciesGood
  <1>6. QED
    BY <1>1, <1>3, <1>4, <1>5 DEF Harmless, SameCaptures

LEMMA UnregisterGood ==
    ASSUME NEW d, NEW own, NEW ask, NEW save, NEW lv, StoreGood(d, own, ask, save, lv),
           NEW b, NEW s, NEW e, e = UnregisterPolicy(d, b, s)
    PROVE  /\ Harmless(d, e, save) /\ e.summary = d.summary /\ e.staged = d.staged
           /\ \A x \in Boots : e.policy[x].session \in {0, d.policy[x].session}
  <1>0. d \in Databases /\ PoliciesGood(d, save)
    BY DEF StoreGood, TablesGood
  <1>1. CASE d.policy[b].session = s
    <2> DEFINE P == [d.policy EXCEPT ![b] = NoPolicy]
    <2>1. NoPolicy \in [session : Sessions \cup {0}, save : SavePolicies] /\ NoPolicy.session = 0
      BY DEF NoPolicy, SavePolicies
    <2>2. /\ P \in [Boots -> [session : Sessions \cup {0}, save : SavePolicies]]
          /\ \A x \in Boots : P[x] = IF x = b THEN NoPolicy ELSE d.policy[x]
      BY <1>0, <2>1, Tables
    <2>3. e = [d EXCEPT !.policy = P]
      BY <1>1 DEF UnregisterPolicy
    <2> HIDE DEF P
    <2>4. /\ e \in Databases /\ e.policy = P
          /\ e.archive = d.archive /\ e.lastId = d.lastId /\ e.rolling = d.rolling
          /\ e.tombs = d.tombs /\ e.stats = d.stats /\ e.summary = d.summary /\ e.staged = d.staged
      BY <1>0, <2>2, <2>3 DEF Databases
    <2>5. PoliciesGood(e, save)
      BY <1>0, <2>1, <2>2, <2>4 DEF PoliciesGood
    <2>6. QED
      BY <2>1, <2>2, <2>4, <2>5 DEF Harmless, SameCaptures
  <1>2. CASE d.policy[b].session # s
    BY <1>0, <1>2 DEF UnregisterPolicy, Harmless, SameCaptures
  <1>3. QED
    BY <1>1, <1>2

LEMMA StageGood ==
    ASSUME NEW d, NEW own, NEW ask, NEW save, NEW lv, StoreGood(d, own, ask, save, lv),
           NEW s \in Sessions, NEW e, e = StageConfiguration(d, s)
    PROVE  /\ Harmless(d, e, save) /\ e.summary = d.summary /\ e.policy = d.policy
           /\ s \in e.staged
  <1>0. d \in Databases /\ PoliciesGood(d, save)
    BY DEF StoreGood, TablesGood
  <1> DEFINE S == d.staged \cup {s}
  <1>1. S \in SUBSET Sessions /\ s \in S /\ d.staged \subseteq S
    BY <1>0, Tables
  <1>2. e = [d EXCEPT !.staged = S]
    BY DEF StageConfiguration
  <1> HIDE DEF S
  <1>3. /\ e \in Databases /\ e.staged = S
        /\ e.archive = d.archive /\ e.lastId = d.lastId /\ e.rolling = d.rolling
        /\ e.tombs = d.tombs /\ e.stats = d.stats /\ e.summary = d.summary /\ e.policy = d.policy
    BY <1>0, <1>1, <1>2 DEF Databases
  <1>4. QED
    BY <1>0, <1>1, <1>3 DEF Harmless, SameCaptures, PoliciesGood

LEMMA SaveSummaryGood ==
    ASSUME NEW d, NEW own, NEW ask, NEW save, NEW lv, StoreGood(d, own, ask, save, lv),
           NEW s \in Sessions, NEW x \in Summaries, d.summary[s].state \notin Terminal,
           x.state \notin Terminal, NEW e, e = SaveSummary(d, s, x)
    PROVE  /\ Harmless(d, e, save) /\ e.policy = d.policy /\ e.staged = d.staged
           /\ e.summary[s] = x /\ \A r \in Sessions : r # s => e.summary[r] = d.summary[r]
  <1>0. d \in Databases /\ PoliciesGood(d, save)
    BY DEF StoreGood, TablesGood
  <1> DEFINE S == [d.summary EXCEPT ![s] = x]
  <1>1. S \in [Sessions -> Summaries] /\ S[s] = x /\ \A r \in Sessions : r # s => S[r] = d.summary[r]
    BY <1>0, Tables
  <1>2. e = [d EXCEPT !.summary = S]
    BY DEF SaveSummary
  <1> HIDE DEF S
  <1>3. /\ e \in Databases /\ e.summary = S
        /\ e.archive = d.archive /\ e.lastId = d.lastId /\ e.rolling = d.rolling
        /\ e.tombs = d.tombs /\ e.stats = d.stats /\ e.staged = d.staged /\ e.policy = d.policy
    BY <1>0, <1>1, <1>2 DEF Databases
  <1>4. QED
    BY <1>0, <1>1, <1>3 DEF Harmless, SameCaptures, PoliciesGood

LEMMA EmptyGood ==
    ASSUME NEW own, NEW ask, NEW save, own = [c \in Captures |-> 0]
    PROVE  StoreGood(EmptyStore, own, ask, save, {})
  <1> DEFINE d == EmptyStore
  <1>1. /\ d.archive = {} /\ d.lastId = 0 /\ d.tombs = <<>> /\ d.staged = {}
        /\ d.rolling = [s \in Sessions |-> NoFrame] /\ d.policy = [b \in Boots |-> NoPolicy]
        /\ d.stats = [s \in Sessions |-> [acquired |-> 0, last |-> 0]]
        /\ d.summary = [s \in Sessions |-> NoSummary]
    BY DEF EmptyStore
  <1>2. d \in Databases
    <2>1. NoSummary \in Summaries /\ NoPolicy \in [session : Sessions \cup {0}, save : SavePolicies]
      BY DEF NoSummary, Summaries, NoPolicy, SavePolicies
    <2>2. QED
      BY <2>1 DEF EmptyStore, Databases
  <1> HIDE DEF d
  <1>3. \A s \in Sessions : Own(own, s) = {} /\ RowsOf(d, s) = {} /\ Fil(d, s) = {}
    BY <1>1, Constants DEF Own, RowsOf, Fil
  <1>4. Len(d.tombs) = 0
    BY <1>1
  <1>5. TombsGood(d, own) /\ RowsGood(d, own) /\ PlansGood(d, own, ask, {})
    BY <1>1, <1>4 DEF TombsGood, RowsGood, PlansGood
  <1>6. PoliciesGood(d, save)
    BY <1>1 DEF PoliciesGood, NoPolicy
  <1>7. \A s \in Sessions : SessionGood(d, own, ask, save, s)
    <2> SUFFICES ASSUME NEW s \in Sessions PROVE SessionGood(d, own, ask, save, s)
      OBVIOUS
    <2>1. d.stats[s].acquired = 0 /\ d.rolling[s] = NoFrame /\ d.summary[s].state = "NONE"
      BY <1>1 DEF NoSummary
    <2>2. "NONE" \notin Terminal
      BY DEF Terminal
    <2>3. StatsGood(d, own, s)
      BY <1>3, <2>1, FS_EmptySet DEF StatsGood
    <2>4. RollingGood(d, own, ask, save, s) /\ AllOrNone(d, own, save, s)
      BY <1>3, <2>1 DEF RollingGood, AllOrNone
    <2>5. LatestGood(d, own, save, s) /\ SummaryGood(d, own, s)
      BY <1>3, <1>4, <2>1, <2>2 DEF LatestGood, SummaryGood, Rolling
    <2>6. QED
      BY <2>3, <2>4, <2>5 DEF SessionGood, OpenGood
  <1>8. QED
    BY <1>2, <1>5, <1>6, <1>7 DEF d, StoreGood, TablesGood

\* A capture is taken: what was asked for before stays.
LEMMA AskedGood ==
    ASSUME NEW d, NEW own \in Owners, NEW ask, NEW ask2, NEW save, NEW lv,
           StoreGood(d, own, ask, save, lv),
           \A c \in Captures : own[c] # 0 => ask2[c] = ask[c]
    PROVE  StoreGood(d, own, ask2, save, lv)
  <1>1. AsAsked(own, ask2) => AsAsked(own, ask)
    BY DEF AsAsked
  <1>2. PlansGood(d, own, ask2, lv)
    BY <1>1 DEF StoreGood, TablesGood, PlansGood
  <1>3. \A s \in Sessions : RollingGood(d, own, ask2, save, s)
    <2> SUFFICES ASSUME NEW s \in Sessions, d.rolling[s] # NoFrame
                 PROVE  /\ save[s] = "SAVE_LAST" /\ own[d.rolling[s].cap] = s
                        /\ d.rolling[s].req = ask2[d.rolling[s].cap]
      BY DEF RollingGood
    <2>1. /\ save[s] = "SAVE_LAST" /\ own[d.rolling[s].cap] = s
          /\ d.rolling[s].req = ask[d.rolling[s].cap]
      BY DEF StoreGood, SessionGood, OpenGood, RollingGood
    <2>2. d \in Databases
      BY DEF StoreGood, TablesGood
    <2>3. d.rolling[s].cap \in Captures
      BY <2>2, Tables, FrameType
    <2>4. QED
      BY <2>1, <2>3, Constants
  <1>4. QED
    BY <1>2, <1>3 DEF StoreGood, TablesGood, SessionGood, OpenGood

\* A session that nothing was decided for yet gets its policy.
LEMMA PolicyChosen ==
    ASSUME NEW d, NEW own \in Owners, NEW ask, NEW save, NEW save2, NEW lv, NEW s \in Sessions,
           StoreGood(d, own, ask, save, lv), Own(own, s) = {},
           \A b \in Boots : d.policy[b].session # s, d.summary[s].state \notin Terminal,
           \A r \in Sessions : r # s => save2[r] = save[r]
    PROVE  StoreGood(d, own, ask, save2, lv)
  <1>1. /\ d \in Databases /\ TombsGood(d, own) /\ RowsGood(d, own) /\ PoliciesGood(d, save)
        /\ StatsGood(d, own, s) /\ RollingGood(d, own, ask, save, s)
    BY DEF StoreGood, TablesGood, SessionGood, OpenGood
  <1>2. PoliciesGood(d, save2)
    BY <1>1, PolicyType DEF PoliciesGood
  <1>3. \A r \in Sessions : r # s => SessionGood(d, own, ask, save2, r)
    BY DEF StoreGood, SessionGood, OpenGood, RollingGood, AllOrNone, LatestGood
  <1>4. d.rolling[s] = NoFrame
    <2>1. d.rolling[s] # NoFrame => d.rolling[s].cap \in Own(own, s)
      BY <1>1, Tables, FrameType DEF RollingGood, Own
    <2>2. QED
      BY <2>1
  <1>5. Fil(d, s) = {}
    BY <1>1, RowType DEF Fil, RowsOf, RowsGood, Own
  <1>6. \A i \in 1 .. Len(d.tombs) : d.tombs[i].session # s
    BY <1>1, TombTypes DEF TombsGood, Own
  <1>7. SessionGood(d, own, ask, save2, s)
    BY <1>1, <1>4, <1>5, <1>6
       DEF SessionGood, OpenGood, RollingGood, AllOrNone, LatestGood, Rolling,
                                  SummaryGood
  <1>8. QED
    BY <1>2, <1>3, <1>7 DEF StoreGood, TablesGood

-----------------------------------------------------------------------------
(* commit_delivery and commit_replayed_delivery. *)

\* Frame f holds the newest capture, decided or not, in a good database.
Arrived(d, own, ask, save, lv, f) ==
    /\ StoreGood(d, own, ask, save, lv) /\ Typed(own, ask, save) /\ lv \in SUBSET Captures
    /\ f \in AllFrames /\ f.req = ask[f.cap]
    /\ \A x \in Captures : own[x] # 0 => x <= f.cap

\* Its owner after a delivery for session s.
NextOwner(d, own, f, s) == IF Decided(d, f.cap) THEN own ELSE [own EXCEPT ![f.cap] = s]

\* It is decided now, and nothing else has changed its owner or its state.
Delivered(d, e, own, own2, ask, save, lv2, f) ==
    /\ StoreGood(e, own2, ask, save, lv2) /\ Typed(own2, ask, save)
    /\ e.policy = d.policy
    /\ \A r \in Sessions : e.summary[r].state = d.summary[r].state
    /\ own2[f.cap] \in Sessions
    /\ \A x \in Captures : x # f.cap => own2[x] = own[x]
    /\ Resolution(e, f.cap) \in Resolutions

LEMMA ArrivedIsDecidable ==
    ASSUME NEW d, NEW own, NEW ask, NEW save, NEW lv, NEW f, Arrived(d, own, ask, save, lv, f),
           NEW lv2 \in {lv, lv \cup {f.cap}}, NEW s \in Sessions, ~Decided(d, f.cap),
           AsAsked(own, ask) /\ f.cap \in lv2 => f.req \in d.staged,
           NEW own2, own2 = [own EXCEPT ![f.cap] = s]
    PROVE  /\ Decidable(d, own, own2, ask, save, lv, lv2, f, s)
           /\ SessionGood(d, own, ask, save, s)
  <1>0. /\ StoreGood(d, own, ask, save, lv) /\ own \in Owners /\ f \in AllFrames
        /\ f.cap \in Captures /\ d \in Databases /\ TombsGood(d, own)
        /\ \A x \in Captures : own[x] # 0 => x <= f.cap
    BY FrameType DEF Arrived, Typed, StoreGood, TablesGood
  <1> DEFINE c == f.cap
  <1>1. c \in Captures /\ ~Decided(d, c) /\ (\A x \in Captures : own[x] # 0 => x <= c)
        /\ own2 = [own EXCEPT ![c] = s]
    BY <1>0
  <1> HIDE DEF c
  <1>2. own[c] = 0
    BY <1>0, <1>1, NewestDecided
  <1>3. Newest(own, c)
    BY <1>1, <1>2, Constants DEF Newest
  <1>4. own2 \in Owners /\ own2[c] = s /\ \A x \in Captures : x # c => own2[x] = own[x]
    BY <1>0, <1>1 DEF Owners
  <1>5. DecidedFor(own, own2, c, s)
    BY <1>1, <1>2, <1>4 DEF DecidedFor
  <1>6. AsAsked(own2, ask) => AsAsked(own, ask)
    BY <1>0, <1>2, <1>4 DEF AsAsked
  <1>7. NearlyGood(d, own, ask, save, lv, s) /\ SessionGood(d, own, ask, save, s)
    BY <1>0 DEF StoreGood, NearlyGood, SessionGood
  <1>8. Newest(own, f.cap) /\ DecidedFor(own, own2, f.cap, s)
    BY <1>3, <1>5 DEF c
  <1>9. QED
    BY <1>0, <1>6, <1>7, <1>8 DEF Decidable, Arrived, Typed

LEMMA ResolutionType ==
    ASSUME NEW d, NEW own, NEW ask, NEW save, NEW lv, NEW c \in Captures,
           StoreGood(d, own, ask, save, lv), own \in Owners, own[c] \in Sessions,
           \A x \in Captures : own[x] # 0 => x <= c
    PROVE  Resolution(d, c) \in Resolutions
  <1>1. d \in Databases /\ TombsGood(d, own) /\ own[c] # 0
    BY Constants DEF StoreGood, TablesGood
  <1>2. QED
    BY <1>1, NewestDecided

\* A delivery of a capture that was decided before.
LEMMA DeliveredAgain ==
    ASSUME NEW d, NEW own, NEW ask, NEW save, NEW lv, NEW f, Arrived(d, own, ask, save, lv, f),
           Decided(d, f.cap), NEW s, NEW sv, NEW e, e = CommitDelivery(d, f, s, sv)
    PROVE  Delivered(d, e, own, own, ask, save, lv, f)
  <1>0. /\ StoreGood(d, own, ask, save, lv) /\ Typed(own, ask, save) /\ own \in Owners
        /\ f \in AllFrames /\ f.req = ask[f.cap] /\ f.cap \in Captures
        /\ d \in Databases /\ TombsGood(d, own)
        /\ \A x \in Captures : own[x] # 0 => x <= f.cap
    BY FrameType DEF Arrived, Typed, StoreGood, TablesGood
  <1>1. /\ StoreGood(e, own, ask, save, lv)
        /\ e.summary = d.summary /\ e.policy = d.policy /\ e.tombs = d.tombs
    <2>1. Again(d, e, ask, f)
      BY <1>0 DEF CommitDelivery, Again
    <2>2. QED
      BY <1>0, <2>1, DecidedAgain
  <1>2. own[f.cap] \in Sessions
    <2>1. own[f.cap] # 0
      BY <1>0, NewestDecided
    <2>2. QED
      BY <1>0, <2>1 DEF Owners
  <1>3. Resolution(e, f.cap) \in Resolutions
    BY <1>0, <1>1, <1>2, ResolutionType
  <1>4. QED
    BY <1>0, <1>1, <1>2, <1>3 DEF Delivered

\* The first delivery of a capture, to an open or a closed session.
LEMMA DeliveredFirst ==
    ASSUME NEW d, NEW own, NEW ask, NEW save, NEW lv, NEW f, Arrived(d, own, ask, save, lv, f),
           NEW lv2 \in {lv, lv \cup {f.cap}}, NEW s \in Sessions, ~Decided(d, f.cap),
           AsAsked(own, ask) /\ f.cap \in lv2 => f.req \in d.staged,
           NEW own2, own2 = [own EXCEPT ![f.cap] = s], NEW e,
           \/ d.summary[s].state \notin Terminal /\ e = Decide(d, f, s, save[s])
           \/ d.summary[s].state \in Terminal /\ lv2 = lv /\ e = TerminalReplay(d, f, s, save[s])
    PROVE  Delivered(d, e, own, own2, ask, save, lv2, f)
  <1>0. /\ StoreGood(d, own, ask, save, lv) /\ own \in Owners /\ f \in AllFrames
        /\ f.cap \in Captures /\ Typed(own, ask, save)
        /\ \A x \in Captures : own[x] # 0 => x <= f.cap
    BY FrameType DEF Arrived, Typed
  <1>1. Decidable(d, own, own2, ask, save, lv, lv2, f, s) /\ SessionGood(d, own, ask, save, s)
    BY ArrivedIsDecidable
  <1>2. own2 \in Owners /\ own2[f.cap] = s /\ \A x \in Captures : x # f.cap => own2[x] = own[x]
    BY <1>1 DEF Decidable, DecidedFor
  <1>3. /\ StoreGood(e, own2, ask, save, lv2) /\ e.policy = d.policy
        /\ \A r \in Sessions : e.summary[r].state = d.summary[r].state
    <2>1. CASE d.summary[s].state \notin Terminal /\ e = Decide(d, f, s, save[s])
      BY <1>1, <2>1, DecideGood
    <2>2. CASE d.summary[s].state \in Terminal /\ lv2 = lv /\ e = TerminalReplay(d, f, s, save[s])
      <3>1. Decidable(d, own, own2, ask, save, lv, lv, f, s)
        BY <1>1, <2>2
      <3>2. /\ StoreGood(e, own2, ask, save, lv)
            /\ e.summary[s].state = d.summary[s].state
            /\ \A r \in Sessions : r # s => e.summary[r] = d.summary[r]
            /\ e.policy = d.policy
        BY <1>1, <2>2, <3>1, TerminalReplayGood
      <3>3. QED
        BY <2>2, <3>2
    <2>3. QED
      BY <2>1, <2>2
  <1>4. \A x \in Captures : own2[x] # 0 => x <= f.cap
    <2> DEFINE n == f.cap
    <2>1. n \in Nat /\ \A x \in Captures : own[x] # 0 => x <= n
      BY <1>0, Constants
    <2>2. \A x \in Captures : x # n => own2[x] = own[x]
      BY <1>2
    <2> HIDE DEF n
    <2>3. \A x \in Captures : own2[x] # 0 => x <= n
      BY <2>1, <2>2
    <2>4. QED
      BY <2>3 DEF n
  <1>5. Resolution(e, f.cap) \in Resolutions
    BY <1>0, <1>2, <1>3, <1>4, ResolutionType
  <1>6. QED
    BY <1>0, <1>2, <1>3, <1>5 DEF Delivered, Typed

\* By the thread of session s, which is not closed.
LEMMA CommitGood ==
    ASSUME NEW d, NEW own, NEW ask, NEW save, NEW lv, NEW f, Arrived(d, own, ask, save, lv, f),
           NEW s \in Sessions, d.summary[s].state \notin Terminal,
           AsAsked(own, ask) /\ own[f.cap] = 0 => f.req \in d.staged,
           NEW e, e = CommitDelivery(d, f, s, save[s])
    PROVE  Delivered(d, e, own, NextOwner(d, own, f, s), ask, save,
                     IF Decided(d, f.cap) THEN lv ELSE lv \cup {f.cap}, f)
  <1>1. CASE Decided(d, f.cap)
    BY <1>1, DeliveredAgain DEF NextOwner
  <1>2. CASE ~Decided(d, f.cap)
    <2> DEFINE own2 == NextOwner(d, own, f, s)
               lv2  == lv \cup {f.cap}
    <2>1. own2 = [own EXCEPT ![f.cap] = s] /\ e = Decide(d, f, s, save[s])
      BY <1>2 DEF NextOwner, CommitDelivery
    <2>2. own[f.cap] = 0
      <3>1. d \in Databases /\ own \in Owners /\ TombsGood(d, own) /\ f.cap \in Captures
            /\ \A x \in Captures : own[x] # 0 => x <= f.cap
        BY FrameType DEF Arrived, Typed, StoreGood, TablesGood
      <3>2. QED
        BY <1>2, <3>1, NewestDecided
    <2>3. lv2 \in {lv, lv \cup {f.cap}}
      OBVIOUS
    <2> HIDE DEF own2, lv2
    <2>4. Delivered(d, e, own, own2, ask, save, lv2, f)
      BY <1>2, <2>1, <2>2, <2>3, DeliveredFirst
    <2>5. QED
      BY <1>2, <2>4 DEF own2, lv2
  <1>3. QED
    BY <1>1, <1>2

\* By the replay path, for the session the policy of the frame's boot names.
LEMMA ReplayGood ==
    ASSUME NEW d, NEW own, NEW ask, NEW save, NEW lv, NEW f, Arrived(d, own, ask, save, lv, f),
           CanReplay(d, f), NEW e, e = CommitReplayed(d, f)
    PROVE  Delivered(d, e, own, NextOwner(d, own, f, d.policy[f.boot].session), ask, save, lv, f)
  <1>1. CASE Decided(d, f.cap)
    <2>1. e = CommitDelivery(d, f, f.req, "SAVE_ALL")
      BY <1>1 DEF CommitReplayed
    <2>2. QED
      BY <1>1, <2>1, DeliveredAgain DEF NextOwner
  <1>2. CASE ~Decided(d, f.cap)
    <2> DEFINE p == d.policy[f.boot]
               s == p.session
               own2 == NextOwner(d, own, f, s)
    <2>1. own2 = [own EXCEPT ![f.cap] = s]
      BY <1>2 DEF NextOwner
    <2>2. d \in Databases /\ f.boot \in Boots /\ PoliciesGood(d, save)
      BY FrameType DEF Arrived, StoreGood, TablesGood
    <2>3. s \in Sessions /\ p.save = save[s]
      BY <1>2, <2>2, PolicyType DEF CanReplay, PoliciesGood
    <2>4. \/ d.summary[s].state \notin Terminal /\ e = Decide(d, f, s, save[s])
          \/ d.summary[s].state \in Terminal /\ e = TerminalReplay(d, f, s, save[s])
      BY <1>2, <2>3 DEF CommitReplayed, CommitDelivery
    <2>5. f.cap \notin lv
      <3>1. d \in Databases /\ own \in Owners /\ TombsGood(d, own) /\ f.cap \in Captures
            /\ (\A x \in Captures : own[x] # 0 => x <= f.cap) /\ \A c \in lv : own[c] # 0
        BY FrameType DEF Arrived, Typed, StoreGood, TablesGood
      <3>2. QED
        BY <1>2, <3>1, NewestDecided
    <2> HIDE DEF own2, s, p
    <2>6. Delivered(d, e, own, own2, ask, save, lv, f)
      BY <1>2, <2>1, <2>3, <2>4, <2>5, DeliveredFirst
    <2>7. QED
      BY <2>6 DEF own2, s, p
  <1>3. QED
    BY <1>1, <1>2

\* The end of session s in a good database.
LEMMA EndGood ==
    ASSUME NEW d, NEW own, NEW ask, NEW save, NEW lv, StoreGood(d, own, ask, save, lv),
           Typed(own, ask, save), NEW s \in Sessions, NEW state \in Terminal,
           NEW e, e = FinalizeSummary(d, s, state, save[s])
    PROVE  /\ StoreGood(e, own, ask, save, lv)
           /\ e.summary[s].state = state
           /\ \A r \in Sessions : r # s => e.summary[r] = d.summary[r]
           /\ EndKeeps(d, e, own, ask, s)
  <1>1. NearlyGood(d, own, ask, save, lv, s) /\ LatestGood(d, own, save, s)
    BY DEF StoreGood, NearlyGood, SessionGood
  <1>2. save[s] = "SAVE_LAST" => Rolling(d, own, s) \/ Settled(d, own, s)
    BY <1>1 DEF LatestGood
  <1>3. QED
    BY <1>1, <1>2, FinalizeGood
=============================================================================
