------------------------- MODULE CoreCatalogProofs -------------------------
(***************************************************************************)
(* The catalogue keeps its promises for every number of tasks, captures,    *)
(* groups, readers and faults.  The transactions of core_store.py are       *)
(* functions from databases to databases: each is shown to keep a good      *)
(* database good (StoreGood) and to move rows only forward (Evolves), which *)
(* is all that a paged list needs to know of them.                          *)
(***************************************************************************)
EXTENDS CoreCatalog, FunctionTheorems, FiniteSetTheorems, WellFoundedInduction, TLAPS

-----------------------------------------------------------------------------
(* Least and greatest numbers, and the first rows of a set. *)

LEMMA LeastNumber ==
    ASSUME NEW T, T \subseteq Nat, T # {}
    PROVE  \E x \in T : \A y \in T : x <= y
  <1> DEFINE R == OpToRel(<, Nat)
  <1>1. R = {ss \in Nat \X Nat : ss[1] < ss[2]}
    BY DEF OpToRel
  <1>2. IsWellFoundedOn(R, Nat)
    BY NatLessThanWellFounded
  <1> HIDE DEF R
  <1>3. PICK x \in T : \A y \in T : ~(<<y, x>> \in R)
    BY <1>2, WFMin
  <1>4. \A y \in T : ~(y < x)
    BY <1>1, <1>3
  <1>5. QED
    BY <1>3, <1>4

LEMMA GreatestNumber ==
    ASSUME NEW T, T \subseteq Nat, T # {}, NEW n \in Nat, \A y \in T : y <= n
    PROVE  \E x \in T : \A y \in T : y <= x
  <1> DEFINE B == {m \in Nat : \A y \in T : y <= m}
  <1>1. B \subseteq Nat /\ n \in B
    OBVIOUS
  <1>2. PICK x \in B : \A m \in B : x <= m
    BY <1>1, LeastNumber
  <1>3. x \in T
    <2> SUFFICES ASSUME x \notin T PROVE FALSE
      OBVIOUS
    <2>1. \A y \in T : y <= x - 1
      BY <1>2
    <2>2. PICK y \in T : TRUE
      OBVIOUS
    <2>3. x - 1 \in Nat
      BY <1>2, <2>1, <2>2
    <2>4. x - 1 \in B /\ ~(x <= x - 1)
      BY <2>1, <2>3
    <2>5. QED
      BY <1>2, <2>4
  <1>4. QED
    BY <1>2, <1>3

\* Rows whose ids tell them apart, none above n.
IdsKey(R, n) ==
    /\ n \in Nat
    /\ \A r \in R : r.id \in 1 .. n
    /\ \A r, q \in R : r.id = q.id => r = q

\* There are finitely many of them.
LEMMA KeyedIsFinite == ASSUME NEW R, NEW n, IdsKey(R, n) PROVE IsFiniteSet(R)
  <1> DEFINE f == [r \in R |-> r.id]
  <1>1. f \in Injection(R, 1 .. n)
    BY DEF IdsKey, Injection, IsInjective
  <1>2. IsFiniteSet(1 .. n)
    BY FS_Interval DEF IdsKey
  <1>3. QED
    BY <1>1, <1>2, FS_Injection

\* The rows FirstOf takes are the first by id.
LEMMA FirstOfIsInitial ==
    ASSUME NEW R, NEW n, IdsKey(R, n), NEW k \in Nat, NEW r \in FirstOf(R, k),
           NEW q \in R, q.id <= r.id
    PROVE  q \in FirstOf(R, k)
  <1> DEFINE Upto(x) == {y \in R : y.id <= x.id}
  <1>1. IsFiniteSet(R)
    BY KeyedIsFinite
  <1>2. r \in R /\ Cardinality(Upto(r)) <= k
    BY DEF FirstOf
  <1>3. r.id \in Nat /\ q.id \in Nat /\ \A y \in R : y.id \in Nat
    BY <1>2 DEF IdsKey
  <1>4. Upto(q) \subseteq Upto(r)
    BY <1>3
  <1>5. IsFiniteSet(Upto(r)) /\ IsFiniteSet(Upto(q))
    BY <1>1, FS_Subset
  <1>6. Cardinality(Upto(q)) <= Cardinality(Upto(r))
    BY <1>4, <1>5, FS_Subset
  <1>7. Cardinality(Upto(q)) \in Nat /\ Cardinality(Upto(r)) \in Nat
    BY <1>5, FS_CardinalityType
  <1>8. Cardinality(Upto(q)) <= k
    BY <1>2, <1>6, <1>7
  <1>9. QED
    BY <1>8 DEF FirstOf

\* All of them when there are no more than that.
LEMMA FirstOfAll ==
    ASSUME NEW R, NEW n, IdsKey(R, n), NEW k \in Nat, Cardinality(R) <= k
    PROVE  FirstOf(R, k) = R
  <1>1. IsFiniteSet(R)
    BY KeyedIsFinite
  <1>2. ASSUME NEW r \in R PROVE Cardinality({q \in R : q.id <= r.id}) <= k
    <2> DEFINE U == {q \in R : q.id <= r.id}
    <2>1. IsFiniteSet(U) /\ Cardinality(U) <= Cardinality(R)
      BY <1>1, FS_Subset
    <2>2. Cardinality(U) \in Nat /\ Cardinality(R) \in Nat
      BY <1>1, <2>1, FS_CardinalityType
    <2>3. QED
      BY <2>1, <2>2
  <1>3. QED
    BY <1>2 DEF FirstOf

\* Some row is first.
LEMMA FirstOfSome ==
    ASSUME NEW R, NEW n, IdsKey(R, n), NEW k \in Nat \ {0}, R # {}
    PROVE  FirstOf(R, k) # {}
  <1> DEFINE T == {r.id : r \in R}
  <1>1. T \subseteq Nat /\ T # {}
    BY DEF IdsKey
  <1>2. PICK x \in T : \A y \in T : x <= y
    BY <1>1, LeastNumber
  <1>3. PICK r \in R : r.id = x
    BY <1>2
  <1>4. \A q \in R : q.id <= r.id => q.id = r.id
    BY <1>1, <1>2, <1>3, SMTT(20)
  <1>5. {q \in R : q.id <= r.id} = {r}
    BY <1>3, <1>4 DEF IdsKey
  <1>6. Cardinality({q \in R : q.id <= r.id}) = 1
    BY <1>5, FS_Singleton
  <1>7. r \in FirstOf(R, k)
    BY <1>6 DEF FirstOf
  <1>8. QED
    BY <1>7

\* The first one alone has no other before it.
LEMMA FirstOfOne ==
    ASSUME NEW R, IsFiniteSet(R), NEW r \in FirstOf(R, 1), NEW q \in R, q.id <= r.id, r.id <= r.id
    PROVE  q = r
  <1> DEFINE U == {y \in R : y.id <= r.id}
  <1>1. r \in U /\ q \in U /\ Cardinality(U) <= 1
    BY DEF FirstOf
  <1>2. IsFiniteSet(U) /\ Cardinality(U) \in Nat
    BY FS_Subset, FS_CardinalityType
  <1>3. Cardinality(U) = 1
    BY <1>1, <1>2, FS_EmptySet
  <1>4. PICK x : U = {x}
    BY <1>2, <1>3, FS_Singleton
  <1>5. QED
    BY <1>1, <1>4

\* The cursor is the greatest id of the page.
LEMMA LastIdIsGreatest ==
    ASSUME NEW R, NEW n, IdsKey(R, n), R # {}
    PROVE  \E r \in R : r.id = LastId(R) /\ \A q \in R : q.id <= r.id
  <1> DEFINE T == {r.id : r \in R}
  <1>1. T \subseteq Nat /\ T # {} /\ n \in Nat /\ \A y \in T : y <= n
    BY DEF IdsKey
  <1>2. PICK x \in T : \A y \in T : y <= x
    BY <1>1, GreatestNumber
  <1>3. \E r \in R : \A q \in R : q.id <= r.id
    BY <1>2
  <1>4. QED
    BY <1>3 DEF LastId

-----------------------------------------------------------------------------
(* Transactions. *)

\* Capture c is the rolling one of some session.
Rolls(d, c) == \E s \in Sessions : d.rolling[s].cap = c

\* From d to e rows keep their ids, and a row that was not there has a new id
\* and a capture that was not filed before.
Evolves(d, e) ==
    /\ d.lastId <= e.lastId
    /\ d.decided \subseteq e.decided
    /\ \A r \in e.archive :
         \/ \E q \in d.archive : q.cap = r.cap /\ q.id = r.id
         \/ r.id > d.lastId /\ (r.cap \notin d.decided \/ Rolls(d, r.cap))
    /\ \A c \in Captures : Rolls(e, c) => Rolls(d, c) \/ c \notin d.decided

\* Experiments, groups, tasks and policies are as they were.
SameCatalog(d, e) ==
    /\ e.state = d.state /\ e.policy = d.policy
    /\ e.experiment = d.experiment /\ e.group = d.group /\ e.home = d.home

LEMMA EvolvesAlong ==
    ASSUME NEW d \in Databases, NEW e \in Databases, NEW f \in Databases,
           Evolves(d, e), Evolves(e, f)
    PROVE  Evolves(d, f)
  <1>1. d.lastId <= f.lastId /\ d.decided \subseteq f.decided
    BY DEF Evolves, Databases
  <1>2. ASSUME NEW r \in f.archive
        PROVE  \/ \E q \in d.archive : q.cap = r.cap /\ q.id = r.id
               \/ r.id > d.lastId /\ (r.cap \notin d.decided \/ Rolls(d, r.cap))
    <2>0. r.id \in Nat /\ r.cap \in Captures /\ d.lastId \in Nat /\ e.lastId \in Nat
      BY DEF Databases, Rows
    <2>1. CASE \E q \in e.archive : q.cap = r.cap /\ q.id = r.id
      BY <2>1 DEF Evolves
    <2>2. CASE r.id > e.lastId /\ r.cap \notin e.decided
      BY <2>0, <2>2 DEF Evolves
    <2>3. CASE r.id > e.lastId /\ Rolls(e, r.cap)
      BY <2>0, <2>3 DEF Evolves
    <2>4. QED
      BY <2>1, <2>2, <2>3 DEF Evolves
  <1>3. \A c \in Captures : Rolls(f, c) => Rolls(d, c) \/ c \notin d.decided
    BY DEF Evolves
  <1>4. QED
    BY <1>1, <1>2, <1>3 DEF Evolves

LEMMA EvolvesNot == ASSUME NEW d \in Databases PROVE Evolves(d, d)
  BY DEF Evolves, Databases

\* _archive_delivery and the decision about the capture.
LEMMA FileGood ==
    ASSUME NEW d, NEW w, NEW n \in Nat, StoreGood(d, w, n),
           NEW c \in Captures \ d.decided, c <= n, NEW s \in Sessions,
           NEW g \in GroupIds, <<s, g>> \in w[c], GroupThere(d, g)
    PROVE  LET e == Decided(ArchiveDelivery(d, c, s, g), c) IN
           /\ StoreGood(e, w, n) /\ Evolves(d, e) /\ SameCatalog(d, e)
           /\ e.decided = d.decided \cup {c} /\ e.rolling = d.rolling
  <1> DEFINE row == [id |-> d.lastId + 1, cap |-> c, session |-> s, group |-> g]
             e == Decided(ArchiveDelivery(d, c, s, g), c)
  <1>0. d \in Databases /\ d.lastId \in Nat /\ d.archive \subseteq Rows
    BY DEF StoreGood, Databases
  <1>1. c \notin Archived(d)
    BY DEF StoreGood, Filing, Archived
  <1>2. e = [[d EXCEPT !.archive = @ \cup {row}, !.lastId = @ + 1] EXCEPT !.decided = @ \cup {c}]
    <2>1. ArchiveDelivery(d, c, s, g) = [d EXCEPT !.archive = @ \cup {row}, !.lastId = @ + 1]
      BY <1>1 DEF ArchiveDelivery
    <2>2. QED
      BY <2>1 DEF Decided
  <1>3. row \in Rows /\ row.id = d.lastId + 1 /\ row.cap = c /\ row.group = g /\ row.session = s
    BY <1>0 DEF Rows
  <1> HIDE DEF row, e
  <1>4. /\ e \in Databases /\ e.archive = d.archive \cup {row} /\ e.lastId = d.lastId + 1
        /\ e.decided = d.decided \cup {c} /\ e.rolling = d.rolling /\ SameCatalog(d, e)
    <2> DEFINE A == d.archive \cup {row}
               m == d.lastId + 1
               D == d.decided \cup {c}
    <2>1. A \in SUBSET Rows /\ m \in Nat /\ D \in SUBSET Captures
      BY <1>0, <1>3 DEF Databases
    <2>2. e = [d EXCEPT !.archive = A, !.lastId = m, !.decided = D]
      BY <1>0, <1>2 DEF Databases
    <2> HIDE DEF A, m, D
    <2>3. /\ e \in Databases /\ e.archive = A /\ e.lastId = m
          /\ e.decided = D /\ e.rolling = d.rolling /\ SameCatalog(d, e)
      BY <1>0, <2>1, <2>2 DEF Databases, SameCatalog
    <2>4. QED
      BY <2>3 DEF A, m, D
  <1>5. \A r \in d.archive : r.id \in Nat /\ r.id <= d.lastId /\ r.cap # c
    BY <1>0, <1>1 DEF StoreGood, RowsKeyed, Archived
  <1>6. RowsKeyed(e)
    <2>1. \A r, q \in e.archive : r.id = q.id \/ r.cap = q.cap => r = q
      BY <1>0, <1>3, <1>4, <1>5 DEF StoreGood, RowsKeyed
    <2>2. \A r \in e.archive : r.id \in 1 .. e.lastId /\ GroupThere(e, r.group)
      BY <1>0, <1>3, <1>4, <1>5 DEF StoreGood, RowsKeyed, SameCatalog, GroupThere
    <2>3. QED
      BY <1>4, <2>1, <2>2 DEF StoreGood, RowsKeyed, SameCatalog, GroupThere
  <1>7. Filing(e, w, n)
    <2>1. \A r \in e.archive : r.cap \in e.decided /\ <<r.session, r.group>> \in w[r.cap]
      BY <1>3, <1>4 DEF StoreGood, Filing
    <2>2. \A x \in e.decided : x <= n
      BY <1>4 DEF StoreGood, Filing
    <2>3. ASSUME NEW q \in Sessions, e.rolling[q] # NoRoll
          PROVE  /\ e.rolling[q].cap \in e.decided
                 /\ <<q, e.rolling[q].group>> \in w[e.rolling[q].cap] /\ GroupThere(e, e.rolling[q].group)
                 /\ \A r \in e.archive : r.cap # e.rolling[q].cap
                 /\ \A t \in Sessions : t # q => e.rolling[t].cap # e.rolling[q].cap
      BY <1>3, <1>4, <2>3 DEF StoreGood, Filing, SameCatalog, GroupThere
    <2>4. QED
      BY <2>1, <2>2, <2>3 DEF Filing
  <1>8. Evolves(d, e)
    BY <1>0, <1>3, <1>4 DEF Evolves, Rolls
  <1>9. QED
    BY <1>4, <1>6, <1>7, <1>8 DEF StoreGood, e

\* A decision that files nothing.
LEMMA DecideGood ==
    ASSUME NEW d, NEW w, NEW n \in Nat, StoreGood(d, w, n), NEW c \in Captures, c <= n
    PROVE  LET e == Decided(d, c) IN
           /\ StoreGood(e, w, n) /\ Evolves(d, e) /\ SameCatalog(d, e)
           /\ e.decided = d.decided \cup {c} /\ e.rolling = d.rolling
  <1> DEFINE e == Decided(d, c)
  <1>0. d \in Databases /\ d.lastId \in Nat
    BY DEF StoreGood, Databases
  <1>1. /\ e \in Databases /\ e.archive = d.archive /\ e.lastId = d.lastId
        /\ e.decided = d.decided \cup {c} /\ e.rolling = d.rolling /\ SameCatalog(d, e)
    BY <1>0 DEF Databases, SameCatalog, Decided
  <1> HIDE DEF e
  <1>2. RowsKeyed(e)
    BY <1>1 DEF StoreGood, RowsKeyed, SameCatalog, GroupThere
  <1>3. Filing(e, w, n)
    BY <1>1 DEF StoreGood, Filing, SameCatalog, GroupThere
  <1>4. Evolves(d, e)
    BY <1>0, <1>1 DEF Evolves, Rolls
  <1>5. QED
    BY <1>1, <1>2, <1>3, <1>4 DEF StoreGood, e

\* A rolling capture is replaced by an undecided one.
LEMMA RollGood ==
    ASSUME NEW d, NEW w, NEW n \in Nat, StoreGood(d, w, n),
           NEW c \in Captures \ d.decided, c <= n, NEW s \in Sessions,
           NEW g \in GroupIds, <<s, g>> \in w[c], GroupThere(d, g)
    PROVE  LET e == Decided([d EXCEPT !.rolling[s] = [cap |-> c, group |-> g]], c) IN
           /\ StoreGood(e, w, n) /\ Evolves(d, e) /\ SameCatalog(d, e)
           /\ e.decided = d.decided \cup {c}
  <1> DEFINE roll == [cap |-> c, group |-> g]
             e == Decided([d EXCEPT !.rolling[s] = roll], c)
  <1>0. d \in Databases /\ d.lastId \in Nat
    BY DEF StoreGood, Databases
  <1>1. roll \in [cap : Captures \cup {0}, group : GroupIds] /\ roll.cap = c /\ roll.group = g
    OBVIOUS
  <1> HIDE DEF roll
  <1>2. /\ e \in Databases /\ e.archive = d.archive /\ e.lastId = d.lastId
        /\ e.decided = d.decided \cup {c} /\ e.rolling = [d.rolling EXCEPT ![s] = roll]
        /\ SameCatalog(d, e)
    BY <1>0, <1>1 DEF Databases, SameCatalog, Decided
  <1> HIDE DEF e
  <1>3. RowsKeyed(e)
    BY <1>2 DEF StoreGood, RowsKeyed, SameCatalog, GroupThere
  <1>4. d.rolling \in [Sessions -> [cap : Captures \cup {0}, group : GroupIds]]
    BY <1>0 DEF Databases
  <1>5. e.rolling[s] = roll /\ \A q \in Sessions \ {s} : e.rolling[q] = d.rolling[q]
    BY <1>2, <1>4
  <1>6. ASSUME NEW q \in Sessions PROVE d.rolling[q].cap # c
    <2>1. CASE d.rolling[q] = NoRoll
      BY <2>1, CatalogConstants DEF NoRoll
    <2>2. CASE d.rolling[q] # NoRoll
      BY <2>2 DEF StoreGood, Filing
    <2>3. QED
      BY <2>1, <2>2
  <1>7. Filing(e, w, n)
    <2>1. \A r \in e.archive : r.cap \in e.decided /\ <<r.session, r.group>> \in w[r.cap]
      BY <1>2 DEF StoreGood, Filing
    <2>2. \A x \in e.decided : x <= n
      BY <1>2 DEF StoreGood, Filing
    <2>3. ASSUME NEW q \in Sessions, e.rolling[q] # NoRoll
          PROVE  /\ e.rolling[q].cap \in e.decided
                 /\ <<q, e.rolling[q].group>> \in w[e.rolling[q].cap] /\ GroupThere(e, e.rolling[q].group)
                 /\ \A r \in e.archive : r.cap # e.rolling[q].cap
                 /\ \A t \in Sessions : t # q => e.rolling[t].cap # e.rolling[q].cap
      <3>1. CASE q = s
        <4>1. e.rolling[q].cap = c /\ e.rolling[q].group = g
          BY <1>1, <1>5, <3>1
        <4>2. \A r \in e.archive : r.cap # c
          <5>1. \A r \in d.archive : r.cap \in d.decided
            BY DEF StoreGood, Filing
          <5>2. QED
            BY <1>2, <5>1
        <4>3. \A t \in Sessions : t # q => e.rolling[t].cap # c
          BY <1>5, <1>6, <3>1
        <4>4. QED
          BY <1>2, <3>1, <4>1, <4>2, <4>3 DEF SameCatalog, GroupThere
      <3>2. CASE q # s
        BY <1>1, <1>2, <1>5, <1>6, <2>3, <3>2 DEF StoreGood, Filing, SameCatalog, GroupThere
      <3>3. QED
        BY <3>1, <3>2
    <2>4. QED
      BY <2>1, <2>2, <2>3 DEF Filing
  <1>8. Evolves(d, e)
    <2>1. \A x \in Captures : Rolls(e, x) => Rolls(d, x) \/ x \notin d.decided
      BY <1>1, <1>5 DEF Rolls
    <2>2. QED
      BY <1>0, <1>2, <2>1 DEF Evolves
  <1>9. QED
    BY <1>2, <1>3, <1>7, <1>8 DEF StoreGood, e, roll

\* _finalize_latest_capture_in_connection
LEMMA FinalizeLatestGood ==
    ASSUME NEW d, NEW w, NEW n \in Nat, StoreGood(d, w, n), NEW s \in Sessions
    PROVE  LET e == FinalizeLatest(d, s) IN
           /\ StoreGood(e, w, n) /\ Evolves(d, e) /\ SameCatalog(d, e)
           /\ e.decided = d.decided
  <1> DEFINE e == FinalizeLatest(d, s)
             c == d.rolling[s].cap
             g == d.rolling[s].group
             row == [id |-> d.lastId + 1, cap |-> c, session |-> s, group |-> g]
  <1>0. /\ d \in Databases /\ d.lastId \in Nat /\ d.archive \subseteq Rows
        /\ d.rolling \in [Sessions -> [cap : Captures \cup {0}, group : GroupIds]]
        /\ d.decided \subseteq Captures
    BY DEF StoreGood, Databases
  <1>1. CASE d.rolling[s] = NoRoll
    <2>1. e = d
      BY <1>1 DEF FinalizeLatest
    <2>2. QED
      BY <1>0, <2>1, EvolvesNot DEF StoreGood, SameCatalog
  <1>2. CASE d.rolling[s] # NoRoll
    <2>1. /\ c \in d.decided /\ <<s, g>> \in w[c] /\ g \in GroupIds /\ GroupThere(d, g) /\ c \in Captures
          /\ \A r \in d.archive : r.cap # c
          /\ \A q \in Sessions : q # s => d.rolling[q].cap # c
      BY <1>0, <1>2 DEF StoreGood, Filing
    <2> DEFINE A == d.archive \cup {row}
               m == d.lastId + 1
               R == [d.rolling EXCEPT ![s] = NoRoll]
               x == [d EXCEPT !.rolling[s] = NoRoll]
    <2>2. row \in Rows /\ row.id = d.lastId + 1 /\ row.cap = c /\ row.group = g /\ row.session = s
      BY <1>0, <2>1 DEF Rows
    <2>3. e = [d EXCEPT !.rolling = R, !.archive = A, !.lastId = m]
      <3>1. x.archive = d.archive /\ x.lastId = d.lastId
        BY <1>0 DEF Databases
      <3>2. c \notin Archived(x)
        BY <2>1, <3>1 DEF Archived
      <3>3. e = ArchiveDelivery(x, c, s, g)
        BY <1>2 DEF FinalizeLatest
      <3>4. ArchiveDelivery(x, c, s, g) = [x EXCEPT !.archive = @ \cup {row}, !.lastId = @ + 1]
        BY <3>1, <3>2 DEF ArchiveDelivery
      <3> HIDE DEF e, row
      <3>5. QED
        BY <1>0, <3>3, <3>4 DEF Databases
    <2>4. A \in SUBSET Rows /\ m \in Nat
          /\ R \in [Sessions -> [cap : Captures \cup {0}, group : GroupIds]]
      BY <1>0, <2>2 DEF NoRoll, GroupIds
    <2>5. R[s] = NoRoll /\ \A q \in Sessions \ {s} : R[q] = d.rolling[q]
      BY <1>0
    <2> HIDE DEF A, m, R, e, row
    <2>6. /\ e \in Databases /\ e.archive = A /\ e.lastId = m /\ e.rolling = R
          /\ e.decided = d.decided /\ SameCatalog(d, e)
      BY <1>0, <2>3, <2>4 DEF Databases, SameCatalog
    <2> HIDE DEF c, g
    <2>7. \A r \in d.archive : r.id \in Nat /\ r.id <= d.lastId /\ r.cap # c
      BY <1>0, <2>1 DEF StoreGood, RowsKeyed
    <2>8. RowsKeyed(e)
      <3>1. \A r, q \in e.archive : r.id = q.id \/ r.cap = q.cap => r = q
        BY <1>0, <2>2, <2>6, <2>7 DEF StoreGood, RowsKeyed, A
      <3>2. \A r \in e.archive : r.id \in 1 .. e.lastId /\ GroupThere(e, r.group)
        BY <1>0, <2>1, <2>2, <2>6, <2>7 DEF StoreGood, RowsKeyed, SameCatalog, GroupThere, A, m
      <3>3. QED
        BY <2>6, <3>1, <3>2 DEF StoreGood, RowsKeyed, SameCatalog, GroupThere
    <2>9. Filing(e, w, n)
      <3>1. \A r \in e.archive : r.cap \in e.decided /\ <<r.session, r.group>> \in w[r.cap]
        BY <2>1, <2>2, <2>6 DEF StoreGood, Filing, A
      <3>2. \A y \in e.decided : y <= n
        BY <2>6 DEF StoreGood, Filing
      <3>3. ASSUME NEW q \in Sessions, e.rolling[q] # NoRoll
            PROVE  /\ e.rolling[q].cap \in e.decided
                   /\ <<q, e.rolling[q].group>> \in w[e.rolling[q].cap] /\ GroupThere(e, e.rolling[q].group)
                   /\ \A r \in e.archive : r.cap # e.rolling[q].cap
                   /\ \A t \in Sessions : t # q => e.rolling[t].cap # e.rolling[q].cap
        <4>1. q # s /\ e.rolling[q] = d.rolling[q] /\ d.rolling[q] # NoRoll
          BY <2>5, <2>6, <3>3
        <4>2. /\ d.rolling[q].cap \in d.decided
              /\ <<q, d.rolling[q].group>> \in w[d.rolling[q].cap] /\ GroupThere(d, d.rolling[q].group)
              /\ \A r \in d.archive : r.cap # d.rolling[q].cap
              /\ \A t \in Sessions : t # q => d.rolling[t].cap # d.rolling[q].cap
          BY <4>1 DEF StoreGood, Filing
        <4>3. d.rolling[q].cap # c /\ d.rolling[q].cap # NoRoll.cap
          BY <1>0, <2>1, <4>1, <4>2, CatalogConstants DEF NoRoll
        <4>4. \A r \in e.archive : r.cap # d.rolling[q].cap
          BY <2>2, <2>6, <4>2, <4>3 DEF A
        <4>5. \A t \in Sessions : t # q => e.rolling[t].cap # d.rolling[q].cap
          BY <2>5, <2>6, <4>2, <4>3
        <4>6. QED
          BY <2>6, <4>1, <4>2, <4>4, <4>5 DEF SameCatalog, GroupThere
      <3>4. QED
        BY <3>1, <3>2, <3>3 DEF Filing
    <2>10. Evolves(d, e)
      <3>1. d.lastId <= e.lastId /\ d.decided \subseteq e.decided
        BY <1>0, <2>6 DEF m
      <3>2. Rolls(d, c)
        BY DEF Rolls, c
      <3>3. \A r \in e.archive :
              \/ \E q \in d.archive : q.cap = r.cap /\ q.id = r.id
              \/ r.id > d.lastId /\ (r.cap \notin d.decided \/ Rolls(d, r.cap))
        BY <1>0, <2>2, <2>6, <3>2 DEF A
      <3>4. ASSUME NEW y \in Captures, Rolls(e, y) PROVE Rolls(d, y)
        <4>1. PICK q \in Sessions : e.rolling[q].cap = y
          BY <3>4 DEF Rolls
        <4>2. NoRoll.cap = 0 /\ y # 0
          BY CatalogConstants DEF NoRoll
        <4>3. q # s
          BY <2>5, <2>6, <4>1, <4>2
        <4>4. QED
          BY <2>5, <2>6, <4>1, <4>3 DEF Rolls
      <3>5. QED
        BY <3>1, <3>3, <3>4 DEF Evolves
    <2>11. QED
      BY <2>6, <2>8, <2>9, <2>10 DEF StoreGood, e
  <1>3. QED
    BY <1>1, <1>2

\* Rows may be deleted: those a late frame of their session supersedes.
LEMMA RoomGood ==
    ASSUME NEW d, NEW w, NEW n \in Nat, StoreGood(d, w, n), NEW s \in Sessions
    PROVE  LET e == [d EXCEPT !.archive = {r \in @ : r.session # s}] IN
           /\ StoreGood(e, w, n) /\ Evolves(d, e) /\ SameCatalog(d, e)
           /\ e.decided = d.decided
  <1> DEFINE A == {r \in d.archive : r.session # s}
             e == [d EXCEPT !.archive = A]
  <1>0. d \in Databases /\ d.lastId \in Nat /\ A \in SUBSET d.archive
    BY DEF StoreGood, Databases
  <1> HIDE DEF A
  <1>1. /\ e \in Databases /\ e.archive = A /\ e.lastId = d.lastId /\ e.rolling = d.rolling
        /\ e.decided = d.decided /\ SameCatalog(d, e)
    BY <1>0 DEF Databases, SameCatalog
  <1> HIDE DEF e
  <1>2. RowsKeyed(e)
    BY <1>0, <1>1 DEF StoreGood, RowsKeyed, SameCatalog, GroupThere
  <1>3. Filing(e, w, n)
    BY <1>0, <1>1 DEF StoreGood, Filing, SameCatalog, GroupThere
  <1>4. Evolves(d, e)
    BY <1>0, <1>1 DEF Evolves, Rolls
  <1>5. QED
    BY <1>1, <1>2, <1>3, <1>4 DEF StoreGood, e, A

\* A task starts or ends.
LEMMA StateGood ==
    ASSUME NEW d, NEW w, NEW n \in Nat, StoreGood(d, w, n), NEW s \in Sessions,
           NEW v \in {"RUNNING", "ENDED"}
    PROVE  LET e == [d EXCEPT !.state[s] = v] IN
           /\ StoreGood(e, w, n) /\ Evolves(d, e) /\ e.decided = d.decided
           /\ e.policy = d.policy /\ e.group = d.group /\ e.state = [d.state EXCEPT ![s] = v]
  <1> DEFINE S == [d.state EXCEPT ![s] = v]
             e == [d EXCEPT !.state = S]
  <1>0. d \in Databases /\ d.lastId \in Nat /\ S \in [Sessions -> {"NONE", "RUNNING", "ENDED"}]
    BY DEF StoreGood, Databases
  <1> HIDE DEF S
  <1>1. /\ e \in Databases /\ e.archive = d.archive /\ e.lastId = d.lastId
        /\ e.rolling = d.rolling /\ e.decided = d.decided /\ e.policy = d.policy
        /\ e.experiment = d.experiment /\ e.group = d.group /\ e.home = d.home /\ e.state = S
    BY <1>0 DEF Databases
  <1>2. [d EXCEPT !.state[s] = v] = e
    BY DEF S
  <1> HIDE DEF e
  <1>3. RowsKeyed(e)
    BY <1>1 DEF StoreGood, RowsKeyed, GroupThere
  <1>4. Filing(e, w, n)
    BY <1>1 DEF StoreGood, Filing, GroupThere
  <1>5. Evolves(d, e)
    BY <1>0, <1>1 DEF Evolves, Rolls
  <1>6. QED
    BY <1>1, <1>2, <1>3, <1>4, <1>5 DEF StoreGood, S

\* finalize_session_summary
LEMMA FinalizeSessionGood ==
    ASSUME NEW d, NEW w, NEW n \in Nat, StoreGood(d, w, n), NEW s \in Sessions,
           NEW save \in SavePolicies
    PROVE  LET e == FinalizeSession(d, s, save) IN
           /\ StoreGood(e, w, n) /\ Evolves(d, e) /\ e.decided = d.decided
           /\ e.policy = d.policy /\ e.group = d.group /\ e.state = [d.state EXCEPT ![s] = "ENDED"]
  <1> DEFINE x == IF save = "SAVE_LAST" THEN FinalizeLatest(d, s) ELSE d
             e == [x EXCEPT !.state[s] = "ENDED"]
  <1>0. d \in Databases
    BY DEF StoreGood
  <1>1. StoreGood(x, w, n) /\ Evolves(d, x) /\ SameCatalog(d, x) /\ x.decided = d.decided
    <2>1. CASE save = "SAVE_LAST"
      BY <2>1, FinalizeLatestGood
    <2>2. CASE save # "SAVE_LAST"
      BY <1>0, <2>2, EvolvesNot DEF SameCatalog
    <2>3. QED
      BY <2>1, <2>2
  <1>2. FinalizeSession(d, s, save) = e
    BY DEF FinalizeSession
  <1> HIDE DEF x
  <1>3. /\ StoreGood(e, w, n) /\ Evolves(x, e) /\ e.decided = x.decided
        /\ e.policy = x.policy /\ e.group = x.group /\ e.state = [x.state EXCEPT ![s] = "ENDED"]
    BY <1>1, StateGood
  <1> HIDE DEF e
  <1>4. Evolves(d, e)
    BY <1>0, <1>1, <1>3, EvolvesAlong DEF StoreGood
  <1>5. QED
    BY <1>1, <1>2, <1>3, <1>4 DEF SameCatalog

\* commit_delivery
LEMMA CommitDeliveryGood ==
    ASSUME NEW d, NEW w, NEW n \in Nat, StoreGood(d, w, n),
           NEW c \in Captures, c <= n, NEW s \in Sessions, NEW save \in SavePolicies,
           NEW g \in GroupIds, c \notin d.decided => <<s, g>> \in w[c], GroupThere(d, g)
    PROVE  LET e == CommitDelivery(d, c, s, save, g) IN
           /\ StoreGood(e, w, n) /\ Evolves(d, e) /\ SameCatalog(d, e)
           /\ e.decided = d.decided \cup {c}
  <1>0. d \in Databases
    BY DEF StoreGood
  <1>1. CASE c \in d.decided
    <2>1. CommitDelivery(d, c, s, save, g) = d
      BY <1>1 DEF CommitDelivery
    <2>2. QED
      BY <1>0, <1>1, <2>1, EvolvesNot DEF SameCatalog
  <1>2. CASE c \notin d.decided /\ save = "SAVE_ALL"
    <2>1. CommitDelivery(d, c, s, save, g) = Decided(ArchiveDelivery(d, c, s, g), c)
      BY <1>2 DEF CommitDelivery
    <2>2. QED
      BY <1>2, <2>1, FileGood
  <1>3. CASE c \notin d.decided /\ save = "SAVE_LAST"
    <2>1. CommitDelivery(d, c, s, save, g)
            = Decided([d EXCEPT !.rolling[s] = [cap |-> c, group |-> g]], c)
      BY <1>3 DEF CommitDelivery
    <2>2. QED
      BY <1>3, <2>1, RollGood
  <1>4. CASE c \notin d.decided /\ save = "SAVE_NONE"
    <2>1. CommitDelivery(d, c, s, save, g) = Decided(d, c)
      BY <1>4 DEF CommitDelivery
    <2>2. QED
      BY <1>4, <2>1, DecideGood
  <1>5. QED
    BY <1>1, <1>2, <1>3, <1>4 DEF SavePolicies

\* _commit_terminal_replay
LEMMA TerminalReplayGood ==
    ASSUME NEW d, NEW w, NEW n \in Nat, StoreGood(d, w, n),
           NEW c \in Captures \ d.decided, c <= n, NEW s \in Sessions, NEW save \in SavePolicies,
           NEW g \in GroupIds, <<s, g>> \in w[c], GroupThere(d, g)
    PROVE  LET e == TerminalReplay(d, c, s, save, g) IN
           /\ StoreGood(e, w, n) /\ Evolves(d, e) /\ e.decided = d.decided \cup {c}
           /\ e.policy = d.policy /\ e.group = d.group /\ e.state = [d.state EXCEPT ![s] = "ENDED"]
  <1> DEFINE room  == IF save = "SAVE_LAST"
                      THEN [d EXCEPT !.archive = {r \in @ : r.session # s}] ELSE d
             filed == IF save = "SAVE_NONE" THEN room ELSE ArchiveDelivery(room, c, s, g)
             x == Decided(filed, c)
             e == FinalizeSession(x, s, save)
  <1>0. d \in Databases
    BY DEF StoreGood
  <1>1. TerminalReplay(d, c, s, save, g) = e
    BY DEF TerminalReplay
  <1>2. StoreGood(room, w, n) /\ Evolves(d, room) /\ SameCatalog(d, room) /\ room.decided = d.decided
    <2>1. CASE save = "SAVE_LAST"
      BY <2>1, RoomGood
    <2>2. CASE save # "SAVE_LAST"
      BY <1>0, <2>2, EvolvesNot DEF SameCatalog
    <2>3. QED
      BY <2>1, <2>2
  <1> HIDE DEF room
  <1>3. c \notin room.decided /\ GroupThere(room, g)
    BY <1>2 DEF SameCatalog, GroupThere
  <1>4. /\ StoreGood(x, w, n) /\ Evolves(room, x) /\ SameCatalog(room, x)
        /\ x.decided = room.decided \cup {c}
    <2>1. CASE save = "SAVE_NONE"
      BY <1>2, <2>1, DecideGood
    <2>2. CASE save # "SAVE_NONE"
      BY <1>2, <1>3, <2>2, FileGood
    <2>3. QED
      BY <2>1, <2>2
  <1> HIDE DEF x, filed
  <1>5. /\ StoreGood(e, w, n) /\ Evolves(x, e) /\ e.decided = x.decided
        /\ e.policy = x.policy /\ e.group = x.group /\ e.state = [x.state EXCEPT ![s] = "ENDED"]
    BY <1>4, FinalizeSessionGood
  <1> HIDE DEF e
  <1>6. Evolves(d, x)
    BY <1>0, <1>2, <1>4, EvolvesAlong DEF StoreGood
  <1>7. Evolves(d, e)
    BY <1>0, <1>4, <1>5, <1>6, EvolvesAlong DEF StoreGood
  <1>8. QED
    BY <1>1, <1>2, <1>4, <1>5, <1>7 DEF SameCatalog

\* commit_replayed_delivery: the task of the policy may have ended long ago.
LEMMA CommitReplayedGood ==
    ASSUME NEW d, NEW w, NEW n \in Nat, StoreGood(d, w, n), NEW c \in Captures, c <= n,
           c \notin d.decided => /\ d.policy.session \in Sessions
                                /\ <<d.policy.session, d.policy.group>> \in w[c]
    PROVE  LET e == CommitReplayed(d, c) IN
           /\ StoreGood(e, w, n) /\ Evolves(d, e) /\ e.decided = d.decided \cup {c}
           /\ e.policy = d.policy /\ e.group = d.group /\ e.state = d.state
  <1> DEFINE p == d.policy
  <1>0. /\ d \in Databases /\ p.save \in SavePolicies /\ p.group \in GroupIds
        /\ d.state \in [Sessions -> {"NONE", "RUNNING", "ENDED"}] /\ GroupThere(d, p.group)
    BY DEF StoreGood, Databases, RowsKeyed
  <1>1. CASE c \in d.decided
    <2>1. CommitReplayed(d, c) = d
      BY <1>1 DEF CommitReplayed
    <2>2. QED
      BY <1>0, <1>1, <2>1, EvolvesNot
  <1>2. CASE c \notin d.decided /\ d.state[p.session] = "ENDED"
    <2>1. CommitReplayed(d, c) = TerminalReplay(d, c, p.session, p.save, p.group)
      BY <1>2 DEF CommitReplayed
    <2>2. [d.state EXCEPT ![p.session] = "ENDED"] = d.state
      BY <1>0, <1>2
    <2> HIDE DEF p
    <2>3. p.session \in Sessions /\ <<p.session, p.group>> \in w[c]
      BY <1>2 DEF p
    <2>4. QED
      BY <1>0, <1>2, <2>1, <2>2, <2>3, TerminalReplayGood
  <1>3. CASE c \notin d.decided /\ d.state[p.session] # "ENDED"
    <2>1. CommitReplayed(d, c) = CommitDelivery(d, c, p.session, p.save, p.group)
      BY <1>3 DEF CommitReplayed
    <2> HIDE DEF p
    <2>2. p.session \in Sessions /\ <<p.session, p.group>> \in w[c]
      BY <1>3 DEF p
    <2>3. QED
      BY <1>0, <1>3, <2>1, <2>2, CommitDeliveryGood DEF SameCatalog
  <1>4. QED
    BY <1>1, <1>2, <1>3

\* register_delivery_policy, unregister_delivery_policy, and the policy of a
\* boot that has none.
LEMMA PolicyGood ==
    ASSUME NEW d, NEW w, NEW n \in Nat, StoreGood(d, w, n),
           NEW p \in [session : Sessions \cup {0}, save : SavePolicies, group : GroupIds],
           GroupThere(d, p.group)
    PROVE  LET e == [d EXCEPT !.policy = p] IN
           /\ StoreGood(e, w, n) /\ Evolves(d, e) /\ e.decided = d.decided
           /\ e.policy = p /\ e.group = d.group /\ e.state = d.state
  <1> DEFINE e == [d EXCEPT !.policy = p]
  <1>0. d \in Databases /\ d.lastId \in Nat
    BY DEF StoreGood, Databases
  <1>1. /\ e \in Databases /\ e.archive = d.archive /\ e.lastId = d.lastId
        /\ e.rolling = d.rolling /\ e.decided = d.decided /\ e.policy = p
        /\ e.experiment = d.experiment /\ e.group = d.group /\ e.home = d.home /\ e.state = d.state
    BY <1>0 DEF Databases
  <1> HIDE DEF e
  <1>3. RowsKeyed(e)
    BY <1>0, <1>1 DEF StoreGood, RowsKeyed, GroupThere
  <1>4. Filing(e, w, n)
    BY <1>1 DEF StoreGood, Filing, GroupThere
  <1>5. Evolves(d, e)
    BY <1>0, <1>1 DEF Evolves, Rolls
  <1>6. QED
    BY <1>1, <1>3, <1>4, <1>5 DEF StoreGood, e

\* create_experiment, create_group and their updates: what was there stays
\* there, and a group in the experiment it was made in.
LEMMA CatalogGood ==
    ASSUME NEW d, NEW w, NEW n \in Nat, StoreGood(d, w, n),
           NEW X \in [Experiments -> Nat], NEW G \in [Groups -> Nat],
           NEW H \in [Groups -> Experiments \cup {NoGroup}],
           \A x \in Experiments : d.experiment[x] # 0 => X[x] # 0,
           \A g \in Groups : d.group[g] # 0 => G[g] # 0 /\ H[g] = d.home[g],
           \A g \in Groups : G[g] # 0 /\ d.group[g] = 0 => H[g] \in Experiments /\ X[H[g]] # 0
    PROVE  LET e == [d EXCEPT !.experiment = X, !.group = G, !.home = H] IN
           /\ StoreGood(e, w, n) /\ Evolves(d, e) /\ e.decided = d.decided
           /\ e.policy = d.policy /\ e.state = d.state
           /\ \A g \in GroupIds : GroupThere(d, g) => GroupThere(e, g)
  <1> DEFINE e == [d EXCEPT !.experiment = X, !.group = G, !.home = H]
  <1>0. d \in Databases /\ d.lastId \in Nat /\ d.archive \subseteq Rows
        /\ d.rolling \in [Sessions -> [cap : Captures \cup {0}, group : GroupIds]]
        /\ d.policy.group \in GroupIds
    BY DEF StoreGood, Databases
  <1>1. /\ e \in Databases /\ e.archive = d.archive /\ e.lastId = d.lastId
        /\ e.rolling = d.rolling /\ e.decided = d.decided /\ e.policy = d.policy
        /\ e.experiment = X /\ e.group = G /\ e.home = H /\ e.state = d.state
    BY <1>0 DEF Databases
  <1> HIDE DEF e
  <1>2. \A g \in GroupIds : GroupThere(d, g) => GroupThere(e, g)
    BY <1>1 DEF GroupThere, GroupIds
  <1>3. RowsKeyed(e)
    <2>1. \A r \in d.archive : r.group \in GroupIds
      BY <1>0 DEF Rows
    <2>2. \A g \in Groups : e.group[g] # 0 => e.home[g] \in Experiments /\ e.experiment[e.home[g]] # 0
      BY <1>1 DEF StoreGood, RowsKeyed
    <2>3. QED
      BY <1>0, <1>1, <1>2, <2>1, <2>2 DEF StoreGood, RowsKeyed
  <1>4. Filing(e, w, n)
    <2>1. \A s \in Sessions : d.rolling[s].group \in GroupIds
      BY <1>0
    <2>2. QED
      BY <1>1, <1>2, <2>1 DEF StoreGood, Filing
  <1>5. Evolves(d, e)
    BY <1>0, <1>1 DEF Evolves, Rolls
  <1>6. QED
    BY <1>1, <1>2, <1>3, <1>4, <1>5 DEF StoreGood, e

\* assign_capture_group: the rows of the batch and only they move.
LEMMA AssignGood ==
    ASSUME NEW d, NEW w, NEW v, NEW n \in Nat, StoreGood(d, w, n),
           NEW S \in SUBSET Captures, NEW g \in GroupIds, CanAssign(d, S, g),
           \A c \in S, s \in Sessions, h \in GroupIds : <<s, h>> \in w[c] => <<s, g>> \in v[c],
           \A c \in Captures \ S : w[c] \subseteq v[c]
    PROVE  LET e == AssignGroup(d, S, g) IN
           /\ StoreGood(e, v, n)
           /\ Evolves(d, e) /\ SameCatalog(d, e) /\ e.decided = d.decided
           /\ Archived(e) = Archived(d)
  <1> DEFINE mv(r) == IF r.cap \in S THEN [r EXCEPT !.group = g] ELSE r
             A == {mv(r) : r \in d.archive}
             e == [d EXCEPT !.archive = A]
  <1>0. /\ d \in Databases /\ d.lastId \in Nat /\ d.archive \subseteq Rows /\ d.decided \subseteq Captures
        /\ d.rolling \in [Sessions -> [cap : Captures \cup {0}, group : GroupIds]]
    BY DEF StoreGood, Databases
  <1>1. AssignGroup(d, S, g) = e
    BY DEF AssignGroup
  <1>2. ASSUME NEW r \in d.archive
        PROVE  /\ mv(r) \in Rows /\ mv(r).id = r.id /\ mv(r).cap = r.cap /\ mv(r).session = r.session
               /\ mv(r).group = IF r.cap \in S THEN g ELSE r.group
    BY <1>0 DEF Rows
  <1>3. A \in SUBSET Rows
    BY <1>2
  <1>4. /\ \A r \in d.archive : mv(r) \in A
        /\ \A x \in A : \E r \in d.archive : x = mv(r)
    OBVIOUS
  <1>5. \A x \in A : \E r \in d.archive :
           /\ x = mv(r) /\ x.id = r.id /\ x.cap = r.cap /\ x.session = r.session
           /\ x.group = IF r.cap \in S THEN g ELSE r.group
    BY <1>2, <1>4
  <1> HIDE DEF A, mv
  <1>6. /\ e \in Databases /\ e.archive = A /\ e.lastId = d.lastId /\ e.rolling = d.rolling
        /\ e.decided = d.decided /\ SameCatalog(d, e)
    BY <1>0, <1>3 DEF Databases, SameCatalog
  <1> HIDE DEF e
  <1>7. Archived(e) = Archived(d)
    BY <1>2, <1>4, <1>5, <1>6 DEF Archived
  <1>8. RowsKeyed(e)
    <2>1. \A x, y \in A : x.id = y.id \/ x.cap = y.cap => x = y
      <3> SUFFICES ASSUME NEW x \in A, NEW y \in A, x.id = y.id \/ x.cap = y.cap PROVE x = y
        OBVIOUS
      <3>1. PICK r \in d.archive : x = mv(r) /\ x.id = r.id /\ x.cap = r.cap
        BY <1>5
      <3>2. PICK q \in d.archive : y = mv(q) /\ y.id = q.id /\ y.cap = q.cap
        BY <1>5
      <3>3. r = q
        BY <3>1, <3>2 DEF StoreGood, RowsKeyed
      <3>4. QED
        BY <3>1, <3>2, <3>3
    <2>2. \A x \in A : x.id \in 1 .. d.lastId /\ GroupThere(d, x.group)
      BY <1>5 DEF StoreGood, RowsKeyed, CanAssign, KnownGroup, GroupThere
    <2>3. QED
      BY <1>6, <2>1, <2>2 DEF StoreGood, RowsKeyed, SameCatalog, GroupThere
  <1>9. Filing(e, v, n)
    <2>2. ASSUME NEW x \in A PROVE x.cap \in d.decided /\ <<x.session, x.group>> \in v[x.cap]
      <3>1. PICK r \in d.archive :
              /\ x.cap = r.cap /\ x.session = r.session
              /\ x.group = IF r.cap \in S THEN g ELSE r.group
        BY <1>5
      <3>2. /\ r.cap \in d.decided /\ <<r.session, r.group>> \in w[r.cap]
            /\ r.cap \in Captures /\ r.session \in Sessions /\ r.group \in GroupIds
        BY <1>0 DEF StoreGood, Filing, Rows
      <3>3. QED
        BY <3>1, <3>2
    <2>3. ASSUME NEW s \in Sessions, d.rolling[s] # NoRoll
          PROVE  /\ d.rolling[s].cap \in d.decided
                 /\ <<s, d.rolling[s].group>> \in v[d.rolling[s].cap] /\ GroupThere(d, d.rolling[s].group)
                 /\ \A r \in A : r.cap # d.rolling[s].cap
                 /\ \A q \in Sessions : q # s => d.rolling[q].cap # d.rolling[s].cap
      <3>1. /\ d.rolling[s].cap \in d.decided
            /\ <<s, d.rolling[s].group>> \in w[d.rolling[s].cap] /\ GroupThere(d, d.rolling[s].group)
            /\ \A r \in d.archive : r.cap # d.rolling[s].cap
            /\ \A q \in Sessions : q # s => d.rolling[q].cap # d.rolling[s].cap
        BY <2>3 DEF StoreGood, Filing
      <3>2. d.rolling[s].cap \notin S
        BY <3>1 DEF CanAssign, Archived
      <3>3. \A r \in A : r.cap # d.rolling[s].cap
        BY <1>5, <3>1
      <3>4. QED
        BY <1>0, <3>1, <3>2, <3>3
    <2>4. \A c \in d.decided : c <= n
      BY DEF StoreGood, Filing
    <2>5. QED
      BY <1>6, <2>2, <2>3, <2>4 DEF Filing, SameCatalog, GroupThere
  <1>10. Evolves(d, e)
    <2>1. \A x \in A : \E q \in d.archive : q.cap = x.cap /\ q.id = x.id
      BY <1>5
    <2>2. QED
      BY <1>0, <1>6, <2>1 DEF Evolves, Rolls
  <1>11. QED
    BY <1>1, <1>6, <1>7, <1>8, <1>9, <1>10 DEF StoreGood

\* Homes only grow while tasks go on, and so does the number of captures.
LEMMA GoodUnder ==
    ASSUME NEW d, NEW w, NEW v, NEW n \in Nat, NEW m \in Nat, StoreGood(d, w, n), n <= m,
           \A c \in d.decided : w[c] \subseteq v[c]
    PROVE  StoreGood(d, v, m)
  <1>0. d.decided \subseteq Captures /\ Captures \subseteq Nat
    BY CatalogConstants DEF StoreGood, Databases
  <1>1. \A c \in d.decided : c <= m
    <2> SUFFICES ASSUME NEW c \in d.decided PROVE c <= m
      OBVIOUS
    <2>1. c \in Nat /\ c <= n
      BY <1>0 DEF StoreGood, Filing
    <2>2. QED
      BY <2>1
  <1>2. Filing(d, v, m)
    BY <1>1 DEF StoreGood, Filing
  <1>3. QED
    BY <1>2 DEF StoreGood

-----------------------------------------------------------------------------
(* The paged list. *)

\* Whatever transaction commits between two pages, the list stays good.
LEMMA CommitKeepsList ==
    ASSUME NEW new, NEW w, NEW n, TypeOK, StoreGood(db, Homes, taken), StoreGood(new, w, n),
           Evolves(db, new), Commit(new), ListIsComplete, ListInv, list' = list
    PROVE  ListIsComplete' /\ ListInv' /\ steady' \subseteq Captures
  <1>0. /\ db \in Databases /\ new \in Databases /\ db' = new /\ steady \subseteq Captures
        /\ db.decided \subseteq Captures /\ db.lastId \in Nat /\ new.lastId \in Nat
        /\ new.archive \subseteq Rows /\ db.archive \subseteq Rows
    BY DEF TypeOK, StoreGood, Commit, Databases
  <1>1. CASE list.pc # "more"
    <2>1. steady' = steady
      BY <1>1 DEF Commit
    <2>2. QED
      BY <1>0, <1>1, <2>1 DEF ListIsComplete, ListInv
  <1>2. CASE list.pc = "more"
    <2>1. steady' = {r.cap : r \in {q \in new.archive :
                         /\ Matches(new, list.filter, q)
                         /\ q.cap \in steady \/ q.cap \notin Archived(db)}}
      BY <1>2 DEF Commit
    <2>2. \A c \in steady' : \E r \in new.archive : c = r.cap /\ Matches(new, list.filter, r)
                                /\ (c \in steady \/ c \notin Archived(db))
      BY <2>1
    <2>3. steady' \subseteq Captures /\ steady' \subseteq Archived(new)
      BY <1>0, <2>2 DEF Rows, Archived
    <2>4. ListIsComplete'
      BY <1>2 DEF ListIsComplete
    <2>5. list.cursor \in Nat /\ list.seen \subseteq Captures /\ list.cursor <= db.lastId
          /\ list.seen \subseteq db.decided /\ \A s \in Sessions : db.rolling[s].cap \notin list.seen
      BY <1>2 DEF ListInv, TypeOK, Lists
    <2>6. list.cursor <= new.lastId /\ list.seen \subseteq new.decided
      BY <1>0, <2>5 DEF Evolves
    <2>7. \A s \in Sessions : new.rolling[s].cap \notin list.seen
      <3> SUFFICES ASSUME NEW s \in Sessions, new.rolling[s].cap \in list.seen PROVE FALSE
        OBVIOUS
      <3>1. new.rolling[s].cap \in Captures /\ new.rolling[s].cap \in db.decided
            /\ Rolls(new, new.rolling[s].cap)
        BY <2>5 DEF Rolls
      <3>2. Rolls(db, new.rolling[s].cap)
        BY <3>1 DEF Evolves
      <3>3. QED
        BY <2>5, <3>2 DEF Rolls
    <2>8. ASSUME NEW r \in new.archive
          PROVE  /\ r.cap \in list.seen => r.id <= list.cursor
                 /\ r.cap \in steady' => Matches(new, list.filter, r)
                 /\ r.cap \in steady' /\ r.id <= list.cursor => r.cap \in list.seen
      <3>0. r.id \in Nat /\ r.cap \in Captures
        BY <1>0 DEF Rows
      <3>1. CASE \E q \in db.archive : q.cap = r.cap /\ q.id = r.id
        <4>1. PICK q \in db.archive : q.cap = r.cap /\ q.id = r.id
          BY <3>1
        <4>2. r.cap \in Archived(db)
          BY <4>1 DEF Archived
        <4>3. /\ q.cap \in list.seen => q.id <= list.cursor
              /\ q.cap \in steady /\ q.id <= list.cursor => q.cap \in list.seen
          BY <1>2 DEF ListInv
        <4>4. r.cap \in steady' => r.cap \in steady
          BY <2>2, <4>2
        <4>5. r.cap \in steady' => Matches(new, list.filter, r)
          BY <2>2 DEF StoreGood, RowsKeyed
        <4>6. QED
          BY <4>1, <4>3, <4>4, <4>5
      <3>2. CASE r.id > db.lastId /\ (r.cap \notin db.decided \/ Rolls(db, r.cap))
        <4>1. r.cap \notin list.seen
          BY <2>5, <3>2 DEF Rolls
        <4>2. ~(r.id <= list.cursor)
          BY <1>0, <2>5, <3>0, <3>2
        <4>3. r.cap \in steady' => Matches(new, list.filter, r)
          BY <2>2 DEF StoreGood, RowsKeyed
        <4>4. QED
          BY <4>1, <4>2, <4>3
      <3>3. QED
        BY <3>1, <3>2 DEF Evolves
    <2>9. ListInv'
      BY <1>0, <2>3, <2>6, <2>7, <2>8 DEF ListInv
    <2>10. QED
      BY <2>3, <2>4, <2>9
  <1>3. QED
    BY <1>1, <1>2

\* A list starts: nothing is shown, and what must be is what matches now.
LEMMA StartListKeepsList ==
    ASSUME CatalogInv, NEW f \in Filters, StartList(f)
    PROVE  list' \in Lists /\ steady' \subseteq Captures /\ ListIsComplete' /\ ListInv'
  <1>0. db \in Databases /\ db.archive \subseteq Rows /\ db.lastId \in Nat /\ db' = db
    BY DEF CatalogInv, TypeOK, Databases, StartList
  <1>1. list' = [pc |-> "more", filter |-> f, cursor |-> 0, seen |-> {}, again |-> FALSE]
    BY DEF StartList, NoList
  <1>2. list' \in Lists
    BY <1>1 DEF Lists
  <1>3. steady' = {r.cap : r \in After(db, f, 0)}
    BY DEF StartList
  <1>4. \A c \in steady' : \E r \in db.archive : c = r.cap /\ Matches(db, f, r)
    BY <1>3 DEF After
  <1>5. steady' \subseteq Captures /\ steady' \subseteq Archived(db)
    BY <1>0, <1>4 DEF Rows, Archived
  <1>6. \A r \in db.archive : r.cap \in steady' => Matches(db, f, r)
    BY <1>4 DEF CatalogInv, StoreGood, RowsKeyed
  <1>7. \A r \in db.archive : r.id > 0 /\ r.id \in Nat
    BY <1>0 DEF CatalogInv, StoreGood, RowsKeyed
  <1>8. /\ list'.pc = "more" /\ list'.filter = f /\ list'.cursor = 0 /\ list'.seen = {}
        /\ list'.again = FALSE
    BY <1>1
  <1>9. ListIsComplete'
    BY <1>8 DEF ListIsComplete
  <1>10. ListInv'
    BY <1>0, <1>5, <1>6, <1>7, <1>8 DEF ListInv
  <1>11. QED
    BY <1>2, <1>5, <1>9, <1>10

\* A page shows the next rows by id and the cursor goes to the last of them.
LEMMA ReadPageKeepsList ==
    ASSUME CatalogInv, ReadPage
    PROVE  list' \in Lists /\ ListIsComplete' /\ ListInv'
  <1> DEFINE R    == After(db, list.filter, list.cursor)
             F    == FirstOf(R, Limit)
             page == {r.cap : r \in F}
             more == Cardinality(R) > Limit
  <1>0. /\ db \in Databases /\ db.archive \subseteq Rows /\ db.lastId \in Nat
        /\ list \in Lists /\ steady \subseteq Captures /\ Limit \in Nat \ {0}
        /\ db' = db /\ steady' = steady /\ list.pc = "more"
    BY CatalogConstants DEF CatalogInv, TypeOK, Databases, ReadPage
  <1>1. /\ list.cursor \in Nat /\ list.seen \subseteq Captures /\ list.again = FALSE
    BY <1>0 DEF Lists, CatalogInv, ListIsComplete
  <1>2. /\ list.cursor <= db.lastId
        /\ list.seen \subseteq db.decided
        /\ \A s \in Sessions : db.rolling[s].cap \notin list.seen
        /\ steady \subseteq Archived(db)
        /\ \A r \in db.archive :
             /\ r.cap \in list.seen => r.id <= list.cursor
             /\ r.cap \in steady => Matches(db, list.filter, r)
             /\ r.cap \in steady /\ r.id <= list.cursor => r.cap \in list.seen
    BY <1>0 DEF CatalogInv, ListInv
  <1>3. list' = [list EXCEPT !.pc = IF more THEN "more" ELSE "done",
                             !.cursor = IF more THEN NextCursor(R) ELSE @,
                             !.seen = @ \cup page,
                             !.again = @ \/ page \cap list.seen # {}]
    BY DEF ReadPage
  <1>4. IdsKey(R, db.lastId)
    BY <1>0 DEF IdsKey, After, CatalogInv, StoreGood, RowsKeyed
  <1>5. R \subseteq db.archive /\ F \subseteq R
        /\ \A r \in R : r.id > list.cursor /\ r.id \in Nat /\ r.cap \in Captures
    BY <1>0 DEF After, FirstOf, Rows
  <1>6. page \subseteq Captures /\ page \cap list.seen = {}
    BY <1>1, <1>2, <1>5
  <1>7. page \subseteq db.decided
    BY <1>5 DEF CatalogInv, StoreGood, Filing
  <1>8. \A s \in Sessions : db.rolling[s].cap \notin page
    <2> SUFFICES ASSUME NEW s \in Sessions, db.rolling[s].cap \in page PROVE FALSE
      OBVIOUS
    <2>1. PICK r \in db.archive : r.cap = db.rolling[s].cap /\ r.cap \in Captures
      BY <1>5
    <2>2. db.rolling[s] # NoRoll
      BY <2>1, CatalogConstants DEF NoRoll
    <2>3. QED
      BY <2>1, <2>2 DEF CatalogInv, StoreGood, Filing
  <1>9. \A r \in db.archive : r.cap \in page => r \in F
    BY <1>5 DEF CatalogInv, StoreGood, RowsKeyed
  <1>10. \A r \in db.archive : r.cap \in steady /\ r.id > list.cursor => r \in R
    BY <1>2 DEF After
  <1>11. \A r \in db.archive : r.id \in Nat
    BY <1>0 DEF Rows
  <1>12. CASE ~more
    <2>1. F = R
      <3>1. Cardinality(R) \in Nat
        BY <1>4, KeyedIsFinite, FS_CardinalityType
      <3>2. Cardinality(R) <= Limit
        BY <1>0, <1>12, <3>1
      <3>3. QED
        BY <1>0, <1>4, <3>2, FirstOfAll
    <2> HIDE DEF R, F, page, more
    <2>2. page \cap list.seen # {} <=> FALSE
      BY <1>6
    <2>3. list' = [list EXCEPT !.pc = "done", !.seen = list.seen \cup page, !.again = FALSE]
      BY <1>0, <1>1, <1>3, <1>12, <2>2 DEF Lists
    <2>4. list' \in Lists /\ list'.pc = "done" /\ list'.seen = list.seen \cup page /\ list'.again = FALSE
      BY <1>0, <1>1, <1>6, <2>3 DEF Lists
    <2>5. steady \subseteq list.seen \cup page
      <3> SUFFICES ASSUME NEW c \in steady PROVE c \in list.seen \cup page
        OBVIOUS
      <3>1. PICK r \in db.archive : r.cap = c
        BY <1>2 DEF Archived
      <3>2. CASE r.id <= list.cursor
        BY <1>2, <3>1, <3>2
      <3>3. CASE r.id > list.cursor
        BY <1>10, <2>1, <3>1, <3>3 DEF page
      <3>4. QED
        BY <1>1, <1>11, <3>2, <3>3
    <2>6. QED
      BY <1>0, <2>4, <2>5 DEF ListIsComplete, ListInv
  <1>13. CASE more
    <2>1. R # {}
      BY <1>0, <1>13, FS_EmptySet
    <2>2. F # {} /\ IdsKey(F, db.lastId)
      BY <1>0, <1>4, <1>5, <2>1, FirstOfSome DEF IdsKey
    <2>3. PICK z \in F : z.id = LastId(F) /\ \A q \in F : q.id <= z.id
      BY <2>2, LastIdIsGreatest
    <2>4. NextCursor(R) = z.id
      BY <2>3 DEF NextCursor
    <2>5. \A q \in R : q.id <= z.id => q \in F
      BY <1>0, <1>4, <2>3, FirstOfIsInitial
    <2>6. z.id \in Nat /\ z.id <= db.lastId /\ z.id > list.cursor
      BY <1>5, <2>2, <2>3 DEF IdsKey
    <2> HIDE DEF R, F, page, more
    <2>7. page \cap list.seen # {} <=> FALSE
      BY <1>6
    <2>8. list' = [list EXCEPT !.cursor = z.id, !.seen = list.seen \cup page, !.again = FALSE]
      BY <1>0, <1>1, <1>3, <1>13, <2>4, <2>7 DEF Lists
    <2>9. /\ list' \in Lists /\ list'.pc = "more" /\ list'.seen = list.seen \cup page
          /\ list'.again = FALSE /\ list'.cursor = z.id /\ list'.filter = list.filter
      BY <1>0, <1>1, <1>6, <2>6, <2>8 DEF Lists
    <2>10. ASSUME NEW r \in db.archive
           PROVE  /\ r.cap \in list.seen \cup page => r.id <= z.id
                  /\ r.cap \in steady /\ r.id <= z.id => r.cap \in list.seen \cup page
      <3>0. r.id \in Nat
        BY <1>11
      <3>1. r.cap \in list.seen => r.id <= z.id
        BY <1>1, <1>2, <2>6, <3>0
      <3>2. r.cap \in page => r.id <= z.id
        BY <1>9, <2>3
      <3>3. ASSUME r.cap \in steady, r.id <= z.id PROVE r.cap \in list.seen \cup page
        <4>1. CASE r.id <= list.cursor
          BY <1>2, <3>3, <4>1
        <4>2. CASE r.id > list.cursor
          BY <1>10, <2>5, <3>3, <4>2 DEF page
        <4>3. QED
          BY <1>1, <3>0, <4>1, <4>2
      <3>4. QED
        BY <3>1, <3>2, <3>3
    <2>11. ListInv'
      BY <1>0, <1>2, <1>7, <1>8, <2>6, <2>9, <2>10 DEF ListInv
    <2>12. QED
      BY <2>9, <2>11 DEF ListIsComplete
  <1>14. QED
    BY <1>12, <1>13

-----------------------------------------------------------------------------
(* Exports. *)

\* A snapshot is pinned: no member is written.
LEMMA OpenExportKeepsExport ==
    ASSUME CatalogInv, NEW g \in Groups, OpenExport(g)
    PROVE  exp' \in Exports /\ ExportInv'
  <1> DEFINE pin == [rows |-> db.archive, group |-> db.group[g],
                     experiment |-> db.experiment[db.home[g]]]
             G == db.group[g]
  <1>0. /\ db.archive \in SUBSET Rows /\ db.lastId \in Nat /\ G \in Nat
        /\ db.home[g] \in Experiments /\ db.experiment[db.home[g]] \in Nat /\ g \in GroupIds
    BY DEF CatalogInv, StoreGood, RowsKeyed, Databases, OpenExport, GroupIds
  <1>1. pin \in [rows : SUBSET Rows, group : Nat, experiment : Nat]
        /\ pin.group = G /\ pin.rows = db.archive
    BY <1>0
  <1>2. exp' = [pc |-> "experiment", of |-> g, pin |-> pin, group |-> G, experiment |-> 0,
                last |-> 0, members |-> {}]
    BY DEF OpenExport, NoExport
  <1> HIDE DEF pin, G
  <1>3. /\ exp' \in Exports /\ exp'.pc = "experiment" /\ exp'.of = g /\ exp'.pin = pin
        /\ exp'.group = G /\ exp'.last = 0 /\ exp'.members = {}
    BY <1>0, <1>1, <1>2 DEF Exports
  <1>4. \A r \in pin.rows : r.id \in Nat /\ r.id > 0
    BY <1>0, <1>1 DEF CatalogInv, StoreGood, RowsKeyed
  <1>5. IsFiniteSet(pin.rows)
    <2>1. IdsKey(db.archive, db.lastId)
      BY <1>0 DEF IdsKey, CatalogInv, StoreGood, RowsKeyed
    <2>2. QED
      BY <1>1, <2>1, KeyedIsFinite
  <1>6. \A r, q \in pin.rows : r.id = q.id => r = q
    BY <1>1 DEF CatalogInv, StoreGood, RowsKeyed
  <1>7. {q \in pin.rows : q.group = g /\ q.id <= 0} = {}
    BY <1>4
  <1>8. QED
    BY <1>1, <1>3, <1>4, <1>5, <1>6, <1>7 DEF ExportInv

LEMMA ExportExperimentKeepsExport ==
    ASSUME CatalogInv, ExportExperiment
    PROVE  exp' \in Exports /\ ExportInv'
  <1>0. exp \in Exports /\ exp.pc = "experiment"
    BY DEF CatalogInv, TypeOK, ExportExperiment
  <1>1. exp' = [exp EXCEPT !.pc = "members", !.experiment = exp.pin.experiment]
    BY DEF ExportExperiment, View
  <1>2. /\ exp' \in Exports /\ exp'.pc = "members" /\ exp'.of = exp.of /\ exp'.pin = exp.pin
        /\ exp'.group = exp.group /\ exp'.last = exp.last /\ exp'.members = exp.members
        /\ exp'.experiment = exp.pin.experiment
    BY <1>0, <1>1 DEF Exports
  <1>3. QED
    BY <1>2 DEF CatalogInv, ExportInv

\* The first row after the last one written is the only one up to its id.
LEMMA ExportNextKeepsExport ==
    ASSUME CatalogInv, ExportNext
    PROVE  exp' \in Exports /\ ExportInv'
  <1> DEFINE pin == exp.pin
             left == {r \in pin.rows : r.group = exp.of /\ r.id > exp.last}
             member(r) == [cap |-> r.cap, group |-> pin.group, experiment |-> pin.experiment]
             upto(i) == {q \in pin.rows : q.group = exp.of /\ q.id <= i}
  <1>0. /\ exp \in Exports /\ exp.pc = "members" /\ exp.last \in Nat
        /\ pin.rows \subseteq Rows /\ pin.group \in Nat /\ pin.experiment \in Nat
        /\ exp.members \in SUBSET Members
    BY DEF CatalogInv, TypeOK, ExportNext, Exports
  <1>1. /\ exp.group = pin.group /\ exp.experiment = pin.experiment
        /\ IsFiniteSet(pin.rows)
        /\ \A r, q \in pin.rows : r.id = q.id => r = q
        /\ \A r \in pin.rows : r.id > 0
        /\ exp.members = {member(r) : r \in upto(exp.last)}
    BY <1>0 DEF CatalogInv, ExportInv
  <1>2. \A r \in pin.rows : r.id \in Nat /\ r.cap \in Captures
    BY <1>0 DEF Rows
  <1>3. CASE left = {} /\ exp' = [exp EXCEPT !.pc = "done"]
    <2>1. \A r \in pin.rows : r.group = exp.of => r.id <= exp.last
      BY <1>0, <1>2, <1>3
    <2>2. /\ exp' \in Exports /\ exp'.pc = "done" /\ exp'.of = exp.of /\ exp'.pin = exp.pin
          /\ exp'.group = exp.group /\ exp'.last = exp.last /\ exp'.members = exp.members
          /\ exp'.experiment = exp.experiment
      BY <1>0, <1>3 DEF Exports
    <2>3. QED
      BY <1>1, <2>1, <2>2 DEF ExportInv
  <1>4. CASE \E r \in FirstOf(left, 1) :
               exp' = [exp EXCEPT !.last = r.id, !.members = @ \cup {Member(r, pin)}]
    <2>1. PICK r \in FirstOf(left, 1) :
                 exp' = [exp EXCEPT !.last = r.id, !.members = @ \cup {Member(r, pin)}]
      BY <1>4
    <2>2. r \in left /\ r \in pin.rows /\ r.id \in Nat /\ r.id > exp.last /\ r.group = exp.of
      BY <1>2 DEF FirstOf
    <2>3. IsFiniteSet(left)
      BY <1>1, FS_Subset
    <2>4. \A q \in left : q.id <= r.id => q = r
      <3> SUFFICES ASSUME NEW q \in left, q.id <= r.id PROVE q = r
        OBVIOUS
      <3>1. r.id <= r.id
        BY <2>2
      <3> HIDE DEF left
      <3>2. QED
        BY <2>3, <3>1, FirstOfOne
    <2>5. upto(r.id) = upto(exp.last) \cup {r}
      <3>1. ASSUME NEW q \in upto(r.id) PROVE q \in upto(exp.last) \cup {r}
        BY <1>0, <1>2, <2>4
      <3>2. ASSUME NEW q \in upto(exp.last) PROVE q \in upto(r.id)
        BY <1>0, <1>2, <2>2
      <3>3. r \in upto(r.id)
        BY <2>2
      <3> HIDE DEF upto
      <3>4. QED
        BY <3>1, <3>2, <3>3
    <2>6. member(r) = Member(r, pin) /\ member(r) \in Members
      BY <1>0, <1>2, <2>2 DEF Member, Members
    <2> DEFINE M == exp.members \cup {member(r)}
    <2>7. M = {member(q) : q \in upto(r.id)} /\ M \in SUBSET Members
      <3> HIDE DEF upto, member
      <3>1. QED
        BY <1>0, <1>1, <2>5, <2>6
    <2>8. exp' = [exp EXCEPT !.last = r.id, !.members = M]
      BY <1>0, <2>1, <2>6 DEF Exports
    <2> HIDE DEF M
    <2>9. /\ exp' \in Exports /\ exp'.pc = "members" /\ exp'.of = exp.of /\ exp'.pin = exp.pin
          /\ exp'.group = exp.group /\ exp'.last = r.id /\ exp'.members = M
          /\ exp'.experiment = exp.experiment
      BY <1>0, <2>2, <2>7, <2>8 DEF Exports
    <2>10. QED
      BY <1>1, <2>7, <2>9 DEF ExportInv
  <1>5. QED
    BY <1>3, <1>4 DEF ExportNext, View

\* No export is under way.
LEMMA NoExportGood == ASSUME exp' = NoExport PROVE exp' \in Exports /\ ExportInv'
  <1>1. /\ NoExport.pin = NoPin /\ NoExport.pc = "none" /\ NoExport.members = {}
        /\ NoExport.group = 0 /\ NoPin.group = 0 /\ NoPin.rows = {}
    BY DEF NoExport, NoPin
  <1>2. NoPin \in [rows : SUBSET Rows, group : Nat, experiment : Nat]
    BY DEF NoPin
  <1>3. NoExport \in Exports
    <2> HIDE DEF NoPin
    <2>1. QED
      BY <1>2 DEF NoExport, Exports, GroupIds
  <1>4. IsFiniteSet({})
    BY FS_EmptySet
  <1>5. QED
    BY <1>1, <1>3, <1>4 DEF ExportInv

-----------------------------------------------------------------------------
(* Tasks and the spool. *)

\* What TypeOK says of everything but the database and the readers.
TasksTyped ==
    /\ task \in [Sessions -> [kind : {"NONE", "SINGLE", "RUN"}, save : SavePolicies,
                              group : GroupIds]]
    /\ phase \in [Sessions -> Phases] /\ overtaken \subseteq Sessions
    /\ up \in BOOLEAN /\ asked \subseteq Sessions /\ taken \in Nat
    /\ spool \in [cap : Captures \cup {0}, session : Sessions \cup {0}]
    /\ taker \in [Captures -> Sessions \cup {0}]
    /\ moved \in [Captures -> SUBSET GroupIds]
    /\ edits \in Nat /\ reads \in Nat /\ faults \in Nat

\* The parts of the invariant that speak of tasks and of the spool.
TasksGood == TasksTyped /\ TasksFrozen /\ PolicyIsOwn /\ SpoolIsTaken

\* Tasks go on: what was frozen stays so, and of decided captures only the
\* tasks that were overtaken can become more.
TasksGoOn ==
    /\ moved' = moved /\ overtaken \subseteq overtaken' /\ taken <= taken'
    /\ \A s \in Sessions : phase[s] # "new" => phase'[s] # "new" /\ task'[s] = task[s]
    /\ \A c \in db.decided : taker'[c] = taker[c]

LEMMA HomesGrow ==
    ASSUME TypeOK, TasksGoOn
    PROVE  \A c \in db.decided : Homes[c] \subseteq Homes'[c]
  <1> SUFFICES ASSUME NEW c \in db.decided, NEW s \in Sessions, NEW g \in GroupIds,
                      phase[s] # "new", FiledFor(c, s, g)
               PROVE  phase'[s] # "new" /\ FiledFor(c, s, g)'
    BY DEF TypeOK, Databases, Homes
  <1>1. phase'[s] # "new" /\ task'[s] = task[s] /\ moved' = moved /\ taker'[c] = taker[c]
        /\ overtaken \subseteq overtaken'
    BY DEF TasksGoOn
  <1>2. QED
    BY <1>1 DEF FiledFor

\* What a capture of a task that was asked for may be filed under.
LEMMA AtHome ==
    ASSUME NEW c \in Captures, NEW s \in Sessions, NEW g \in GroupIds,
           phase[s] # "new", FiledFor(c, s, g)
    PROVE  <<s, g>> \in Homes[c]
  BY DEF Homes

\* What a step must show that commits a transaction.
LEMMA CommitKeepsInv ==
    ASSUME CatalogInv, NEW new, Commit(new), StoreGood(new, Homes', taken'), Evolves(db, new),
           list' = list, exp' = exp, TasksGood'
    PROVE  CatalogInv'
  <1>1. db' = new /\ new \in Databases
    BY DEF Commit, StoreGood
  <1>2. ListIsComplete' /\ ListInv' /\ steady' \subseteq Captures
    BY CommitKeepsList DEF CatalogInv
  <1>3. ExportInv'
    BY DEF CatalogInv, ExportInv
  <1>4. TypeOK'
    <2>1. list' \in Lists /\ exp' \in Exports
      BY DEF CatalogInv, TypeOK
    <2>2. QED
      BY <1>1, <1>2, <2>1, Zenon DEF TypeOK, TasksGood, TasksTyped
  <1>5. StoreGood(db, Homes, taken)'
    BY <1>1
  <1>6. QED
    BY <1>2, <1>3, <1>4, <1>5 DEF CatalogInv, TasksGood

\* The same for one that decides nothing, as tasks go on.
LEMMA TaskStepKeepsInv ==
    ASSUME CatalogInv, NEW new, Commit(new), StoreGood(new, Homes, taken), Evolves(db, new),
           new.decided = db.decided, TasksGoOn, list' = list, exp' = exp, TasksGood'
    PROVE  CatalogInv'
  <1>1. \A c \in new.decided : Homes[c] \subseteq Homes'[c]
    BY HomesGrow DEF CatalogInv
  <1>2. taken \in Nat /\ taken' \in Nat /\ taken <= taken'
    BY DEF CatalogInv, TypeOK, TasksGood, TasksTyped, TasksGoOn
  <1>3. StoreGood(new, Homes', taken')
    BY <1>1, <1>2, GoodUnder
  <1>4. QED
    BY <1>3, CommitKeepsInv

\* And for a step without a transaction.
LEMMA QuietStepKeepsInv ==
    ASSUME CatalogInv, UNCHANGED <<db, list, exp, steady>>, TasksGoOn, TasksGood'
    PROVE  CatalogInv'
  <1>1. \A c \in db.decided : Homes[c] \subseteq Homes'[c]
    BY HomesGrow DEF CatalogInv
  <1>2. taken \in Nat /\ taken' \in Nat /\ taken <= taken'
    BY DEF CatalogInv, TypeOK, TasksGood, TasksTyped, TasksGoOn
  <1>3. StoreGood(db, Homes, taken)'
    <2>1. StoreGood(db, Homes', taken')
      BY <1>1, <1>2, GoodUnder DEF CatalogInv
    <2>2. QED
      BY <2>1
  <1>4. TypeOK'
    BY Zenon DEF CatalogInv, TypeOK, TasksGood, TasksTyped
  <1>5. ListIsComplete' /\ ListInv' /\ ExportInv'
    BY DEF CatalogInv, ListIsComplete, ListInv, ExportInv
  <1>6. QED
    BY <1>3, <1>4, <1>5 DEF CatalogInv, TasksGood

\* Tasks are left alone by what keeps the policy, the decisions and the groups
\* that are there.
LEMMA TasksLeftAlone ==
    ASSUME CatalogInv, UNCHANGED <<taskVars, deviceVars, moved>>, up' \in BOOLEAN,
           edits' \in Nat, reads' \in Nat, faults' \in Nat,
           db'.policy = db.policy, db.decided \subseteq db'.decided,
           \A g \in GroupIds : GroupThere(db, g) => GroupThere(db', g)
    PROVE  TasksGood' /\ TasksGoOn /\ Homes' = Homes
  <1>0. /\ TypeOK /\ TasksFrozen /\ PolicyIsOwn /\ SpoolIsTaken
        /\ UNCHANGED <<task, phase, overtaken, asked, taken, spool, taker, moved>>
    BY DEF CatalogInv, taskVars, deviceVars
  <1>1. TasksTyped'
    BY <1>0, Zenon DEF TypeOK, TasksTyped
  <1>2. TasksFrozen'
    <2>1. \A s \in Sessions : task[s].group \in GroupIds
      BY <1>0 DEF TypeOK
    <2>2. \A s \in Sessions : GroupThere(db', task[s].group)
      BY <1>0, <2>1 DEF TasksFrozen
    <2>3. QED
      BY <1>0, <2>2 DEF TasksFrozen
  <1>3. PolicyIsOwn'
    BY <1>0 DEF PolicyIsOwn, Unfinished, Undecided
  <1>4. SpoolIsTaken'
    BY <1>0 DEF SpoolIsTaken
  <1>5. TasksGoOn
    BY <1>0 DEF TasksGoOn, TypeOK
  <1>6. Homes' = Homes
    BY <1>0 DEF Homes, FiledFor
  <1>7. QED
    BY <1>1, <1>2, <1>3, <1>4, <1>5, <1>6 DEF TasksGood

-----------------------------------------------------------------------------
(* The actions. *)

\* Experiments and groups made and renamed.
LEMMA CatalogStep ==
    ASSUME CatalogInv, NEW X \in [Experiments -> Nat], NEW G \in [Groups -> Nat],
           NEW H \in [Groups -> Experiments \cup {NoGroup}],
           \A x \in Experiments : db.experiment[x] # 0 => X[x] # 0,
           \A g \in Groups : db.group[g] # 0 => G[g] # 0 /\ H[g] = db.home[g],
           \A g \in Groups : G[g] # 0 /\ db.group[g] = 0 => H[g] \in Experiments /\ X[H[g]] # 0,
           Commit([db EXCEPT !.experiment = X, !.group = G, !.home = H]),
           edits' \in Nat,
           UNCHANGED <<taskVars, up, deviceVars, list, exp, moved, reads, faults>>
    PROVE  CatalogInv'
  <1> DEFINE new == [db EXCEPT !.experiment = X, !.group = G, !.home = H]
  <1>0. TypeOK /\ StoreGood(db, Homes, taken) /\ taken \in Nat
    BY DEF CatalogInv, TypeOK
  <1>1. /\ StoreGood(new, Homes, taken) /\ Evolves(db, new) /\ new.decided = db.decided
        /\ new.policy = db.policy /\ new.state = db.state
        /\ \A g \in GroupIds : GroupThere(db, g) => GroupThere(new, g)
    BY <1>0, CatalogGood
  <1>2. db' = new
    BY DEF Commit
  <1> HIDE DEF new
  <1>3. up' \in BOOLEAN /\ reads' \in Nat /\ faults' \in Nat
    BY <1>0, Zenon DEF TypeOK
  <1>4. TasksGood' /\ TasksGoOn
    BY <1>1, <1>2, <1>3, TasksLeftAlone
  <1>5. Commit(new)
    BY DEF new
  <1>6. QED
    BY <1>1, <1>4, <1>5, TaskStepKeepsInv

LEMMA CreateExperimentKeeps ==
    ASSUME CatalogInv, NEW x \in Experiments, CreateExperiment(x) \/ UpdateExperiment(x)
    PROVE  CatalogInv'
  <1>0. /\ db \in Databases /\ db.experiment \in [Experiments -> Nat]
        /\ db.group \in [Groups -> Nat] /\ db.home \in [Groups -> Experiments \cup {NoGroup}]
        /\ edits \in Nat
    BY DEF CatalogInv, TypeOK, Databases
  <1>1. PICK n \in Nat \ {0} : Commit([db EXCEPT !.experiment[x] = n])
    <2>1. CASE CreateExperiment(x)
      <3>1. Commit([db EXCEPT !.experiment[x] = 1])
        BY <2>1 DEF CreateExperiment
      <3>2. 1 \in Nat \ {0}
        OBVIOUS
      <3>3. QED
        BY <3>1, <3>2, Zenon
    <2>2. CASE UpdateExperiment(x)
      <3>1. [db EXCEPT !.experiment[x] = @ + 1] = [db EXCEPT !.experiment[x] = db.experiment[x] + 1]
        BY <1>0 DEF Databases
      <3>2. db.experiment[x] + 1 \in Nat \ {0}
        BY <1>0
      <3>3. QED
        BY <2>2, <3>1, <3>2 DEF UpdateExperiment
    <2>3. QED
      BY <2>1, <2>2
  <1> DEFINE X == [db.experiment EXCEPT ![x] = n]
  <1>2. X \in [Experiments -> Nat] /\ \A y \in Experiments : db.experiment[y] # 0 => X[y] # 0
    BY <1>0
  <1>3. [db EXCEPT !.experiment[x] = n] = [db EXCEPT !.experiment = X, !.group = db.group, !.home = db.home]
    BY <1>0 DEF Databases
  <1>4. /\ edits' \in Nat
        /\ UNCHANGED <<taskVars, up, deviceVars, list, exp, moved, reads, faults>>
    BY <1>0 DEF CreateExperiment, UpdateExperiment, bounds
  <1> HIDE DEF X
  <1>5. QED
    BY <1>0, <1>1, <1>2, <1>3, <1>4, CatalogStep

LEMMA UpdateGroupKeeps ==
    ASSUME CatalogInv, NEW g \in Groups, UpdateGroup(g)
    PROVE  CatalogInv'
  <1>0. /\ db \in Databases /\ db.experiment \in [Experiments -> Nat]
        /\ db.group \in [Groups -> Nat] /\ db.home \in [Groups -> Experiments \cup {NoGroup}]
        /\ edits \in Nat /\ db.group[g] # 0
    BY DEF CatalogInv, TypeOK, Databases, UpdateGroup
  <1> DEFINE G == [db.group EXCEPT ![g] = db.group[g] + 1]
  <1>1. /\ G \in [Groups -> Nat]
        /\ \A h \in Groups : db.group[h] # 0 => G[h] # 0 /\ db.home[h] = db.home[h]
        /\ \A h \in Groups : G[h] # 0 /\ db.group[h] = 0
                               => db.home[h] \in Experiments /\ db.experiment[db.home[h]] # 0
    BY <1>0
  <1>2. [db EXCEPT !.group[g] = @ + 1]
          = [db EXCEPT !.experiment = db.experiment, !.group = G, !.home = db.home]
    BY <1>0 DEF Databases
  <1>3. /\ edits' \in Nat /\ Commit([db EXCEPT !.group[g] = @ + 1])
        /\ UNCHANGED <<taskVars, up, deviceVars, list, exp, moved, reads, faults>>
    BY <1>0 DEF UpdateGroup
  <1> HIDE DEF G
  <1>4. Commit([db EXCEPT !.experiment = db.experiment, !.group = G, !.home = db.home])
    BY <1>2, <1>3
  <1>5. QED
    BY <1>0, <1>1, <1>3, <1>4, CatalogStep

LEMMA CreateGroupKeeps ==
    ASSUME CatalogInv, NEW g \in Groups, NEW x \in Experiments, CreateGroup(g, x)
    PROVE  CatalogInv'
  <1>0. /\ db \in Databases /\ db.experiment \in [Experiments -> Nat]
        /\ db.group \in [Groups -> Nat] /\ db.home \in [Groups -> Experiments \cup {NoGroup}]
        /\ edits \in Nat /\ db.group[g] = 0 /\ db.experiment[x] # 0
    BY DEF CatalogInv, TypeOK, Databases, CreateGroup
  <1> DEFINE G == [db.group EXCEPT ![g] = 1]
             H == [db.home EXCEPT ![g] = x]
  <1>1. /\ G \in [Groups -> Nat] /\ H \in [Groups -> Experiments \cup {NoGroup}]
        /\ \A h \in Groups : db.group[h] # 0 => G[h] # 0 /\ H[h] = db.home[h]
        /\ \A h \in Groups : G[h] # 0 /\ db.group[h] = 0 => H[h] \in Experiments /\ db.experiment[H[h]] # 0
    BY <1>0
  <1>2. [db EXCEPT !.group[g] = 1, !.home[g] = x]
          = [db EXCEPT !.experiment = db.experiment, !.group = G, !.home = H]
    BY <1>0 DEF Databases
  <1>3. /\ edits' \in Nat /\ Commit([db EXCEPT !.group[g] = 1, !.home[g] = x])
        /\ UNCHANGED <<taskVars, up, deviceVars, list, exp, moved, reads, faults>>
    BY <1>0 DEF CreateGroup, bounds
  <1> HIDE DEF G, H
  <1>4. Commit([db EXCEPT !.experiment = db.experiment, !.group = G, !.home = H])
    BY <1>2, <1>3
  <1>5. QED
    BY <1>0, <1>1, <1>3, <1>4, CatalogStep

LEMMA AssignKeeps ==
    ASSUME CatalogInv, NEW S \in SUBSET Captures, NEW g \in GroupIds, Assign(S, g)
    PROVE  CatalogInv'
  <1> DEFINE new == AssignGroup(db, S, g)
  <1>0. /\ TypeOK /\ TasksFrozen /\ PolicyIsOwn /\ SpoolIsTaken /\ StoreGood(db, Homes, taken)
        /\ taken \in Nat /\ edits \in Nat /\ moved \in [Captures -> SUBSET GroupIds]
    BY DEF CatalogInv, TypeOK
  <1>1. /\ CanAssign(db, S, g) /\ Commit(new) /\ edits' = edits + 1
        /\ moved' = [c \in Captures |-> IF c \in S THEN {g} ELSE moved[c]]
        /\ UNCHANGED <<task, phase, overtaken, up, asked, taken, spool, taker, list, exp, reads, faults>>
    BY DEF Assign, taskVars, deviceVars
  <1>2. \A c \in Captures : moved'[c] = IF c \in S THEN {g} ELSE moved[c]
    BY <1>1
  <1>3. ASSUME NEW c \in S, NEW s \in Sessions, NEW h \in GroupIds, <<s, h>> \in Homes[c]
        PROVE  <<s, g>> \in Homes'[c]
    <2>1. phase[s] # "new" /\ FiledFor(c, s, h)
      BY <1>3 DEF Homes
    <2>2. phase'[s] # "new" /\ FiledFor(c, s, g)'
      BY <1>1, <1>2, <2>1 DEF FiledFor
    <2>3. QED
      BY <2>2 DEF Homes
  <1>4. ASSUME NEW c \in Captures \ S PROVE Homes[c] \subseteq Homes'[c]
    BY <1>1, <1>2 DEF Homes, FiledFor
  <1>5. /\ StoreGood(new, Homes', taken) /\ Evolves(db, new) /\ new.decided = db.decided
        /\ SameCatalog(db, new)
    BY <1>0, <1>1, <1>3, <1>4, AssignGood
  <1>6. db' = new /\ S \subseteq db.decided
    BY <1>0, <1>1 DEF Commit, CanAssign, StoreGood, Filing, Archived
  <1> HIDE DEF new
  <1>7. TasksGood'
    <2>1. TasksTyped'
      <3>1. moved' \in [Captures -> SUBSET GroupIds] /\ edits' \in Nat
        BY <1>0, <1>1
      <3>2. QED
        BY <1>0, <1>1, <3>1, Zenon DEF TypeOK, TasksTyped
    <2>2. TasksFrozen'
      BY <1>0, <1>1, <1>5, <1>6 DEF TasksFrozen, SameCatalog, GroupThere
    <2>3. PolicyIsOwn'
      BY <1>0, <1>1, <1>5, <1>6 DEF PolicyIsOwn, Unfinished, Undecided, SameCatalog
    <2>4. SpoolIsTaken'
      BY <1>0, <1>1, <1>2, <1>5, <1>6 DEF SpoolIsTaken
    <2>5. QED
      BY <2>1, <2>2, <2>3, <2>4 DEF TasksGood
  <1>8. StoreGood(new, Homes', taken')
    BY <1>1, <1>5
  <1>9. QED
    BY <1>1, <1>5, <1>7, <1>8, CommitKeepsInv

-----------------------------------------------------------------------------
(* The steps of tasks. *)

\* A session is frozen for a single capture; nothing is known of it yet.
LEMMA CheckSingleKeeps ==
    ASSUME CatalogInv, NEW s \in Sessions, NEW m \in Menu, NEW g \in GroupIds, CheckSingle(s, m, g)
    PROVE  CatalogInv'
  <1> DEFINE t == [kind |-> m.kind, group |-> g,
                   save |-> IF m.save = "SAVE_LAST" THEN "SAVE_ALL" ELSE m.save]
  <1>0. /\ TypeOK /\ TasksFrozen /\ PolicyIsOwn /\ SpoolIsTaken
        /\ m.kind \in {"NONE", "SINGLE", "RUN"} /\ m.save \in SavePolicies
    BY CatalogConstants DEF CatalogInv
  <1>1. /\ phase[s] = "new" /\ GroupThere(db, g)
        /\ task' = [task EXCEPT ![s] = t] /\ phase' = [phase EXCEPT ![s] = "checked"]
        /\ UNCHANGED <<db, overtaken, up, asked, taken, spool, taker, list, exp, moved, steady,
                       edits, reads, faults>>
    BY DEF CheckSingle, Fresh, KnownGroup, GroupThere, deviceVars, bounds
  <1>2. t \in [kind : {"NONE", "SINGLE", "RUN"}, save : SavePolicies, group : GroupIds]
        /\ t.group = g
    BY <1>0 DEF SavePolicies
  <1> HIDE DEF t
  <1>3. /\ task' \in [Sessions -> [kind : {"NONE", "SINGLE", "RUN"}, save : SavePolicies,
                                   group : GroupIds]]
        /\ phase' \in [Sessions -> Phases]
        /\ task'[s] = t /\ phase'[s] = "checked"
        /\ \A r \in Sessions \ {s} : task'[r] = task[r] /\ phase'[r] = phase[r]
    BY <1>0, <1>1, <1>2 DEF TypeOK, Phases
  <1>4. TasksGood'
    <2>1. TasksTyped'
      BY <1>0, <1>1, <1>3, Zenon DEF TypeOK, TasksTyped
    <2>2. TasksFrozen'
      <3>1. \A r \in Sessions : GroupThere(db', task'[r].group)
        BY <1>0, <1>1, <1>2, <1>3 DEF TasksFrozen
      <3>2. \A r \in Sessions : phase'[r] = "new" => r # db.policy.session /\ r \notin asked
        BY <1>0, <1>3 DEF TasksFrozen
      <3>3. db.policy.session # s
        BY <1>0, <1>1 DEF TasksFrozen
      <3>4. QED
        BY <1>0, <1>1, <1>3, <3>1, <3>2, <3>3 DEF TasksFrozen
    <2>3. PolicyIsOwn'
      <3>1. ASSUME NEW r \in Sessions, Unfinished(r)' PROVE Unfinished(r)
        BY <1>1, <1>3, <3>1 DEF Unfinished, Undecided
      <3>2. QED
        BY <1>0, <1>1, <3>1 DEF PolicyIsOwn
    <2>4. SpoolIsTaken'
      BY <1>0, <1>1, <1>3 DEF SpoolIsTaken
    <2>5. QED
      BY <2>1, <2>2, <2>3, <2>4 DEF TasksGood
  <1>5. TasksGoOn
    BY <1>0, <1>1, <1>3 DEF TasksGoOn, TypeOK
  <1>6. QED
    BY <1>1, <1>4, <1>5, QuietStepKeepsInv

\* A policy is registered: whoever had captures to come is overtaken.
LEMMA RegisterKeeps ==
    ASSUME CatalogInv, NEW s \in Sessions,
           RegisterSingle(s) \/ \E m \in Menu, g \in GroupIds : RegisterRun(s, m, g)
    PROVE  CatalogInv'
  <1> DEFINE p == [session |-> s, save |-> task'[s].save, group |-> task'[s].group]
             new == [db EXCEPT !.policy = p]
             Frozen ==
               /\ task' \in [Sessions -> [kind : {"NONE", "SINGLE", "RUN"}, save : SavePolicies,
                                          group : GroupIds]]
               /\ GroupThere(db, task'[s].group)
               /\ \A r \in Sessions : r # s \/ phase[s] # "new" => task'[r] = task[r]
               /\ Registered(s, task'[s].save, task'[s].group)
               /\ asked' \subseteq Sessions /\ asked \subseteq asked' /\ asked' \subseteq asked \cup {s}
  <1>0. /\ TypeOK /\ TasksFrozen /\ PolicyIsOwn /\ SpoolIsTaken /\ StoreGood(db, Homes, taken)
        /\ taken \in Nat
    BY DEF CatalogInv, TypeOK
  <1>1. Frozen
    <2>1. CASE RegisterSingle(s)
      <3>1. task' = task /\ asked' = asked
        BY <2>1 DEF RegisterSingle
      <3>2. Registered(s, task'[s].save, task'[s].group)
        BY <2>1, <3>1 DEF RegisterSingle
      <3>3. QED
        BY <1>0, <3>1, <3>2 DEF TypeOK, TasksFrozen
    <2>2. ASSUME NEW m \in Menu, NEW g \in GroupIds, RegisterRun(s, m, g)
          PROVE  Frozen
      <3> DEFINE t == [kind |-> m.kind, save |-> m.save, group |-> g]
      <3>1. /\ phase[s] = "new" /\ GroupThere(db, g) /\ task' = [task EXCEPT ![s] = t]
            /\ asked' = asked \cup {s} /\ Registered(s, m.save, g)
        BY <2>2 DEF RegisterRun, Fresh, KnownGroup, GroupThere
      <3>2. t \in [kind : {"NONE", "SINGLE", "RUN"}, save : SavePolicies, group : GroupIds]
            /\ t.group = g /\ t.save = m.save
        BY CatalogConstants
      <3> HIDE DEF t
      <3>3. task'[s] = t /\ \A r \in Sessions \ {s} : task'[r] = task[r]
        BY <1>0, <3>1 DEF TypeOK
      <3>4. QED
        BY <1>0, <3>1, <3>2, <3>3 DEF TypeOK
    <2>3. QED
      BY <2>1, <2>2
  <1>2. /\ phase' = [phase EXCEPT ![s] = "registered"]
        /\ overtaken' = overtaken \cup {t \in Sessions \ {s} : Unfinished(t)}
        /\ Commit(new)
        /\ UNCHANGED <<up, taken, spool, taker, list, exp, moved, edits, reads, faults>>
    <2>1. Registered(s, task'[s].save, task'[s].group)
      BY <1>1
    <2>2. RegisterPolicy(db, s, task'[s].save, task'[s].group) = new
      BY DEF RegisterPolicy
    <2> HIDE DEF new, Frozen
    <2>3. QED
      BY <2>1, <2>2 DEF Registered, bounds
  <1>3. /\ p \in [session : Sessions \cup {0}, save : SavePolicies, group : GroupIds]
        /\ p.session = s /\ p.save = task'[s].save /\ p.group = task'[s].group
        /\ task'[s].save \in SavePolicies /\ task'[s].group \in GroupIds
    BY <1>1
  <1> HIDE DEF p
  <1>4. /\ StoreGood(new, Homes, taken) /\ Evolves(db, new) /\ new.decided = db.decided
        /\ new.policy = p /\ new.group = db.group
    BY <1>0, <1>1, <1>3, PolicyGood
  <1> HIDE DEF new
  <1>5. db' = new
    BY <1>2 DEF Commit
  <1>6. /\ phase' \in [Sessions -> Phases] /\ phase'[s] = "registered"
        /\ \A r \in Sessions \ {s} : phase'[r] = phase[r]
    BY <1>0, <1>2 DEF TypeOK, Phases
  <1>7. TasksGood'
    <2>1. TasksTyped'
      <3>1. overtaken' \subseteq Sessions
        BY <1>0, <1>2 DEF TypeOK
      <3>2. QED
        <4>1. /\ task' \in [Sessions -> [kind : {"NONE", "SINGLE", "RUN"}, save : SavePolicies,
                                         group : GroupIds]]
              /\ asked' \subseteq Sessions
          BY <1>1
        <4> HIDE DEF Frozen
        <4>2. QED
          BY <1>0, <1>2, <1>6, <3>1, <4>1, Zenon DEF TypeOK, TasksTyped
    <2>2. TasksFrozen'
      <3>1. \A r \in Sessions : GroupThere(db', task'[r].group)
        BY <1>0, <1>1, <1>4, <1>5 DEF TasksFrozen, GroupThere
      <3>2. \A r \in Sessions : phase'[r] = "new" => r # db'.policy.session /\ r \notin asked'
        BY <1>0, <1>1, <1>3, <1>4, <1>5, <1>6 DEF TasksFrozen
      <3>3. QED
        BY <1>3, <1>4, <1>5, <3>1, <3>2 DEF TasksFrozen
    <2>3. PolicyIsOwn'
      <3>1. ASSUME NEW r \in Sessions, Unfinished(r)', r # s PROVE Unfinished(r)
        BY <1>1, <1>2, <1>4, <1>5, <1>6, <3>1 DEF Unfinished, Undecided
      <3>2. QED
        BY <1>2, <1>3, <1>4, <1>5, <3>1 DEF PolicyIsOwn
    <2>4. SpoolIsTaken'
      BY <1>0, <1>2, <1>4, <1>5, <1>6 DEF SpoolIsTaken
    <2>5. QED
      BY <2>1, <2>2, <2>3, <2>4 DEF TasksGood
  <1>8. TasksGoOn
    <2>1. taken <= taken' /\ overtaken \subseteq overtaken' /\ moved' = moved /\ taker' = taker
      BY <1>0, <1>2
    <2>2. \A r \in Sessions : phase[r] # "new" => phase'[r] # "new" /\ task'[r] = task[r]
      BY <1>1, <1>6
    <2>3. QED
      BY <2>1, <2>2 DEF TasksGoOn
  <1>9. QED
    BY <1>2, <1>4, <1>7, <1>8, TaskStepKeepsInv

\* The row of a task is made; a single capture asks the device after it.
LEMMA BeginKeeps ==
    ASSUME CatalogInv, NEW s \in Sessions, Begin(s)
    PROVE  CatalogInv'
  <1> DEFINE new == [db EXCEPT !.state[s] = "RUNNING"]
  <1>0. /\ TypeOK /\ TasksFrozen /\ PolicyIsOwn /\ SpoolIsTaken /\ StoreGood(db, Homes, taken)
        /\ taken \in Nat
    BY DEF CatalogInv, TypeOK
  <1>1. /\ phase[s] = "registered" /\ phase' = [phase EXCEPT ![s] = "begun"] /\ Commit(new)
        /\ asked \subseteq asked' /\ asked' \subseteq asked \cup {s}
        /\ UNCHANGED <<task, overtaken, up, taken, spool, taker, list, exp, moved, edits, reads, faults>>
    BY DEF Begin, bounds
  <1>2. /\ StoreGood(new, Homes, taken) /\ Evolves(db, new) /\ new.decided = db.decided
        /\ new.policy = db.policy /\ new.group = db.group
    BY <1>0, StateGood
  <1> HIDE DEF new
  <1>3. db' = new
    BY <1>1 DEF Commit
  <1>4. /\ phase' \in [Sessions -> Phases] /\ phase'[s] = "begun"
        /\ \A r \in Sessions \ {s} : phase'[r] = phase[r]
    BY <1>0, <1>1 DEF TypeOK, Phases
  <1>5. TasksGood'
    <2>1. TasksTyped'
      <3>1. asked' \subseteq Sessions
        BY <1>0, <1>1 DEF TypeOK
      <3>2. QED
        BY <1>0, <1>1, <1>4, <3>1, Zenon DEF TypeOK, TasksTyped
    <2>2. TasksFrozen'
      BY <1>0, <1>1, <1>2, <1>3, <1>4 DEF TasksFrozen, GroupThere
    <2>3. PolicyIsOwn'
      <3>1. ASSUME NEW r \in Sessions, Unfinished(r)' PROVE Unfinished(r)
        <4>1. CASE r = s
          BY <1>1, <4>1 DEF Unfinished
        <4>2. CASE r # s
          BY <1>1, <1>2, <1>3, <1>4, <3>1, <4>2 DEF Unfinished, Undecided
        <4>3. QED
          BY <4>1, <4>2
      <3>2. QED
        BY <1>0, <1>1, <1>2, <1>3, <3>1 DEF PolicyIsOwn
    <2>4. SpoolIsTaken'
      BY <1>0, <1>1, <1>2, <1>3, <1>4 DEF SpoolIsTaken
    <2>5. QED
      BY <2>1, <2>2, <2>3, <2>4 DEF TasksGood
  <1>6. TasksGoOn
    BY <1>0, <1>1, <1>4 DEF TasksGoOn
  <1>7. QED
    BY <1>1, <1>2, <1>5, <1>6, TaskStepKeepsInv

\* A task is over, or another boot has no policy yet: who has captures to come
\* had them before, and the policy is the one that was there, or none.
LEMMA TaskOverKeeps ==
    ASSUME CatalogInv, NEW new, Commit(new), StoreGood(new, Homes, taken), Evolves(db, new),
           new.decided = db.decided, new.group = db.group,
           new.policy = db.policy \/ new.policy = NoPolicy,
           phase' \in [Sessions -> Phases], up' \in BOOLEAN, asked' \subseteq asked,
           \A r \in Sessions : phase'[r] = phase[r] \/ (phase[r] # "new" /\ phase'[r] = "over"),
           UNCHANGED <<task, overtaken, taken, spool, taker, list, exp, moved, edits, reads, faults>>
    PROVE  CatalogInv'
  <1>0. /\ TypeOK /\ TasksFrozen /\ PolicyIsOwn /\ SpoolIsTaken
        /\ taken \in Nat /\ db' = new /\ NoPolicy.session = 0 /\ 0 \notin Sessions
    BY CatalogConstants DEF CatalogInv, TypeOK, Commit, NoPolicy
  <1>1. TasksTyped'
    <2>1. asked' \subseteq Sessions
      BY <1>0 DEF TypeOK
    <2>2. QED
      BY <1>0, <2>1, Zenon DEF TypeOK, TasksTyped
  <1>2. TasksFrozen'
    <2>1. \A r \in Sessions : GroupThere(db', task'[r].group)
      BY <1>0 DEF TasksFrozen, GroupThere
    <2>2. \A r \in Sessions : phase'[r] = "new" => r # db'.policy.session /\ r \notin asked'
      BY <1>0 DEF TasksFrozen
    <2>3. QED
      BY <1>0, <2>1, <2>2 DEF TasksFrozen
  <1>3. PolicyIsOwn'
    <2>1. ASSUME NEW r \in Sessions, Unfinished(r)' PROVE Unfinished(r)
      BY <1>0, <2>1 DEF Unfinished, Undecided
    <2>2. QED
      BY <1>0, <2>1 DEF PolicyIsOwn
  <1>4. SpoolIsTaken'
    BY <1>0 DEF SpoolIsTaken
  <1>5. TasksGoOn
    BY <1>0 DEF TasksGoOn
  <1>6. QED
    BY <1>1, <1>2, <1>3, <1>4, <1>5, TaskStepKeepsInv DEF TasksGood

\* A run that fails takes its own policy away.
LEMMA StartFailsKeeps ==
    ASSUME CatalogInv, NEW s \in Sessions, StartFails(s)
    PROVE  CatalogInv'
  <1> DEFINE new == IF up THEN UnregisterPolicy(db, s) ELSE db
  <1>0. /\ TypeOK /\ StoreGood(db, Homes, taken) /\ taken \in Nat /\ db \in Databases
    BY DEF CatalogInv, TypeOK
  <1>1. /\ phase[s] = "registered" /\ phase' = [phase EXCEPT ![s] = "over"]
        /\ Commit(new) /\ asked' \subseteq asked
        /\ UNCHANGED <<task, overtaken, up, taken, spool, taker, list, exp, moved, edits, reads, faults>>
    BY DEF StartFails, bounds
  <1>2. /\ StoreGood(new, Homes, taken) /\ Evolves(db, new) /\ new.decided = db.decided
        /\ new.group = db.group
        /\ new.policy = db.policy \/ new.policy = NoPolicy
    <2>1. CASE up /\ db.policy.session = s
      <3>1. new = [db EXCEPT !.policy = NoPolicy]
        BY <2>1 DEF UnregisterPolicy
      <3>2. /\ NoPolicy \in [session : Sessions \cup {0}, save : SavePolicies, group : GroupIds]
            /\ GroupThere(db, NoPolicy.group)
        BY DEF NoPolicy, GroupIds, SavePolicies, GroupThere
      <3> HIDE DEF new, NoPolicy
      <3>3. QED
        BY <1>0, <3>1, <3>2, PolicyGood
    <2>2. CASE ~(up /\ db.policy.session = s)
      <3>1. new = db
        BY <2>2 DEF UnregisterPolicy
      <3>2. QED
        BY <1>0, <3>1, EvolvesNot
    <2>3. QED
      BY <2>1, <2>2
  <1> HIDE DEF new
  <1>3. /\ phase' \in [Sessions -> Phases] /\ phase'[s] = "over"
        /\ \A r \in Sessions \ {s} : phase'[r] = phase[r]
    BY <1>0, <1>1 DEF TypeOK, Phases
  <1>4. up' \in BOOLEAN
    BY <1>0, <1>1, Zenon DEF TypeOK
  <1>5. QED
    BY <1>1, <1>2, <1>3, <1>4, TaskOverKeeps

\* A task ends, or is closed by the next core.
LEMMA EndTaskKeeps ==
    ASSUME CatalogInv, NEW s \in Sessions, EndTask(s) \/ Reconcile(s)
    PROVE  CatalogInv'
  <1> DEFINE save == task[s].save
             new == FinalizeSession(db, s, save)
  <1>0. /\ TypeOK /\ StoreGood(db, Homes, taken) /\ taken \in Nat
    BY DEF CatalogInv, TypeOK
  <1>1. /\ phase[s] # "new" /\ Commit(new) /\ asked' \subseteq asked
        /\ phase' = [phase EXCEPT ![s] = "over"]
        /\ UNCHANGED <<task, overtaken, up, taken, spool, taker, list, exp, moved, edits, reads, faults>>
    <2>1. CASE EndTask(s)
      BY <2>1 DEF EndTask, bounds
    <2>2. CASE Reconcile(s)
      <3>1. phase[s] = "over" /\ phase' = phase /\ Commit(new)
        BY <2>2 DEF Reconcile, taskVars
      <3>2. phase' = [phase EXCEPT ![s] = "over"]
        BY <1>0, <3>1 DEF TypeOK
      <3> HIDE DEF new
      <3>3. QED
        BY <2>2, <3>1, <3>2 DEF Reconcile, taskVars, deviceVars, bounds
    <2>3. QED
      BY <2>1, <2>2
  <1>2. /\ StoreGood(new, Homes, taken) /\ Evolves(db, new) /\ new.decided = db.decided
        /\ new.policy = db.policy /\ new.group = db.group
        /\ new.state = [db.state EXCEPT ![s] = "ENDED"]
    <2>1. save \in SavePolicies
      BY <1>0 DEF TypeOK
    <2> HIDE DEF save
    <2>2. QED
      BY <1>0, <2>1, FinalizeSessionGood
  <1> HIDE DEF new
  <1>3. /\ phase' \in [Sessions -> Phases] /\ phase'[s] = "over"
        /\ \A r \in Sessions \ {s} : phase'[r] = phase[r]
    BY <1>0, <1>1 DEF TypeOK, Phases
  <1>4. up' \in BOOLEAN
    BY <1>0, <1>1, Zenon DEF TypeOK
  <1>5. QED
    BY <1>1, <1>2, <1>3, <1>4, TaskOverKeeps

\* A new connection brings a boot without a policy.
LEMMA ReconnectKeeps ==
    ASSUME CatalogInv, Reconnect
    PROVE  CatalogInv'
  <1> DEFINE new == [db EXCEPT !.policy = NoPolicy]
  <1>0. /\ TypeOK /\ StoreGood(db, Homes, taken) /\ taken \in Nat
    BY DEF CatalogInv, TypeOK
  <1>1. /\ Commit(new) /\ asked' = {} /\ up' = TRUE
        /\ UNCHANGED <<task, phase, overtaken, taken, spool, taker, list, exp, moved, edits, reads, faults>>
    BY DEF Reconnect, taskVars, bounds
  <1>2. /\ NoPolicy \in [session : Sessions \cup {0}, save : SavePolicies, group : GroupIds]
        /\ GroupThere(db, NoPolicy.group)
    BY DEF NoPolicy, GroupIds, SavePolicies, GroupThere
  <1>3. /\ StoreGood(new, Homes, taken) /\ Evolves(db, new) /\ new.decided = db.decided
        /\ new.group = db.group /\ new.policy = NoPolicy
    <2> HIDE DEF NoPolicy
    <2>1. QED
      BY <1>0, <1>2, PolicyGood
  <1> HIDE DEF new
  <1>4. up' \in BOOLEAN /\ phase' \in [Sessions -> Phases] /\ asked' \subseteq asked
    BY <1>0, <1>1, Zenon DEF TypeOK
  <1>5. QED
    BY <1>1, <1>3, <1>4, TaskOverKeeps

\* A capture is taken for a task that was asked for, and is not decided yet.
LEMMA TakeKeeps ==
    ASSUME CatalogInv, NEW s \in Sessions, Take(s)
    PROVE  CatalogInv'
  <1>0. /\ TypeOK /\ TasksFrozen /\ PolicyIsOwn /\ SpoolIsTaken /\ StoreGood(db, Homes, taken)
        /\ taken \in Nat /\ Captures \subseteq Nat \ {0}
    BY CatalogConstants DEF CatalogInv, TypeOK
  <1>1. /\ taken + 1 \in Captures
        /\ s \in asked \/ phase[s] = "begun"
        /\ taken' = taken + 1 /\ spool' = [cap |-> taken + 1, session |-> s]
        /\ taker' = [taker EXCEPT ![taken + 1] = s]
        /\ UNCHANGED <<db, task, phase, overtaken, up, asked, list, exp, moved, steady,
                       edits, reads, faults>>
    BY DEF Take, taskVars, bounds
  <1>2. /\ taker' \in [Captures -> Sessions \cup {0}] /\ taker'[taken + 1] = s
        /\ \A c \in Captures \ {taken + 1} : taker'[c] = taker[c]
    BY <1>0, <1>1 DEF TypeOK
  <1>3. /\ spool' \in [cap : Captures \cup {0}, session : Sessions \cup {0}]
        /\ spool'.cap = taken + 1 /\ spool'.session = s /\ taken' \in Nat
    BY <1>0, <1>1
  <1>4. /\ phase[s] # "new" /\ Unfinished(s)
    BY <1>0, <1>1 DEF TasksFrozen, Unfinished
  <1>5. \A c \in db.decided : c \in Captures /\ c # taken + 1
    <2>1. \A c \in db.decided : c <= taken /\ c \in Captures
      BY <1>0 DEF StoreGood, Filing, Databases
    <2>2. QED
      BY <1>0, <2>1
  <1>6. TasksGood'
    <2>1. TasksTyped'
      BY <1>0, <1>1, <1>2, <1>3, Zenon DEF TypeOK, TasksTyped
    <2>2. TasksFrozen'
      BY <1>0, <1>1 DEF TasksFrozen, GroupThere
    <2>3. PolicyIsOwn'
      <3>1. ASSUME NEW r \in Sessions, Unfinished(r)', r # s PROVE Unfinished(r)
        BY <1>1, <1>3, <3>1 DEF Unfinished, Undecided
      <3>2. QED
        BY <1>0, <1>1, <1>4, <3>1 DEF PolicyIsOwn
    <2>4. SpoolIsTaken'
      <3>1. \A c \in Captures : c > taken' => taker'[c] = 0
        BY <1>0, <1>1, <1>2 DEF SpoolIsTaken
      <3>2. \A c \in Captures : moved'[c] # {} => c \in db'.decided
        BY <1>0, <1>1 DEF SpoolIsTaken
      <3>3. spool'.cap <= taken'
        BY <1>0, <1>1, <1>3
      <3>4. QED
        BY <1>1, <1>2, <1>3, <1>4, <3>1, <3>2, <3>3 DEF SpoolIsTaken
    <2>5. QED
      BY <2>1, <2>2, <2>3, <2>4 DEF TasksGood
  <1>7. TasksGoOn
    BY <1>0, <1>1, <1>2, <1>5 DEF TasksGoOn
  <1>8. QED
    BY <1>1, <1>6, <1>7, QuietStepKeepsInv

\* A capture is decided, by its running task or by a replay under the policy of
\* its own task, or of one that has overtaken it.
LEMMA DecidedKeeps ==
    ASSUME CatalogInv, Persist \/ Replay
    PROVE  CatalogInv'
  <1> DEFINE c == spool.cap
             s == spool.session
  <1>0. /\ TypeOK /\ TasksFrozen /\ PolicyIsOwn /\ SpoolIsTaken /\ StoreGood(db, Homes, taken)
        /\ taken \in Nat /\ 0 \notin Sessions
        /\ db.policy \in [session : Sessions \cup {0}, save : SavePolicies, group : GroupIds]
        /\ task \in [Sessions -> [kind : {"NONE", "SINGLE", "RUN"}, save : SavePolicies,
                                  group : GroupIds]]
    BY CatalogConstants DEF CatalogInv, TypeOK, Databases
  <1>1. /\ spool # NoSpool
        /\ UNCHANGED <<taskVars, up, deviceVars, list, exp, moved, bounds>>
    BY DEF Persist, Replay, Undecided
  <1>2. /\ c \in Captures /\ c <= taken /\ s \in Sessions /\ s = taker[c] /\ phase[s] # "new"
        /\ moved[c] # {} => c \in db.decided
    BY <1>0, <1>1 DEF SpoolIsTaken
  <1>3. \E new : /\ Commit(new) /\ StoreGood(new, Homes, taken) /\ Evolves(db, new)
                 /\ db.decided \subseteq new.decided
                 /\ new.policy = db.policy /\ new.group = db.group
    <2>1. CASE Persist
      <3> DEFINE t == task[s]
                 new == CommitDelivery(db, c, s, t.save, t.group)
      <3>1. c \notin db.decided /\ Commit(new)
        BY <2>1 DEF Persist, Undecided
      <3>2. t.save \in SavePolicies /\ t.group \in GroupIds /\ GroupThere(db, t.group)
        BY <1>0, <1>2 DEF TasksFrozen
      <3>3. FiledFor(c, s, t.group)
        BY <1>2, <3>1 DEF FiledFor
      <3> HIDE DEF c, s, t
      <3>4. <<s, t.group>> \in Homes[c]
        BY <1>2, <3>2, <3>3, AtHome
      <3>5. /\ StoreGood(new, Homes, taken) /\ Evolves(db, new) /\ SameCatalog(db, new)
            /\ new.decided = db.decided \cup {c}
        BY <1>0, <1>2, <3>1, <3>2, <3>4, CommitDeliveryGood
      <3> HIDE DEF new
      <3>6. QED
        BY <3>1, <3>5 DEF SameCatalog
    <2>2. CASE Replay
      <3> DEFINE p == db.policy
                 new == CommitReplayed(db, c)
      <3>1. Commit(new) /\ CanReplay(db, c)
        BY <2>2 DEF Replay
      <3>2. ASSUME c \notin db.decided
            PROVE  /\ p.session \in Sessions
                   /\ <<p.session, p.group>> \in Homes[c]
        <4>1. /\ p.session \in Sessions /\ p.group = task[p.session].group
              /\ p.group \in GroupIds
          BY <1>0, <3>1, <3>2 DEF CanReplay, TasksFrozen
        <4>2. phase[p.session] # "new"
          BY <1>0, <4>1 DEF TasksFrozen
        <4>3. Unfinished(s)
          BY <1>1, <3>2 DEF Unfinished, Undecided
        <4>4. p.session = s \/ s \in overtaken
          BY <1>0, <1>2, <4>1, <4>3 DEF PolicyIsOwn
        <4>5. FiledFor(c, p.session, p.group)
          BY <1>2, <3>2, <4>1, <4>4 DEF FiledFor
        <4> HIDE DEF p, c
        <4>6. QED
          BY <1>2, <4>1, <4>2, <4>5, AtHome
      <3>3. /\ StoreGood(new, Homes, taken) /\ Evolves(db, new)
            /\ new.decided = db.decided \cup {c}
            /\ new.policy = db.policy /\ new.group = db.group /\ new.state = db.state
        <4> HIDE DEF c
        <4>1. QED
          BY <1>0, <1>2, <3>2, CommitReplayedGood
      <3> HIDE DEF new
      <3>4. QED
        BY <3>1, <3>3
    <2>3. QED
      BY <2>1, <2>2
  <1>4. PICK new : /\ Commit(new) /\ StoreGood(new, Homes, taken) /\ Evolves(db, new)
                   /\ db.decided \subseteq new.decided
                   /\ new.policy = db.policy /\ new.group = db.group
    BY <1>3
  <1>5. db' = new
    BY <1>4 DEF Commit
  <1>6. /\ up' \in BOOLEAN /\ edits' \in Nat /\ reads' \in Nat /\ faults' \in Nat
        /\ list' = list /\ exp' = exp /\ taken' = taken
    BY <1>0, <1>1, Zenon DEF TypeOK, bounds, deviceVars
  <1>7. \A g \in GroupIds : GroupThere(db, g) => GroupThere(db', g)
    BY <1>4, <1>5 DEF GroupThere
  <1>8. TasksGood' /\ Homes' = Homes
    BY <1>1, <1>4, <1>5, <1>6, <1>7, TasksLeftAlone
  <1>9. StoreGood(new, Homes', taken')
    BY <1>4, <1>6, <1>8
  <1>10. QED
    BY <1>4, <1>6, <1>8, <1>9, CommitKeepsInv

\* A receipt empties the spool, a broken link unpublishes the connection.
LEMMA LinkKeeps ==
    ASSUME CatalogInv, Receipt \/ Disconnect
    PROVE  CatalogInv'
  <1>0. /\ TypeOK /\ TasksFrozen /\ PolicyIsOwn /\ SpoolIsTaken /\ taken \in Nat
    BY DEF CatalogInv, TypeOK
  <1>1. /\ UNCHANGED <<db, task, phase, overtaken, asked, taken, taker, list, exp, moved, steady,
                       edits, reads>>
        /\ spool' = spool \/ spool' = NoSpool
    BY DEF Receipt, Disconnect, taskVars, deviceVars, bounds
  <1>2. up' \in BOOLEAN
    BY <1>0, Zenon DEF Receipt, Disconnect, TypeOK
  <1>3. faults' \in Nat
    BY <1>0 DEF Receipt, Disconnect, bounds, TypeOK
  <1>4. spool' \in [cap : Captures \cup {0}, session : Sessions \cup {0}]
    BY <1>0, <1>1 DEF TypeOK, NoSpool
  <1>5. TasksGood'
    <2>1. TasksTyped'
      BY <1>0, <1>1, <1>2, <1>3, <1>4, Zenon DEF TypeOK, TasksTyped
    <2>2. TasksFrozen'
      BY <1>0, <1>1 DEF TasksFrozen, GroupThere
    <2>3. PolicyIsOwn'
      <3>1. ASSUME NEW r \in Sessions, Unfinished(r)' PROVE Unfinished(r)
        BY <1>1, <3>1 DEF Unfinished, Undecided
      <3>2. QED
        BY <1>0, <1>1, <3>1 DEF PolicyIsOwn
    <2>4. SpoolIsTaken'
      BY <1>0, <1>1 DEF SpoolIsTaken
    <2>5. QED
      BY <2>1, <2>2, <2>3, <2>4 DEF TasksGood
  <1>6. TasksGoOn
    BY <1>0, <1>1 DEF TasksGoOn
  <1>7. QED
    BY <1>1, <1>5, <1>6, QuietStepKeepsInv

\* The core dies with readers under way and perhaps with tasks.
LEMMA CoreCrashKeeps ==
    ASSUME CatalogInv, CoreCrash
    PROVE  CatalogInv'
  <1>0. /\ TypeOK /\ TasksFrozen /\ PolicyIsOwn /\ SpoolIsTaken /\ StoreGood(db, Homes, taken)
        /\ taken \in Nat /\ faults \in Nat
    BY DEF CatalogInv, TypeOK
  <1>1. /\ faults' = faults + 1 /\ up' = FALSE /\ list' = NoList /\ exp' = NoExport
        /\ phase' = [s \in Sessions |-> IF phase[s] = "new" THEN "new" ELSE "over"]
        /\ UNCHANGED <<db, task, overtaken, asked, taken, spool, taker, moved, steady, edits, reads>>
    BY DEF CoreCrash, deviceVars
  <1>2. /\ phase' \in [Sessions -> Phases]
        /\ \A s \in Sessions : phase'[s] = IF phase[s] = "new" THEN "new" ELSE "over"
    BY <1>1 DEF Phases
  <1>3. TasksGood'
    <2>1. TasksTyped'
      <3>1. up' \in BOOLEAN
        BY <1>1, Zenon
      <3>2. faults' \in Nat
        BY <1>0, <1>1
      <3>3. QED
        BY <1>0, <1>1, <1>2, <3>1, <3>2, Zenon DEF TypeOK, TasksTyped
    <2>2. TasksFrozen'
      BY <1>0, <1>1, <1>2 DEF TasksFrozen, GroupThere
    <2>3. PolicyIsOwn'
      <3>1. ASSUME NEW r \in Sessions, Unfinished(r)' PROVE Unfinished(r)
        BY <1>1, <1>2, <3>1 DEF Unfinished, Undecided
      <3>2. QED
        BY <1>0, <1>1, <3>1 DEF PolicyIsOwn
    <2>4. SpoolIsTaken'
      BY <1>0, <1>1, <1>2 DEF SpoolIsTaken
    <2>5. QED
      BY <2>1, <2>2, <2>3, <2>4 DEF TasksGood
  <1>4. StoreGood(db, Homes, taken)'
    <2>1. TasksGoOn
      BY <1>0, <1>1, <1>2 DEF TasksGoOn
    <2>2. \A c \in db.decided : Homes[c] \subseteq Homes'[c]
      BY <1>0, <2>1, HomesGrow
    <2>3. taken <= taken
      BY <1>0
    <2>4. StoreGood(db, Homes', taken)
      BY <1>0, <2>2, <2>3, GoodUnder
    <2>5. QED
      BY <1>1, <2>4
  <1>5. /\ list' \in Lists /\ list'.pc = "none" /\ list'.again = FALSE
    <2>1. NoList.filter \in Filters \cup {NoList.filter}
      OBVIOUS
    <2>2. QED
      BY <1>1, <2>1 DEF NoList, Lists
  <1>6. ListIsComplete' /\ ListInv'
    BY <1>5 DEF ListIsComplete, ListInv
  <1>7. exp' \in Exports /\ ExportInv'
    BY <1>1, NoExportGood
  <1>8. TypeOK'
    <2>1. steady' \subseteq Captures /\ db' \in Databases
      BY <1>0, <1>1 DEF TypeOK
    <2>2. QED
      BY <1>3, <1>5, <1>7, <2>1, Zenon DEF TypeOK, TasksGood, TasksTyped
  <1>9. QED
    BY <1>3, <1>4, <1>6, <1>7, <1>8 DEF CatalogInv, TasksGood

-----------------------------------------------------------------------------
(* Readers change no row. *)

LEMMA ReadersKeep ==
    ASSUME CatalogInv,
           \/ \E f \in Filters : StartList(f)
           \/ ReadPage \/ ExportExperiment \/ ExportNext
           \/ \E g \in Groups : OpenExport(g)
    PROVE  CatalogInv'
  <1>0. /\ TypeOK /\ StoreGood(db, Homes, taken) /\ ListIsComplete /\ ListInv /\ ExportInv
        /\ reads \in Nat
    BY DEF CatalogInv, TypeOK
  <1>1. /\ UNCHANGED <<db, taskVars, up, deviceVars, moved, edits, faults>> /\ reads' \in Nat
    <2>1. CASE \E f \in Filters : StartList(f)
      <3>1. UNCHANGED <<db, taskVars, up, deviceVars, moved, edits, faults>> /\ reads' = reads + 1
        BY <2>1, Zenon DEF StartList
      <3>2. QED
        BY <1>0, <3>1
    <2>2. CASE \E g \in Groups : OpenExport(g)
      <3>1. UNCHANGED <<db, taskVars, up, deviceVars, moved, edits, faults>> /\ reads' = reads + 1
        BY <2>2, Zenon DEF OpenExport
      <3>2. QED
        BY <1>0, <3>1
    <2>3. CASE ReadPage \/ ExportExperiment \/ ExportNext
      <3>1. UNCHANGED <<db, taskVars, up, deviceVars, moved, bounds>>
        BY <2>3, Zenon DEF ReadPage, ExportExperiment, ExportNext
      <3>2. QED
        BY <1>0, <3>1 DEF bounds
    <2>4. QED
      BY <2>1, <2>2, <2>3
  <1>2. up' \in BOOLEAN /\ edits' \in Nat /\ faults' \in Nat /\ taken' = taken
    BY <1>0, <1>1, Zenon DEF TypeOK, deviceVars
  <1>3. TasksGood' /\ Homes' = Homes
    BY <1>1, <1>2, TasksLeftAlone
  <1>4. StoreGood(db, Homes, taken)'
    BY <1>0, <1>1, <1>2, <1>3
  <1>5. CASE (\E f \in Filters : StartList(f)) \/ ReadPage
    <2>1. list' \in Lists /\ steady' \subseteq Captures /\ ListIsComplete' /\ ListInv' /\ exp' = exp
      <3>1. CASE \E f \in Filters : StartList(f)
        BY <3>1, StartListKeepsList DEF StartList
      <3>2. CASE ReadPage
        <4>1. steady' = steady /\ exp' = exp
          BY <3>2, Zenon DEF ReadPage
        <4>2. QED
          BY <1>0, <3>2, <4>1, ReadPageKeepsList DEF TypeOK
      <3>3. QED
        BY <1>5, <3>1, <3>2
    <2>2. ExportInv'
      BY <1>0, <2>1 DEF ExportInv
    <2>3. TypeOK'
      <3>1. db' \in Databases /\ exp' \in Exports
        BY <1>0, <1>1, <2>1 DEF TypeOK
      <3>2. QED
        BY <1>3, <2>1, <3>1, Zenon DEF TypeOK, TasksGood, TasksTyped
    <2>4. QED
      BY <1>3, <1>4, <2>1, <2>2, <2>3 DEF CatalogInv, TasksGood
  <1>6. CASE ExportExperiment \/ ExportNext \/ \E g \in Groups : OpenExport(g)
    <2>1. exp' \in Exports /\ ExportInv'
      BY <1>6, OpenExportKeepsExport, ExportExperimentKeepsExport, ExportNextKeepsExport
    <2>2. list' = list /\ steady' = steady
      BY <1>6, Zenon DEF ExportExperiment, ExportNext, OpenExport
    <2>3. ListIsComplete' /\ ListInv'
      BY <1>0, <1>1, <2>2 DEF ListIsComplete, ListInv
    <2>4. TypeOK'
      <3>1. db' \in Databases /\ list' \in Lists /\ steady' \subseteq Captures
        BY <1>0, <1>1, <2>2 DEF TypeOK
      <3>2. QED
        BY <1>3, <2>1, <3>1, Zenon DEF TypeOK, TasksGood, TasksTyped
    <2>5. QED
      BY <1>3, <1>4, <2>1, <2>3, <2>4 DEF CatalogInv, TasksGood
  <1>7. QED
    BY <1>5, <1>6

-----------------------------------------------------------------------------
(* The theorems. *)

LEMMA CatalogInit == Init => CatalogInv
  <1> SUFFICES ASSUME Init PROVE CatalogInv
    OBVIOUS
  <1>1. /\ db.archive = {} /\ db.lastId = 0 /\ db.decided = {}
        /\ db.rolling = [s \in Sessions |-> NoRoll] /\ db.policy = NoPolicy
        /\ db.state = [s \in Sessions |-> "NONE"]
        /\ db.experiment = [e \in Experiments |-> 0] /\ db.group = [g \in Groups |-> 0]
        /\ db.home = [g \in Groups |-> NoGroup]
    BY DEF Init
  <1>2. NoRoll \in [cap : Captures \cup {0}, group : GroupIds]
    BY DEF NoRoll, GroupIds
  <1>3. /\ NoPolicy \in [session : Sessions \cup {0}, save : SavePolicies, group : GroupIds]
        /\ NoPolicy.session = 0 /\ NoPolicy.group = NoGroup
    BY DEF NoPolicy, GroupIds, SavePolicies
  <1>4. db \in Databases
    <2> HIDE DEF NoRoll, NoPolicy
    <2>1. QED
      BY <1>2, <1>3 DEF Init, Databases
  <1>5. StoreGood(db, Homes, taken)
    BY <1>1, <1>3, <1>4 DEF StoreGood, RowsKeyed, Filing, GroupThere
  <1>6. NoTask \in [kind : {"NONE", "SINGLE", "RUN"}, save : SavePolicies, group : GroupIds]
        /\ NoTask.group = NoGroup
    BY DEF NoTask, SavePolicies, GroupIds
  <1>7. /\ task = [s \in Sessions |-> NoTask] /\ phase = [s \in Sessions |-> "new"]
        /\ overtaken = {} /\ asked = {} /\ taken = 0 /\ spool = NoSpool
        /\ taker = [c \in Captures |-> 0] /\ moved = [c \in Captures |-> {}]
        /\ steady = {} /\ edits = 0 /\ reads = 0 /\ faults = 0
    BY DEF Init
  <1>8. TasksFrozen /\ PolicyIsOwn /\ SpoolIsTaken
    <2> HIDE DEF NoTask, NoPolicy, NoSpool
    <2>1. TasksFrozen
      BY <1>1, <1>3, <1>6, <1>7, CatalogConstants DEF TasksFrozen, GroupThere
    <2>2. PolicyIsOwn
      BY <1>7 DEF PolicyIsOwn, Unfinished, Undecided
    <2>3. SpoolIsTaken
      BY <1>7 DEF SpoolIsTaken
    <2>4. QED
      BY <2>1, <2>2, <2>3
  <1>9. list \in Lists /\ list.pc = "none" /\ list.again = FALSE
    BY DEF Init, NoList, Lists
  <1>10. ListIsComplete /\ ListInv
    BY <1>9 DEF ListIsComplete, ListInv
  <1>11. exp \in Exports /\ ExportInv
    <2>1. exp = NoExport
      BY DEF Init
    <2>2. /\ NoExport.pin = NoPin /\ NoExport.pc = "none" /\ NoExport.members = {}
          /\ NoExport.group = 0 /\ NoPin.group = 0 /\ NoPin.rows = {}
      BY DEF NoExport, NoPin
    <2>3. NoPin \in [rows : SUBSET Rows, group : Nat, experiment : Nat]
      BY DEF NoPin
    <2>4. NoExport \in Exports
      <3> HIDE DEF NoPin
      <3>1. QED
        BY <2>3 DEF NoExport, Exports, GroupIds
    <2>5. IsFiniteSet({})
      BY FS_EmptySet
    <2>6. QED
      BY <2>1, <2>2, <2>4, <2>5 DEF ExportInv
  <1>12. TypeOK
    <2>1. up \in BOOLEAN
      BY Zenon DEF Init
    <2>2. spool \in [cap : Captures \cup {0}, session : Sessions \cup {0}]
      BY <1>7 DEF NoSpool
    <2>3. phase \in [Sessions -> Phases]
      BY <1>7 DEF Phases
    <2> HIDE DEF NoTask, NoSpool
    <2>4. QED
      BY <1>4, <1>6, <1>7, <1>9, <1>11, <2>1, <2>2, <2>3 DEF TypeOK
  <1>13. QED
    BY <1>5, <1>8, <1>10, <1>11, <1>12 DEF CatalogInv

LEMMA StutterKeeps == ASSUME CatalogInv, UNCHANGED vars PROVE CatalogInv'
  <1>0. TypeOK /\ taken \in Nat
    BY DEF CatalogInv, TypeOK
  <1>1. /\ UNCHANGED <<taskVars, deviceVars, moved, bounds>>
        /\ UNCHANGED <<db, list, exp, steady, up>>
    BY DEF vars
  <1>2. up' \in BOOLEAN /\ edits' \in Nat /\ reads' \in Nat /\ faults' \in Nat
    BY <1>0, <1>1, Zenon DEF TypeOK, bounds
  <1>3. TasksGood' /\ TasksGoOn
    BY <1>1, <1>2, TasksLeftAlone
  <1>4. QED
    BY <1>1, <1>3, QuietStepKeepsInv

LEMMA CatalogNext == CatalogInv /\ [Next]_vars => CatalogInv'
  <1> SUFFICES ASSUME CatalogInv, [Next]_vars PROVE CatalogInv'
    OBVIOUS
  <1>1. ASSUME NEW x \in Experiments, CreateExperiment(x) \/ UpdateExperiment(x) PROVE CatalogInv'
    BY <1>1, CreateExperimentKeeps
  <1>2. ASSUME NEW g \in Groups, UpdateGroup(g) PROVE CatalogInv'
    BY <1>2, UpdateGroupKeeps
  <1>3. ASSUME NEW g \in Groups, NEW x \in Experiments, CreateGroup(g, x) PROVE CatalogInv'
    BY <1>3, CreateGroupKeeps
  <1>4. ASSUME NEW S \in SUBSET Captures, NEW g \in GroupIds, Assign(S, g) PROVE CatalogInv'
    BY <1>4, AssignKeeps
  <1>5. ASSUME NEW s \in Sessions, NEW m \in Menu, NEW g \in GroupIds, CheckSingle(s, m, g)
        PROVE  CatalogInv'
    BY <1>5, CheckSingleKeeps
  <1>6. ASSUME NEW s \in Sessions,
               RegisterSingle(s) \/ \E m \in Menu, g \in GroupIds : RegisterRun(s, m, g)
        PROVE  CatalogInv'
    BY <1>6, RegisterKeeps
  <1>7. ASSUME NEW s \in Sessions, Begin(s) PROVE CatalogInv'
    BY <1>7, BeginKeeps
  <1>8. ASSUME NEW s \in Sessions, StartFails(s) PROVE CatalogInv'
    BY <1>8, StartFailsKeeps
  <1>9. ASSUME NEW s \in Sessions, Take(s) PROVE CatalogInv'
    BY <1>9, TakeKeeps
  <1>10. ASSUME NEW s \in Sessions, EndTask(s) \/ Reconcile(s) PROVE CatalogInv'
    BY <1>10, EndTaskKeeps
  <1>11. CASE Persist \/ Replay
    BY <1>11, DecidedKeeps
  <1>12. CASE Receipt \/ Disconnect
    BY <1>12, LinkKeeps
  <1>13. CASE Reconnect
    BY <1>13, ReconnectKeeps
  <1>14. CASE CoreCrash
    BY <1>14, CoreCrashKeeps
  <1>15. CASE \/ \E f \in Filters : StartList(f)
              \/ ReadPage \/ ExportExperiment \/ ExportNext
              \/ \E g \in Groups : OpenExport(g)
    BY <1>15, ReadersKeep
  <1>16. CASE UNCHANGED vars
    BY <1>16, StutterKeeps
  <1>17. QED
    BY <1>1, <1>2, <1>3, <1>4, <1>5, <1>6, <1>7, <1>8, <1>9, <1>10, <1>11, <1>12, <1>13, <1>14,
       <1>15, <1>16 DEF Next

\* The inductive invariant of the catalogue, for any sets of tasks, captures,
\* groups and filters, any page size and any number of edits, reads and faults:
\* a task with captures to come has its policy, or none, or was registered over
\* (capture_once after its idle check, a run that looks for no single capture).
THEOREM CatalogInvariant == Spec => []CatalogInv
  BY CatalogInit, CatalogNext, PTL DEF Spec

\* Every row is in the group an operator put it in last, or in the one frozen for
\* the session it is filed under, and that is the session the capture was taken
\* for unless another task registered over it (_archive_delivery,
\* commit_replayed_delivery, register_delivery_policy): for any number of single
\* captures and runs that overlap, of replays, refused starts and restarts.
THEOREM GroupAsFrozenAlways == Spec => []GroupAsFrozen
  <1>1. ASSUME CatalogInv, NEW r \in db.archive PROVE FiledFor(r.cap, r.session, r.group)
    <2>1. r.cap \in Captures /\ <<r.session, r.group>> \in Homes[r.cap]
      BY <1>1 DEF CatalogInv, StoreGood, Filing, Databases, Rows
    <2>2. QED
      BY <2>1 DEF Homes
  <1>2. CatalogInv => GroupAsFrozen
    BY <1>1 DEF GroupAsFrozen
  <1>3. QED
    BY <1>2, CatalogInvariant, PTL

\* A list read to its end has shown every capture that matched since it began
\* or was filed, and none twice, for any page size (list_captures).
THEOREM ListIsCompleteAlways == Spec => []ListIsComplete
  <1>1. CatalogInv => ListIsComplete
    BY DEF CatalogInv
  <1>2. QED
    BY <1>1, CatalogInvariant, PTL

\* A finished export holds exactly the members of its group at one instant
\* (group_export_snapshot, write_group_export).
THEOREM ExportIsOneInstantAlways == Spec => []ExportIsOneInstant
  <1>1. ASSUME CatalogInv, exp.pc = "done"
        PROVE  /\ exp.group = exp.pin.group /\ exp.experiment = exp.pin.experiment
               /\ exp.members = {[cap |-> r.cap, group |-> exp.group, experiment |-> exp.experiment] :
                                    r \in {q \in exp.pin.rows : q.group = exp.of}}
    <2>1. /\ exp.group = exp.pin.group /\ exp.experiment = exp.pin.experiment
          /\ exp.members = {[cap |-> r.cap, group |-> exp.group, experiment |-> exp.experiment] :
                r \in {q \in exp.pin.rows : q.group = exp.of /\ q.id <= exp.last}}
          /\ \A r \in exp.pin.rows : r.group = exp.of => r.id <= exp.last
      BY <1>1 DEF CatalogInv, ExportInv
    <2>2. {q \in exp.pin.rows : q.group = exp.of /\ q.id <= exp.last}
             = {q \in exp.pin.rows : q.group = exp.of}
      BY <2>1
    <2>3. QED
      BY <2>1, <2>2
  <1>2. CatalogInv => ExportIsOneInstant
    BY <1>1 DEF ExportIsOneInstant
  <1>3. QED
    BY <1>2, CatalogInvariant, PTL
=============================================================================
