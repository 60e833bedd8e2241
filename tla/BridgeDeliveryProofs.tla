------------------------ MODULE BridgeDeliveryProofs ------------------------
(***************************************************************************)
(* The capture path, for every number of captures, connections and faults   *)
(* and every limit of the bridge. Three parts, each resting on the one      *)
(* before it:                                                               *)
(*   1. no spooled capture is lost, and the path implements the promise of  *)
(*      DurableDelivery (DeliveryInv, PathInv);                             *)
(*   2. the frames of a session stay in step (FrameInv);                    *)
(*   3. a capture in the spool can be replayed, but for the cases that      *)
(*      stranded records (PolicyInv).                                       *)
(***************************************************************************)
EXTENDS BridgeDelivery, FiniteSetTheorems, TLAPS

-----------------------------------------------------------------------------
(***************************************************************************)
(* No spooled capture is lost, and the capture path implements the promise  *)
(* of DurableDelivery, for every number of captures, connections and faults *)
(* and every batch size and limit of the bridge: a capture is spooled once, *)
(* only spooled captures are decided, and only decided ones are forgotten.  *)
(***************************************************************************)

\* The operations on sequences stay in the set of elements.
LEMMA SeqTypes ==
    ASSUME NEW S, NEW s \in Seq(S)
    PROVE  /\ s # <<>> => Head(s) \in S /\ Tail(s) \in Seq(S)
           /\ \A e \in S : Append(s, e) \in Seq(S)
           /\ <<>> \in Seq(S)
           /\ \A t \in Seq(S) : s \o t \in Seq(S)
  OBVIOUS

\* Elements of the tail are elements of the sequence.
LEMMA TailElements ==
    ASSUME NEW S, NEW s \in Seq(S), s # <<>>, NEW i \in 1 .. Len(Tail(s))
    PROVE  i + 1 \in 1 .. Len(s) /\ Tail(s)[i] = s[i + 1]
  OBVIOUS

\* An element of an appended sequence is an old one or the new one.
LEMMA AppendElements ==
    ASSUME NEW S, NEW s \in Seq(S), NEW e, NEW i \in 1 .. Len(Append(s, e))
    PROVE  (i \in 1 .. Len(s) /\ Append(s, e)[i] = s[i]) \/ Append(s, e)[i] = e
  OBVIOUS

\* The fields of a frame.
LEMMA FrameFields ==
    ASSUME NEW f \in Frames
    PROVE  /\ f.rec \in Nat /\ f.cap \in Nat
           /\ f.type = "CMD" => f.cmd \in Commands
  <1>1. CASE f \in CommandFrames
    BY <1>1 DEF CommandFrames
  <1>2. CASE f \in RecordFrames
    BY <1>2 DEF RecordFrames
  <1>3. QED
    BY <1>1, <1>2 DEF Frames

\* The frames the parts of the system make.
LEMMA MadeFrames ==
    /\ \A c \in Commands : Cmd(c) \in Frames /\ Resp(c) \in Frames /\ Err(c) \in Frames
    /\ \A n \in Nat : Data(n) \in Frames
    /\ \A r \in AnyRecord : /\ Receipt(r) \in Frames
                            /\ Delivery(r) \in Frames
                            /\ CommitAck(r) \in Frames
  <1>1. ASSUME NEW c \in Commands
        PROVE  Cmd(c) \in Frames /\ Resp(c) \in Frames /\ Err(c) \in Frames
    <2>1. Cmd(c) \in CommandFrames /\ Resp(c) \in CommandFrames /\ Err(c) \in CommandFrames
      BY DEF CommandFrames, Cmd, Resp, Err
    <2>2. QED
      BY <2>1, Zenon DEF Frames
  <1>2. ASSUME NEW n \in Nat
        PROVE  Data(n) \in Frames
    <2>1. Data(n) \in RecordFrames
      BY DEF RecordFrames, Data
    <2>2. QED
      BY <2>1, Zenon DEF Frames
  <1>3. ASSUME NEW r \in AnyRecord
        PROVE  Receipt(r) \in Frames /\ Delivery(r) \in Frames /\ CommitAck(r) \in Frames
    <2>1. r.rec \in Nat /\ r.cap \in Nat
      BY DEF AnyRecord
    <2>2. /\ Receipt(r) \in RecordFrames
          /\ Delivery(r) \in RecordFrames
          /\ CommitAck(r) \in RecordFrames
      BY <2>1 DEF RecordFrames, Receipt, Delivery, CommitAck
    <2>3. QED
      BY <2>2, Zenon DEF Frames
  <1>4. QED
    BY <1>1, <1>2, <1>3

\* Every part of the invariant depends on some of the variables only.
LEMMA Untouched ==
    /\ DeviceTypes /\ UNCHANGED devVars => DeviceTypes'
    /\ SpoolTypes /\ UNCHANGED spoolVars => SpoolTypes'
    /\ MainTypes /\ UNCHANGED mainVars => MainTypes'
    /\ ReaderTypes /\ UNCHANGED readerVars => ReaderTypes'
    /\ EventTypes /\ UNCHANGED <<eventVars, stop>> => EventTypes'
    /\ QueueTypes /\ UNCHANGED fwdVars => QueueTypes'
    /\ WireTypes /\ UNCHANGED wireVars => WireTypes'
    /\ ClientTypes /\ UNCHANGED clientVars => ClientTypes'
    /\ CoreTypes /\ UNCHANGED coreVars => CoreTypes'
    /\ StoreTypes /\ UNCHANGED storeVars => StoreTypes'
    /\ SessionHasConnection /\ UNCHANGED <<mainVars, rpc>> => SessionHasConnection'
    /\ WireBacked /\ UNCHANGED <<toBridge, resolved>> => WireBacked'
    /\ ReaderBacked /\ UNCHANGED <<readerVars, resolved>> => ReaderBacked'
    /\ ClientBacked /\ UNCHANGED <<cpc, cpend, resolved>> => ClientBacked'
    /\ NothingLost /\ UNCHANGED <<spoolVars, resolved>> => NothingLost'
  BY DEF DeviceTypes, devVars, SpoolTypes, spoolVars, MainTypes, mainVars, ReaderTypes,
         readerVars, EventTypes, eventVars, QueueTypes, fwdVars, WireTypes, wireVars,
         ClientTypes, clientVars, CoreTypes, coreVars, StoreTypes, storeVars,
         SessionHasConnection, WireBacked, ReaderBacked, ClientBacked, NothingLost, CapsOf

\* The parts of the invariant, and the tuples that name several variable groups.
USE DEF DeliveryInv, TypeOK, ReceiptsAreBacked, bridgeVars

-----------------------------------------------------------------------------
(* What one write or close does to the connections. *)

\* Sending a frame keeps the connections well typed and their receipts backed.
LEMMA SentToBridge ==
    ASSUME DeliveryInv, NEW k \in Slots, NEW f \in Frames,
           f.type = "RECEIPT" => f.cap \in resolved, UNCHANGED resolved,
           toBridge' = ToBridgeWith(k, f)
    PROVE  toBridge' \in [Slots -> Seq(Frames)] /\ WireBacked'
  <1>1. toBridge \in [Slots -> Seq(Frames)]
    BY DEF WireTypes
  <1>2. CASE toBridge' = toBridge
    BY <1>1, <1>2 DEF WireBacked
  <1>3. CASE toBridge' = [toBridge EXCEPT ![k] = Append(toBridge[k], f)]
    <2>1. toBridge' \in [Slots -> Seq(Frames)]
      BY <1>1, <1>3, SeqTypes
    <2>2. ASSUME NEW j \in Slots, NEW i \in 1 .. Len(toBridge'[j]),
                 toBridge'[j][i].type = "RECEIPT"
          PROVE  toBridge'[j][i].cap \in resolved
      <3>1. CASE j # k
        BY <1>1, <1>3, <2>2, <3>1 DEF WireBacked
      <3>2. CASE j = k
        <4>1. toBridge'[j] = Append(toBridge[k], f) /\ toBridge[k] \in Seq(Frames)
          BY <1>1, <1>3, <3>2
        <4>2. \/ i \in 1 .. Len(toBridge[k]) /\ toBridge'[j][i] = toBridge[k][i]
              \/ toBridge'[j][i] = f
          BY <2>2, <4>1, AppendElements
        <4>3. QED
          BY <2>2, <4>2 DEF WireBacked
      <3>3. QED
        BY <3>1, <3>2
    <2>3. QED
      BY <2>1, <2>2 DEF WireBacked
  <1>4. QED
    BY <1>2, <1>3 DEF ToBridgeWith

\* Reading a frame does, too.
LEMMA ReadFromCore ==
    ASSUME DeliveryInv, NEW k \in Slots, toBridge[k] # <<>>, UNCHANGED resolved,
           toBridge' = [toBridge EXCEPT ![k] = Tail(@)]
    PROVE  toBridge' \in [Slots -> Seq(Frames)] /\ WireBacked'
  <1>1. toBridge \in [Slots -> Seq(Frames)]
    BY DEF WireTypes
  <1>2. toBridge' \in [Slots -> Seq(Frames)]
    BY <1>1, SeqTypes
  <1>3. ASSUME NEW j \in Slots, NEW i \in 1 .. Len(toBridge'[j]),
               toBridge'[j][i].type = "RECEIPT"
        PROVE  toBridge'[j][i].cap \in resolved
    <2>1. CASE j # k
      BY <1>1, <1>3, <2>1 DEF WireBacked
    <2>2. CASE j = k
      <3>1. toBridge'[j] = Tail(toBridge[k]) /\ toBridge[k] \in Seq(Frames)
        BY <1>1, <2>2
      <3>2. i + 1 \in 1 .. Len(toBridge[k]) /\ toBridge'[j][i] = toBridge[k][i + 1]
        BY <1>3, <3>1, TailElements
      <3>3. QED
        BY <1>3, <3>2 DEF WireBacked
    <2>3. QED
      BY <2>1, <2>2
  <1>4. QED
    BY <1>2, <1>3 DEF WireBacked

\* Dropping what is under way on some connections does, too.
LEMMA Dropped ==
    ASSUME DeliveryInv, NEW K \in SUBSET Slots, UNCHANGED resolved,
           toBridge' = [k \in Slots |-> IF k \in K THEN <<>> ELSE toBridge[k]]
    PROVE  toBridge' \in [Slots -> Seq(Frames)] /\ WireBacked'
  BY DEF WireTypes, WireBacked

-----------------------------------------------------------------------------
(* Bridge, main thread. *)

\* A batch is a nonempty sequence of pending records.
LEMMA BatchType ==
    ASSUME SpoolTypes, pending # {}, NEW b \in PendingBatches
    PROVE  b \in Seq(Records) /\ b # <<>>
  <1>1. PICK n \in 1 .. SpoolBatch : b \in [1 .. n -> pending]
    BY DEF PendingBatches
  <1>2. n \in Nat /\ n > 0
    BY DeliveryConstants
  <1>3. b \in [1 .. n -> Records]
    BY <1>1 DEF SpoolTypes
  <1>4. b \in Seq(Records) /\ Len(b) = n
    BY <1>2, <1>3
  <1>5. QED
    BY <1>2, <1>4

\* The end of a session keeps the invariant when the reader threads that
\* outlive it hold backed receipts.
LEMMA SessionEnds ==
    ASSUME DeliveryInv, bconn \in Slots, NEW pc \in {"down", "dead"},
           NEW survivors \in SUBSET AnyRecord, \A z \in survivors : z.cap \in resolved,
           EndSession(pc, survivors), faults' \in Nat
    PROVE  DeliveryInv'
  <1>1. DeviceTypes' /\ MainTypes' /\ EventTypes' /\ QueueTypes'
    BY SeqTypes DEF EndSession, DeviceTypes, MainTypes, EventTypes, QueueTypes, BridgePcs
  <1>2. ReaderTypes' /\ ReaderBacked' /\ SessionHasConnection'
    BY DEF EndSession, ReaderTypes, ReaderPcs, AnyRecord, NoRecord, ReaderBacked,
           SessionHasConnection, storeVars
  <1>3. toBridge' \in [Slots -> Seq(Frames)] /\ WireBacked'
    <2>1. toBridge' = [k \in Slots |-> IF k \in {bconn} THEN <<>> ELSE toBridge[k]]
      BY DEF EndSession, WireTypes
    <2>2. QED
      BY <2>1, Dropped DEF EndSession, storeVars
  <1>4. WireTypes'
    BY <1>3, SeqTypes DEF EndSession, WireTypes
  <1>5. QED
    BY <1>1, <1>2, <1>3, <1>4, Untouched DEF EndSession, clientVars, storeVars

\* The receipts of reader threads are backed.
LEMMA SurvivorsBacked ==
    ASSUME DeliveryInv
    PROVE  Survivors \in SUBSET AnyRecord /\ \A z \in Survivors : z.cap \in resolved
  BY DEF Survivors, ReaderTypes, ReaderBacked

\* A new session starts on an empty connection and owes nothing.
LEMMA OpenInv ==
    ASSUME DeliveryInv, NEW k \in Slots, Open(k)
    PROVE  DeliveryInv'
  <1>1. MainTypes' /\ SessionHasConnection'
    BY DeliveryConstants DEF Open, MainTypes, SessionHasConnection, BridgePcs
  <1>2. ReaderTypes' /\ ReaderBacked'
    BY DEF Open, ReaderTypes, ReaderPcs, ReaderBacked, storeVars
  <1>3. toBridge' \in [Slots -> Seq(Frames)] /\ WireBacked'
    <2>1. toBridge' = [j \in Slots |-> IF j \in {k} THEN <<>> ELSE toBridge[j]]
      BY DEF Open, WireTypes
    <2>2. QED
      BY <2>1, Dropped DEF Open, storeVars
  <1>4. WireTypes'
    BY <1>3, SeqTypes DEF Open, WireTypes
  <1>5. ClientTypes' /\ ClientBacked'
    BY DEF Open, ClientTypes, ClientPcs, ClientBacked, storeVars
  <1>6. QED
    BY <1>1, <1>2, <1>3, <1>4, <1>5, Untouched DEF Open, storeVars

\* Passing a device frame on touches the streams only.
LEMMA ForwardInv ==
    ASSUME DeliveryInv, Forward
    PROVE  DeliveryInv'
  <1>1. DeviceTypes'
    BY SeqTypes DEF Forward, DeviceTypes
  <1>2. MainTypes' /\ SessionHasConnection'
    BY DEF Forward, MainTypes, SessionHasConnection, BridgePcs, readerVars
  <1>3. WireTypes'
    BY SeqTypes DEF Forward, WireTypes, DeviceTypes, ToCoreWith
  <1>4. QED
    BY <1>1, <1>2, <1>3, Untouched DEF Forward, storeVars, clientVars, spoolVars

\* A capture frame is pending before anything else happens to it.
LEMMA StoreInv ==
    ASSUME DeliveryInv, Store
    PROVE  DeliveryInv'
  <1>1. DeviceTypes' /\ Head(fromDev).cap \in Nat
    <2>1. DeviceTypes' /\ Head(fromDev) \in Frames
      BY SeqTypes DEF Store, DeviceTypes
    <2>2. QED
      BY <2>1, FrameFields
  <1>2. CASE \E r \in pending : r.cap = Head(fromDev).cap
    <2>1. PICK r \in pending : batch' = <<r>>
      BY <1>2 DEF Store, StoreCapture
    <2>2. UNCHANGED spoolVars
      BY <1>2 DEF Store, StoreCapture
    <2>3. MainTypes' /\ SessionHasConnection'
      BY <2>1 DEF Store, MainTypes, SessionHasConnection, BridgePcs, SpoolTypes, readerVars
    <2>4. QED
      BY <1>1, <2>2, <2>3, Untouched DEF Store, storeVars, clientVars, wireVars
  <1>3. CASE ~ \E r \in pending : r.cap = Head(fromDev).cap
    <2> DEFINE new == [rec |-> lastRec + 1, cap |-> Head(fromDev).cap]
    <2>1. /\ batch' = <<new>> /\ pending' = pending \cup {new} /\ lastRec' = lastRec + 1
          /\ spooled' = spooled \cup {new.cap} /\ UNCHANGED tombs
      BY <1>3 DEF Store, StoreCapture
    <2>2. new \in Records /\ new.cap \in Nat
      BY <1>1 DEF SpoolTypes, Records
    <2> HIDE DEF new
    <2>3. MainTypes' /\ SessionHasConnection'
      BY <2>1, <2>2 DEF Store, MainTypes, SessionHasConnection, BridgePcs, readerVars
    <2>4. SpoolTypes'
      <3>1. pending \subseteq Records /\ tombs \subseteq Records /\ spooled \subseteq Nat
        BY DEF SpoolTypes
      <3>2. lastRec' \in Nat
        BY <2>1 DEF SpoolTypes
      <3>3. QED
        BY <2>1, <2>2, <3>1, <3>2, Zenon DEF SpoolTypes
    <2>5. NothingLost'
      BY <2>1 DEF Store, NothingLost, CapsOf, storeVars
    <2>6. QED
      BY <1>1, <2>3, <2>4, <2>5, Untouched DEF Store, storeVars, clientVars, wireVars
  <1>4. QED
    BY <1>2, <1>3

\* The replay loop takes a batch or enables forwarding.
LEMMA ReplayInv ==
    ASSUME DeliveryInv, Replay
    PROVE  DeliveryInv'
  <1>1. DeviceTypes' /\ QueueTypes'
    BY SeqTypes DEF Replay, DeviceTypes, QueueTypes, fwdVars
  <1>2. MainTypes' /\ SessionHasConnection'
    <2>1. CASE pending = {}
      BY <2>1 DEF Replay, MainTypes, SessionHasConnection, BridgePcs, readerVars
    <2>2. CASE pending # {}
      <3>1. batch' \in Seq(Records) /\ batch' # <<>>
        BY <2>2, BatchType DEF Replay
      <3>2. QED
        BY <2>2, <3>1 DEF Replay, MainTypes, SessionHasConnection, BridgePcs, readerVars
    <2>3. QED
      BY <2>1, <2>2
  <1>3. QED
    BY <1>1, <1>2, Untouched DEF Replay, storeVars, clientVars, wireVars

\* Delivering a record changes no durable state.
LEMMA DeliverInv ==
    ASSUME DeliveryInv, Deliver
    PROVE  DeliveryInv'
  <1>1. Head(batch) \in Records
    BY SeqTypes DEF Deliver, MainTypes, SessionHasConnection
  <1>2. MainTypes' /\ SessionHasConnection'
    BY DEF Deliver, MainTypes, SessionHasConnection, BridgePcs, readerVars
  <1>3. EventTypes'
    BY <1>1 DEF Deliver, EventTypes, Records
  <1>4. Delivery(Head(batch)) \in Frames
    BY <1>1, MadeFrames DEF Records, AnyRecord
  <1>5. WireTypes'
    BY <1>4, SeqTypes DEF Deliver, WireTypes, ToCoreWith
  <1>6. QED
    BY <1>2, <1>3, <1>5, Untouched DEF Deliver, storeVars, clientVars

\* A confirmed delivery leaves the batch.
LEMMA WakeInv ==
    ASSUME DeliveryInv, Wake
    PROVE  DeliveryInv'
  <1>1. batch # <<>> /\ Tail(batch) \in Seq(Records)
    BY SeqTypes DEF Wake, MainTypes, SessionHasConnection
  <1>2. MainTypes' /\ SessionHasConnection'
    BY <1>1 DEF Wake, MainTypes, SessionHasConnection, BridgePcs, AfterDelivery, readerVars
  <1>3. EventTypes'
    BY DEF Wake, EventTypes
  <1>4. QED
    BY <1>2, <1>3, Untouched DEF Wake, storeVars, clientVars, wireVars

\* The four ways a session ends.
LEMMA EndInv ==
    ASSUME DeliveryInv, CommitTimeout \/ Stopped \/ SerialLost \/ BridgeCrash
    PROVE  DeliveryInv'
  <1>1. bconn \in Slots
    BY DEF CommitTimeout, Stopped, SerialLost, BridgeCrash, SessionHasConnection, MainTypes
  <1>2. faults' \in Nat
    BY DEF CommitTimeout, Stopped, SerialLost, BridgeCrash
  <1>3. CASE BridgeCrash
    <2>1. EndSession("down", {})
      BY <1>3 DEF BridgeCrash
    <2>2. QED
      BY <1>1, <1>2, <2>1, SessionEnds
  <1>4. CASE CommitTimeout \/ Stopped \/ SerialLost
    <2>1. \E pc \in {"down", "dead"} : EndSession(pc, Survivors)
      BY <1>4 DEF CommitTimeout, Stopped, SerialLost
    <2>2. QED
      BY <1>1, <1>2, <2>1, SessionEnds, SurvivorsBacked
  <1>5. QED
    BY <1>3, <1>4

-----------------------------------------------------------------------------
(* Bridge, reader thread. *)

\* The reader takes over only receipts that are backed.
LEMMA ReadInv ==
    ASSUME DeliveryInv, Read
    PROVE  DeliveryInv'
  <1> DEFINE f == Head(toBridge[bconn])
  <1>1. bconn \in Slots /\ toBridge[bconn] \in Seq(Frames) /\ toBridge[bconn] # <<>>
    BY DEF Read, SessionHasConnection, MainTypes, WireTypes
  <1>2. f \in Frames /\ f = toBridge[bconn][1] /\ 1 \in 1 .. Len(toBridge[bconn])
    BY <1>1
  <1>3. f.type \in {"CMD", "RECEIPT"} /\ (f.type = "RECEIPT" => f.cap \in resolved)
    BY <1>1, <1>2 DEF Read, WireBacked
  <1>4. toBridge' \in [Slots -> Seq(Frames)] /\ WireBacked'
    BY <1>1, ReadFromCore DEF Read, storeVars
  <1>5. WireTypes'
    BY <1>4 DEF Read, WireTypes
  <1> HIDE DEF f
  <1>6. CASE f.type = "RECEIPT"
    <2>1. /\ rpc' = "mark" /\ receipt' = [rec |-> f.rec, cap |-> f.cap]
          /\ UNCHANGED <<toDev, deferred, stop>>
      BY <1>6 DEF Read, f
    <2>2. f.rec \in Nat /\ f.cap \in Nat
      BY <1>2, FrameFields
    <2>3. ReaderTypes' /\ ReaderBacked'
      BY <1>3, <1>6, <2>1, <2>2
         DEF Read, ReaderTypes, ReaderBacked, ReaderPcs, AnyRecord, storeVars
    <2>4. SessionHasConnection' /\ DeviceTypes' /\ EventTypes' /\ QueueTypes'
      BY <1>1, <2>1
         DEF Read, SessionHasConnection, DeviceTypes, EventTypes, QueueTypes, mainVars, eventVars
    <2>5. QED
      BY <1>4, <1>5, <2>3, <2>4, Untouched DEF Read, storeVars, clientVars
  <1>7. CASE f.type = "CMD"
    <2>1. UNCHANGED receipt /\ rpc' \in {"reading", "error"} /\ stop' \in BOOLEAN
      BY <1>7 DEF Read, ReaderFails, EventTypes, f
    <2>2. f.cmd \in Commands
      BY <1>2, <1>7, FrameFields
    <2>3. /\ UNCHANGED toDev \/ toDev' = Append(toDev, f.cmd)
          /\ UNCHANGED deferred \/ deferred' = Append(deferred, f.cmd)
      BY <1>7 DEF Read, f
    <2>4. ReaderTypes' /\ ReaderBacked' /\ SessionHasConnection'
      BY <1>1, <2>1
         DEF Read, ReaderTypes, ReaderBacked, ReaderPcs, storeVars, SessionHasConnection, mainVars
    <2>5. EventTypes'
      BY <2>1 DEF Read, EventTypes, eventVars
    <2>6. DeviceTypes' /\ QueueTypes'
      BY <2>2, <2>3, SeqTypes DEF Read, DeviceTypes, QueueTypes
    <2>7. QED
      BY <1>4, <1>5, <2>4, <2>5, <2>6, Untouched DEF Read, storeVars, clientVars
  <1>8. QED
    BY <1>3, <1>6, <1>7

\* The reader ends with the connection.
LEMMA ReadEofInv ==
    ASSUME DeliveryInv, ReadEof
    PROVE  DeliveryInv'
  <1>1. ReaderTypes' /\ ReaderBacked' /\ SessionHasConnection'
    BY DEF ReadEof, ReaderFails, ReaderTypes, ReaderBacked, ReaderPcs, storeVars,
           SessionHasConnection, mainVars
  <1>2. EventTypes'
    BY DEF ReadEof, ReaderFails, EventTypes, eventVars
  <1>3. QED
    BY <1>1, <1>2, Untouched DEF ReadEof, storeVars, clientVars, wireVars

\* Deleting a record whose capture is decided loses nothing.
LEMMA MarkedIsResolved ==
    ASSUME DeliveryInv, NEW r, r.cap \in resolved, UNCHANGED resolved,
           MarkCommitted(r) \/ UNCHANGED spoolVars
    PROVE  SpoolTypes' /\ NothingLost'
  <1>1. CASE UNCHANGED spoolVars
    BY <1>1, Untouched
  <1>2. CASE MarkCommitted(r)
    <2>1. pending' \subseteq pending /\ pending \subseteq pending' \cup {r}
      BY <1>2 DEF MarkCommitted
    <2>2. tombs' \subseteq tombs \cup pending
      BY <1>2 DEF MarkCommitted, Pruned
    <2>3. UNCHANGED <<lastRec, spooled>>
      BY <1>2 DEF MarkCommitted
    <2>4. QED
      BY <2>1, <2>2, <2>3 DEF SpoolTypes, NothingLost, CapsOf
  <1>3. QED
    BY <1>1, <1>2

\* The spool deletes only the record of a decided capture.
LEMMA MarkInv ==
    ASSUME DeliveryInv, Mark
    PROVE  DeliveryInv'
  <1>1. receipt.cap \in resolved /\ UNCHANGED resolved
    BY DEF Mark, ReaderBacked, storeVars
  <1>2. SpoolTypes' /\ NothingLost'
    BY <1>1, MarkedIsResolved DEF Mark
  <1>3. rpc' \in {"respond", "error"} /\ stop' \in BOOLEAN
    BY DEF Mark, ReaderFails, EventTypes
  <1>4. ReaderTypes' /\ ReaderBacked' /\ SessionHasConnection'
    BY <1>1, <1>3 DEF Mark, ReaderTypes, ReaderBacked, ReaderPcs, SessionHasConnection, mainVars
  <1>5. EventTypes'
    BY <1>3 DEF Mark, EventTypes, eventVars
  <1>6. QED
    BY <1>1, <1>2, <1>4, <1>5, Untouched DEF Mark, clientVars, wireVars

\* The commit response changes no durable state.
LEMMA RespondInv ==
    ASSUME DeliveryInv, Respond
    PROVE  DeliveryInv'
  <1>1. rpc' \in {"signal", "off"} /\ stop' \in BOOLEAN
    BY DEF Respond, ReaderFails, EventTypes
  <1>2. ReaderTypes' /\ ReaderBacked' /\ SessionHasConnection'
    BY <1>1 DEF Respond, ReaderTypes, ReaderBacked, ReaderPcs, storeVars, SessionHasConnection,
                mainVars
  <1>3. EventTypes'
    BY <1>1 DEF Respond, EventTypes, eventVars
  <1>4. CommitAck(receipt) \in Frames
    BY MadeFrames DEF ReaderTypes
  <1>5. WireTypes'
    <2>1. bconn \in Slots /\ UNCHANGED <<toBridge, broken>>
      BY DEF Respond, SessionHasConnection, MainTypes
    <2>2. toCore' = toCore \/ toCore' = [toCore EXCEPT ![bconn] = Append(@, CommitAck(receipt))]
      BY DEF Respond, ToCoreWith
    <2>3. toCore \in [Slots -> Seq(Frames)]
      BY DEF WireTypes
    <2>4. Append(toCore[bconn], CommitAck(receipt)) \in Seq(Frames)
      BY <1>4, <2>1, <2>3, SeqTypes
    <2>5. toCore' \in [Slots -> Seq(Frames)]
      BY <2>1, <2>2, <2>3, <2>4
    <2>6. QED
      BY <2>1, <2>5 DEF WireTypes
  <1>6. QED
    BY <1>2, <1>3, <1>5, Untouched DEF Respond, storeVars, clientVars

\* Setting the event changes no durable state.
LEMMA SignalInv ==
    ASSUME DeliveryInv, Signal
    PROVE  DeliveryInv'
  <1>1. rpc' \in {"reading", "error"} /\ stop' \in BOOLEAN
    BY DEF Signal, ReaderFails, EventTypes
  <1>2. ReaderTypes' /\ ReaderBacked' /\ SessionHasConnection'
    BY <1>1 DEF Signal, ReaderTypes, ReaderBacked, ReaderPcs, NoRecord, AnyRecord, storeVars,
                SessionHasConnection, mainVars
  <1>3. EventTypes'
    BY <1>1 DEF Signal, EventTypes
  <1>4. QED
    BY <1>2, <1>3, Untouched DEF Signal, storeVars, clientVars, wireVars

\* A reader that outlived its session deletes only decided captures, too.
LEMMA ZombieMarkInv ==
    ASSUME DeliveryInv, NEW z \in zombies, ZombieMark(z)
    PROVE  DeliveryInv'
  <1>1. z.cap \in resolved /\ UNCHANGED resolved
    BY DEF ZombieMark, ReaderBacked, storeVars
  <1>2. SpoolTypes' /\ NothingLost'
    BY <1>1, MarkedIsResolved DEF ZombieMark
  <1>3. ReaderTypes' /\ ReaderBacked' /\ SessionHasConnection'
    BY <1>1 DEF ZombieMark, ReaderTypes, ReaderBacked, SessionHasConnection, mainVars
  <1>4. QED
    BY <1>1, <1>2, <1>3, Untouched DEF ZombieMark, clientVars, wireVars

-----------------------------------------------------------------------------
(* Device. *)

\* The device touches the serial streams only.
LEMMA DeviceInv ==
    ASSUME DeliveryInv, Device
    PROVE  DeliveryInv'
  <1>1. /\ \A c \in Commands : Resp(c) \in Frames /\ Err(c) \in Frames
        /\ Data(taken + 1) \in Frames
    BY MadeFrames DEF DeviceTypes
  <1>2. CASE Answer
    <2>1. Head(toDev) \in Commands /\ Tail(toDev) \in Seq(Commands)
      BY <1>2, SeqTypes DEF Answer, DeviceTypes
    <2>2. \/ \E f \in Frames : fromDev' = Append(fromDev, f)
          \/ \E f, g \in Frames : fromDev' = fromDev \o <<f, g>>
      BY <1>1, <1>2, <2>1 DEF Answer
    <2>3. fromDev' \in Seq(Frames)
      <3>1. \A f, g \in Frames : <<f, g>> \in Seq(Frames)
        OBVIOUS
      <3>2. fromDev \in Seq(Frames)
        BY DEF DeviceTypes
      <3>3. QED
        BY <2>2, <3>1, <3>2, SeqTypes
    <2>4. taken' \in Nat /\ sched' \in BOOLEAN
      <3>1. taken' \in {taken, taken + 1} /\ sched' \in {sched, TRUE, FALSE}
        BY <1>2, Zenon DEF Answer
      <3>2. taken' \in Nat
        BY <3>1 DEF DeviceTypes
      <3>3. sched' \in BOOLEAN
        BY <3>1, Zenon DEF DeviceTypes
      <3>4. QED
        BY <3>2, <3>3
    <2>5. DeviceTypes'
      BY <1>2, <2>1, <2>3, <2>4 DEF Answer, DeviceTypes
    <2>6. QED
      BY <1>2, <2>5, Untouched DEF Answer, storeVars, clientVars, wireVars, mainVars, readerVars
  <1>3. CASE PeriodicFrame
    <2>1. DeviceTypes'
      BY <1>1, <1>3, SeqTypes DEF PeriodicFrame, DeviceTypes
    <2>2. QED
      BY <1>3, <2>1, Untouched
         DEF PeriodicFrame, storeVars, clientVars, wireVars, mainVars, readerVars
  <1>4. CASE ScheduleEnds
    <2>1. DeviceTypes'
      BY <1>4 DEF ScheduleEnds, DeviceTypes
    <2>2. QED
      BY <1>4, <2>1, Untouched
         DEF ScheduleEnds, storeVars, clientVars, wireVars, mainVars, readerVars
  <1>5. QED
    BY <1>2, <1>3, <1>4 DEF Device

-----------------------------------------------------------------------------
(* Core. *)

\* Reading a frame keeps the stream to the core well typed, and puts the client
\* into a state that owes no receipt, unless pc does.
LEMMA Received ==
    ASSUME DeliveryInv, NEW k \in Slots, toCore[k] # <<>>, NEW inStep, NEW pc \in ClientPcs,
           Receive(k, inStep, pc)
    PROVE  /\ toCore' \in [Slots -> Seq(Frames)]
           /\ cpc' \in [Slots -> ClientPcs]
           /\ cpc'[k] \in {pc, "stuck"} /\ \A j \in Slots \ {k} : cpc'[j] = cpc[j]
           /\ Head(toCore[k]) \in Frames
  <1>1. toCore \in [Slots -> Seq(Frames)] /\ cpc \in [Slots -> ClientPcs]
    BY DEF WireTypes, ClientTypes
  <1>2. Head(toCore[k]) \in Frames /\ Tail(toCore[k]) \in Seq(Frames)
    BY <1>1, SeqTypes
  <1>3. (IF inStep THEN pc ELSE "stuck") \in ClientPcs
    BY DEF ClientPcs
  <1>4. QED
    BY <1>1, <1>2, <1>3 DEF Receive

\* A closed slot owes no receipt.
LEMMA Closed ==
    ASSUME DeliveryInv, NEW k \in Slots, CloseSlot(k), UNCHANGED resolved
    PROVE  WireTypes' /\ WireBacked' /\ ClientTypes' /\ ClientBacked'
  <1>1. toBridge' \in [Slots -> Seq(Frames)] /\ WireBacked'
    <2>1. CASE toBridge' = toBridge
      BY <2>1 DEF WireTypes, WireBacked
    <2>2. CASE toBridge' = [toBridge EXCEPT ![k] = <<>>]
      <3>1. toBridge' = [j \in Slots |-> IF j \in {k} THEN <<>> ELSE toBridge[j]]
        BY <2>2 DEF WireTypes
      <3>2. QED
        BY <3>1, Dropped
    <2>3. QED
      BY <2>1, <2>2 DEF CloseSlot
  <1>2. ClientTypes' /\ ClientBacked'
    BY DEF CloseSlot, ClientTypes, ClientBacked, ClientPcs, NoRecord, AnyRecord
  <1>3. QED
    BY <1>1, <1>2 DEF CloseSlot, WireTypes

\* The acceptor sends HELLO on a connection it takes.
LEMMA AcceptInv ==
    ASSUME DeliveryInv, NEW k \in Slots, Accept(k)
    PROVE  DeliveryInv'
  <1>1. Cmd("HELLO") \in Frames /\ Cmd("HELLO").type # "RECEIPT"
    BY MadeFrames DEF Commands, Cmd
  <1>2. toBridge' \in [Slots -> Seq(Frames)] /\ WireBacked'
    BY <1>1, SentToBridge DEF Accept, storeVars
  <1>3. WireTypes' /\ CoreTypes'
    BY <1>2 DEF Accept, WireTypes, CoreTypes
  <1>4. ClientTypes' /\ ClientBacked'
    BY DEF Accept, ClientTypes, ClientBacked, ClientPcs, Commands, storeVars
  <1>5. QED
    BY <1>2, <1>3, <1>4, Untouched DEF Accept, storeVars, mainVars, readerVars

\* After HELLO the client asks for the capabilities.
LEMMA HelloDoneInv ==
    ASSUME DeliveryInv, NEW k \in Slots, HelloDone(k)
    PROVE  DeliveryInv'
  <1>1. Cmd("CAPS") \in Frames /\ Cmd("CAPS").type # "RECEIPT"
    BY MadeFrames DEF Commands, Cmd
  <1>2. toBridge' \in [Slots -> Seq(Frames)] /\ WireBacked'
    BY <1>1, SentToBridge DEF HelloDone, storeVars
  <1>3. /\ toCore' \in [Slots -> Seq(Frames)] /\ cpc' \in [Slots -> ClientPcs]
        /\ cpc'[k] \in {"caps", "stuck"} /\ \A j \in Slots \ {k} : cpc'[j] = cpc[j]
    BY Received DEF HelloDone, Answered, ClientPcs
  <1>4. WireTypes'
    BY <1>2, <1>3 DEF HelloDone, WireTypes
  <1>5. ClientTypes' /\ ClientBacked'
    BY <1>3 DEF HelloDone, ClientTypes, ClientBacked, Commands, storeVars
  <1>6. QED
    BY <1>2, <1>4, <1>5, Untouched DEF HelloDone, storeVars, mainVars, readerVars

\* After the capabilities the client is ready.
LEMMA CapsDoneInv ==
    ASSUME DeliveryInv, NEW k \in Slots, CapsDone(k)
    PROVE  DeliveryInv'
  <1>1. /\ toCore' \in [Slots -> Seq(Frames)] /\ cpc' \in [Slots -> ClientPcs]
        /\ cpc'[k] \in {"ready", "stuck"} /\ \A j \in Slots \ {k} : cpc'[j] = cpc[j]
    BY Received DEF CapsDone, Answered, ClientPcs
  <1>2. WireTypes' /\ WireBacked'
    BY <1>1 DEF CapsDone, WireTypes, WireBacked, storeVars
  <1>3. ClientTypes' /\ ClientBacked'
    BY <1>1 DEF CapsDone, ClientTypes, ClientBacked, storeVars
  <1>4. QED
    BY <1>2, <1>3, Untouched DEF CapsDone, storeVars, mainVars, readerVars

\* Publishing a client closes the previous one.
LEMMA PublishInv ==
    ASSUME DeliveryInv, NEW k \in Slots, Publish(k)
    PROVE  DeliveryInv'
  <1>1. ClientTypes' /\ ClientBacked'
    <2>1. cpc' \in [Slots -> ClientPcs] /\ ccmd' \in [Slots -> Commands]
          /\ cret' \in [Slots -> ReturnPcs]
      BY DEF Publish, ClientTypes, ClientPcs
    <2>2. cpend' \in [Slots -> AnyRecord]
      BY DEF Publish, ClientTypes, NoRecord, AnyRecord
    <2>3. ClientBacked'
      BY DEF Publish, ClientTypes, ClientBacked, storeVars
    <2>4. QED
      BY <2>1, <2>2, <2>3 DEF ClientTypes
  <1>2. CoreTypes' /\ StoreTypes'
    BY DEF Publish, CoreTypes, StoreTypes
  <1>3. QED
    BY <1>1, <1>2, Untouched DEF Publish, wireVars, mainVars, readerVars

\* A request is a command that goes out, and a note of the core.
LEMMA RequestSends ==
    ASSUME NEW k, Request(k)
    PROVE  \E c \in {"QUERY", "ONCE", "START", "STOP"} : Send(k, c)
  BY DEF Request, SendRun, Command, Runs

\* A command of the application owes no receipt.
LEMMA RequestInv ==
    ASSUME DeliveryInv, NEW k \in Slots, Request(k)
    PROVE  DeliveryInv'
  <1>1. PICK c \in {"QUERY", "ONCE", "START", "STOP"} : Send(k, c)
    BY RequestSends
  <1>2. c \in Commands /\ Cmd(c) \in Frames /\ Cmd(c).type # "RECEIPT"
    BY MadeFrames DEF Cmd, Commands
  <1>3. toBridge' \in [Slots -> Seq(Frames)] /\ WireBacked'
    BY <1>1, <1>2, SentToBridge DEF Send
  <1>4. WireTypes'
    BY <1>1, <1>3 DEF Send, WireTypes
  <1>5. ClientTypes' /\ ClientBacked'
    BY <1>1, <1>2 DEF Send, ClientTypes, ClientBacked, ClientPcs
  <1>6. late' \in BOOLEAN /\ early' \subseteq Runs /\ stranded' \in BOOLEAN
    BY DEF Request, SendRun, Command, CoreTypes, StoreTypes
  <1>7. CoreTypes' /\ StoreTypes'
    BY <1>1, <1>6 DEF Send, CoreTypes, StoreTypes
  <1>8. QED
    BY <1>1, <1>3, <1>4, <1>5, <1>7, Untouched DEF Send, mainVars, readerVars

\* Keeping the books of runs and policies leaves the capture path alone.
LEMMA BookkeepingInv ==
    ASSUME DeliveryInv, Bookkeeping
    PROVE  DeliveryInv'
  <1>1. UNCHANGED <<devVars, spoolVars, bridgeVars, wireVars, clientVars, resolved, faults>>
    BY DEF Bookkeeping, Register, RunFails, SessionFails, StartCleanup, storeVars
  <1>2. CoreTypes' /\ StoreTypes'
    BY DEF Bookkeeping, Register, RunFails, SessionFails, StartCleanup, Withdraw, Runs, storeVars,
           CoreTypes, StoreTypes
  <1>3. QED
    BY <1>1, <1>2, Untouched DEF wireVars, clientVars, mainVars, readerVars

\* A response of the device owes no receipt.
LEMMA RepliedInv ==
    ASSUME DeliveryInv, NEW k \in Slots, Replied(k)
    PROVE  DeliveryInv'
  <1> DEFINE inStep == Head(toCore[k]) \in {Resp(ccmd[k]), Err(ccmd[k])}
             pc == IF Head(toCore[k]).type = "RESP" /\ ccmd[k] = "ONCE" THEN "awaitCap" ELSE "idle"
  <1>1. Receive(k, inStep, pc) /\ pc \in {"awaitCap", "idle"}
    BY DEF Replied
  <1> HIDE DEF inStep, pc
  <1>2. /\ toCore' \in [Slots -> Seq(Frames)] /\ cpc' \in [Slots -> ClientPcs]
        /\ cpc'[k] \in {pc, "stuck"} /\ \A j \in Slots \ {k} : cpc'[j] = cpc[j]
    BY <1>1, Received DEF Replied, Answered, ClientPcs
  <1>3. WireTypes' /\ WireBacked'
    BY <1>2 DEF Replied, WireTypes, WireBacked, storeVars
  <1>4. ClientTypes' /\ ClientBacked'
    BY <1>1, <1>2 DEF Replied, ClientTypes, ClientBacked, storeVars
  <1>5. CoreTypes' /\ StoreTypes'
    BY DEF Replied, CoreTypes, StoreTypes, storeVars
  <1>6. QED
    BY <1>3, <1>4, <1>5, Untouched DEF Replied, storeVars, mainVars, readerVars

\* A delivery that was read is not yet decided and not yet owed.
LEMMA AcceptDeliveryInv ==
    ASSUME DeliveryInv, NEW k \in Slots, AcceptDelivery(k)
    PROVE  DeliveryInv'
  <1> DEFINE f == Head(toCore[k])
             inStep == f.type = "DELIVERY" /\ cpend[k] = NoRecord
  <1>1. Receive(k, inStep, "accepted") /\ toCore[k] # <<>>
    BY DEF AcceptDelivery
  <1>2. /\ toCore' \in [Slots -> Seq(Frames)] /\ cpc' \in [Slots -> ClientPcs]
        /\ cpc'[k] \in {"accepted", "stuck"} /\ \A j \in Slots \ {k} : cpc'[j] = cpc[j]
        /\ f \in Frames
    BY <1>1, Received DEF ClientPcs
  <1>3. [rec |-> f.rec, cap |-> f.cap] \in AnyRecord
    BY <1>2, FrameFields DEF AnyRecord
  <1>4. cpend' = [cpend EXCEPT ![k] = [rec |-> f.rec, cap |-> f.cap]]
    BY DEF AcceptDelivery
  <1>5. cret' \in [Slots -> ReturnPcs]
    BY DEF AcceptDelivery, ClientTypes, ReturnPcs
  <1> HIDE DEF f, inStep
  <1>6. WireTypes' /\ WireBacked'
    BY <1>2 DEF AcceptDelivery, WireTypes, WireBacked, storeVars
  <1>7. ClientTypes' /\ ClientBacked'
    BY <1>2, <1>3, <1>4, <1>5 DEF AcceptDelivery, ClientTypes, ClientBacked, storeVars
  <1>8. QED
    BY <1>6, <1>7, Untouched DEF AcceptDelivery, storeVars, mainVars, readerVars

\* Nor is one that was declined.
LEMMA DeclineInv ==
    ASSUME DeliveryInv, NEW k \in Slots, Decline(k)
    PROVE  DeliveryInv'
  <1> DEFINE f == Head(toCore[k])
  <1>1. Receive(k, TRUE, "declined") /\ toCore[k] # <<>>
    BY DEF Decline
  <1>2. /\ toCore' \in [Slots -> Seq(Frames)] /\ cpc' \in [Slots -> ClientPcs]
        /\ cpc'[k] \in {"declined", "stuck"} /\ \A j \in Slots \ {k} : cpc'[j] = cpc[j]
        /\ f \in Frames
    BY <1>1, Received DEF ClientPcs
  <1>3. [rec |-> f.rec, cap |-> f.cap] \in AnyRecord
    BY <1>2, FrameFields DEF AnyRecord
  <1>4. cpend' = [cpend EXCEPT ![k] = [rec |-> f.rec, cap |-> f.cap]]
    BY DEF Decline
  <1> HIDE DEF f
  <1>5. WireTypes' /\ WireBacked'
    BY <1>2 DEF Decline, WireTypes, WireBacked, storeVars
  <1>6. ClientTypes' /\ ClientBacked'
    BY <1>2, <1>3, <1>4 DEF Decline, ClientTypes, ClientBacked, storeVars
  <1>7. QED
    BY <1>5, <1>6, Untouched DEF Decline, storeVars, mainVars, readerVars

\* A decision adds a capture to the decided ones.
LEMMA DecideInv ==
    ASSUME DeliveryInv, NEW k \in Slots, Decide(k),
           UNCHANGED <<devVars, spoolVars, bridgeVars, faults>>
    PROVE  DeliveryInv'
  <1>1. cpend[k].cap \in Nat
    BY DEF ClientTypes, AnyRecord
  <1>2. StoreTypes'
    BY <1>1 DEF Decide, StoreTypes
  <1>3. resolved' = resolved \cup {cpend[k].cap} /\ UNCHANGED cpend
    BY DEF Decide
  <1>4. WireBacked' /\ ReaderBacked'
    BY <1>3 DEF Decide, WireBacked, ReaderBacked, wireVars, readerVars
  <1>5. ClientTypes' /\ ClientBacked'
    BY <1>3 DEF Decide, ClientTypes, ClientBacked, ClientPcs
  <1>6. NothingLost'
    BY <1>3 DEF NothingLost, CapsOf, spoolVars
  <1>7. QED
    BY <1>2, <1>4, <1>5, <1>6, Untouched DEF Decide, mainVars, readerVars

\* A refused replay leaves the capture pending.
LEMMA RefuseReplayInv ==
    ASSUME DeliveryInv, NEW k \in Slots, RefuseReplay(k),
           UNCHANGED <<devVars, spoolVars, bridgeVars, faults>>
    PROVE  DeliveryInv'
  <1>1. WireTypes' /\ WireBacked' /\ ClientTypes' /\ ClientBacked'
    BY Closed DEF RefuseReplay, storeVars
  <1>2. CoreTypes'
    BY DEF RefuseReplay, CoreTypes
  <1>3. QED
    BY <1>1, <1>2, Untouched DEF RefuseReplay, storeVars, mainVars, readerVars

\* Either way the invariant is kept.
LEMMA CommitInv ==
    ASSUME DeliveryInv, NEW k \in Slots, Commit(k)
    PROVE  DeliveryInv'
  <1>1. UNCHANGED <<devVars, spoolVars, bridgeVars, faults>> /\ (Decide(k) \/ RefuseReplay(k))
    BY DEF Commit
  <1>2. QED
    BY <1>1, DecideInv, RefuseReplayInv

\* Only a decided capture is confirmed: the receipt that goes out is backed.
LEMMA SendReceiptInv ==
    ASSUME DeliveryInv, NEW k \in Slots, SendReceipt(k)
    PROVE  DeliveryInv'
  <1>1. Receipt(cpend[k]) \in Frames
    BY MadeFrames DEF ClientTypes
  <1>2. Receipt(cpend[k]).cap \in resolved
    BY DEF SendReceipt, ClientBacked, Receipt
  <1>3. toBridge' \in [Slots -> Seq(Frames)] /\ WireBacked'
    BY <1>1, <1>2, SentToBridge DEF SendReceipt, storeVars
  <1>4. WireTypes'
    BY <1>3 DEF SendReceipt, WireTypes
  <1>5. ClientTypes' /\ ClientBacked'
    BY DEF SendReceipt, ClientTypes, ClientBacked, ClientPcs, storeVars
  <1>6. QED
    BY <1>3, <1>4, <1>5, Untouched DEF SendReceipt, storeVars, mainVars, readerVars

\* A client that was replaced gives up its delivery, which stays pending.
LEMMA OrphanedInv ==
    ASSUME DeliveryInv, NEW k \in Slots, Orphaned(k)
    PROVE  DeliveryInv'
  <1>1. WireTypes' /\ WireBacked' /\ ClientTypes' /\ ClientBacked'
    BY Closed DEF Orphaned, storeVars
  <1>2. QED
    BY <1>1, Untouched DEF Orphaned, storeVars, mainVars, readerVars

\* A confirmed client goes back to what it was doing.
LEMMA ConfirmedInv ==
    ASSUME DeliveryInv, NEW k \in Slots, Confirmed(k)
    PROVE  DeliveryInv'
  <1> DEFINE inStep == Head(toCore[k]) = CommitAck(cpend[k])
  <1>1. Receive(k, inStep, cret[k]) /\ toCore[k] # <<>>
    BY DEF Confirmed
  <1>2. cret[k] \in ReturnPcs /\ cret[k] \in ClientPcs
    BY DEF ClientTypes, ReturnPcs, ClientPcs
  <1> HIDE DEF inStep
  <1>3. /\ toCore' \in [Slots -> Seq(Frames)] /\ cpc' \in [Slots -> ClientPcs]
        /\ cpc'[k] \in {cret[k], "stuck"} /\ \A j \in Slots \ {k} : cpc'[j] = cpc[j]
    BY <1>1, <1>2, Received
  <1>4. WireTypes' /\ WireBacked'
    BY <1>3 DEF Confirmed, WireTypes, WireBacked, storeVars
  <1>5. ClientTypes' /\ ClientBacked'
    BY <1>2, <1>3
       DEF Confirmed, ClientTypes, ClientBacked, ReturnPcs, NoRecord, AnyRecord, storeVars
  <1>6. QED
    BY <1>4, <1>5, Untouched DEF Confirmed, storeVars, mainVars, readerVars

\* A client lost to the transport owes nothing any more.
LEMMA LoseClientInv ==
    ASSUME DeliveryInv, NEW k \in Slots, LoseClient(k), faults' \in Nat
    PROVE  DeliveryInv'
  <1>1. WireTypes' /\ WireBacked' /\ ClientTypes' /\ ClientBacked'
    BY Closed DEF LoseClient, storeVars
  <1>2. CoreTypes'
    BY DEF LoseClient, CoreTypes
  <1>3. QED
    BY <1>1, <1>2, Untouched DEF LoseClient, storeVars, mainVars, readerVars

\* A broken link may lose receipts, never make one.
LEMMA LinkBreakInv ==
    ASSUME DeliveryInv, NEW k \in Slots, LinkBreak(k)
    PROVE  DeliveryInv'
  <1>1. toBridge' \in [Slots -> Seq(Frames)] /\ WireBacked'
    <2>1. CASE toBridge' = toBridge
      BY <2>1 DEF LinkBreak, WireTypes, WireBacked, storeVars
    <2>2. CASE toBridge' = [toBridge EXCEPT ![k] = <<>>]
      <3>1. toBridge' = [j \in Slots |-> IF j \in {k} THEN <<>> ELSE toBridge[j]]
        BY <2>2 DEF WireTypes
      <3>2. QED
        BY <3>1, Dropped DEF LinkBreak, storeVars
    <2>3. QED
      BY <2>1, <2>2 DEF LinkBreak
  <1>2. WireTypes'
    <2>1. toCore' \in [Slots -> Seq(Frames)]
      <3>1. toCore' = toCore \/ toCore' = [toCore EXCEPT ![k] = <<>>]
        BY DEF LinkBreak
      <3>2. toCore \in [Slots -> Seq(Frames)] /\ <<>> \in Seq(Frames)
        BY DEF WireTypes
      <3>3. QED
        BY <3>1, <3>2
    <2>2. broken' \subseteq Slots
      BY DEF LinkBreak, WireTypes
    <2>3. QED
      BY <1>1, <2>1, <2>2 DEF WireTypes
  <1>3. faults' \in Nat
    BY DEF LinkBreak
  <1>4. QED
    BY <1>1, <1>2, <1>3, Untouched DEF LinkBreak, storeVars, clientVars, mainVars, readerVars

\* A crash of the core keeps what it decided.
LEMMA CoreCrashInv ==
    ASSUME DeliveryInv, CoreCrash
    PROVE  DeliveryInv'
  <1>1. toBridge' \in [Slots -> Seq(Frames)] /\ WireBacked'
    <2>1. CASE toBridge' = toBridge
      BY <2>1 DEF CoreCrash, WireTypes, WireBacked, storeVars
    <2>2. CASE toBridge' = [k \in Slots |-> <<>>]
      <3>1. toBridge' = [k \in Slots |-> IF k \in Slots THEN <<>> ELSE toBridge[k]]
        BY <2>2
      <3>2. QED
        BY <3>1, Dropped DEF CoreCrash, storeVars
    <2>3. QED
      BY <2>1, <2>2 DEF CoreCrash
  <1>2. WireTypes'
    BY <1>1 DEF CoreCrash, WireTypes
  <1>3. ClientTypes' /\ ClientBacked'
    BY DEF CoreCrash, ClientTypes, ClientBacked, ClientPcs, NoRecord, AnyRecord
  <1>4. CoreTypes'
    BY DEF CoreCrash, CoreTypes
  <1>5. faults' \in Nat
    BY DEF CoreCrash
  <1>6. QED
    BY <1>1, <1>2, <1>3, <1>4, <1>5, Untouched DEF CoreCrash, storeVars, mainVars, readerVars

-----------------------------------------------------------------------------
\* The inductive invariant of the capture path: types, a connection for every
\* running session, receipts only for decided captures, nothing lost.
THEOREM DeliveryInvariant == Spec => []DeliveryInv
  <1>1. Init => DeliveryInv
    <2> SUFFICES ASSUME Init PROVE DeliveryInv
      OBVIOUS
    <2>1. <<>> \in Seq(Commands) /\ <<>> \in Seq(Frames) /\ <<>> \in Seq(Records)
      OBVIOUS
    <2>2. DeviceTypes /\ QueueTypes
      BY <2>1 DEF Init, DeviceTypes, QueueTypes
    <2>3. bpc \in BridgePcs /\ bconn \in Slots \cup {0} /\ replaying \in BOOLEAN
      BY Zenon DEF Init, BridgePcs
    <2>4. MainTypes
      BY <2>1, <2>3 DEF Init, MainTypes
    <2>5. SpoolTypes /\ EventTypes /\ faults \in Nat
      BY DEF Init, SpoolTypes, EventTypes
    <2>6. ReaderTypes /\ ClientTypes /\ CoreTypes /\ StoreTypes
      BY DEF Init, ReaderTypes, ClientTypes, CoreTypes, StoreTypes, ReaderPcs, ClientPcs,
             ReturnPcs, Commands, NoRecord, AnyRecord
    <2>7. WireTypes /\ WireBacked
      BY DEF Init, WireTypes, WireBacked
    <2>8. SessionHasConnection /\ ReaderBacked /\ ClientBacked /\ NothingLost
      BY DEF Init, SessionHasConnection, ReaderBacked, ClientBacked, NothingLost, CapsOf
    <2>9. QED
      BY <2>2, <2>4, <2>5, <2>6, <2>7, <2>8
  <1>2. DeliveryInv /\ [Next]_vars => DeliveryInv'
    <2> SUFFICES ASSUME DeliveryInv, [Next]_vars PROVE DeliveryInv'
      OBVIOUS
    <2>1. CASE UNCHANGED vars
      BY <2>1, Untouched DEF vars, storeVars, clientVars, wireVars, mainVars, readerVars
    <2>2. ASSUME NEW k \in Slots, Open(k) PROVE DeliveryInv'
      BY <2>2, OpenInv
    <2>3. CASE Bridge
      BY <2>3, ForwardInv, StoreInv, ReplayInv, DeliverInv, WakeInv, EndInv DEF Bridge
    <2>4. CASE Reader
      BY <2>4, ReadInv, ReadEofInv, MarkInv, RespondInv, SignalInv DEF Reader
    <2>5. ASSUME NEW z \in zombies, ZombieMark(z) PROVE DeliveryInv'
      BY <2>5, ZombieMarkInv
    <2>6. CASE Device
      BY <2>6, DeviceInv
    <2>7. ASSUME NEW k \in Slots, ClientEof(k) \/ ClientTimeout(k) PROVE DeliveryInv'
      <3>1. LoseClient(k) /\ faults' \in Nat
        BY <2>7 DEF ClientEof, ClientTimeout
      <3>2. QED
        BY <3>1, LoseClientInv
    <2>8. ASSUME NEW k \in Slots, Client(k) PROVE DeliveryInv'
      BY <2>7, <2>8, AcceptInv, HelloDoneInv, CapsDoneInv, PublishInv, RepliedInv,
         AcceptDeliveryInv, DeclineInv, CommitInv, SendReceiptInv, OrphanedInv,
         ConfirmedInv DEF Client
    <2>9. ASSUME NEW k \in Slots, Request(k) PROVE DeliveryInv'
      BY <2>9, RequestInv
    <2>10. CASE Faults
      BY <2>7, <2>10, EndInv, CoreCrashInv, LinkBreakInv DEF Faults
    <2>11. CASE Bookkeeping
      BY <2>11, BookkeepingInv
    <2>12. QED
      BY <2>1, <2>2, <2>3, <2>4, <2>5, <2>6, <2>8, <2>9, <2>10, <2>11 DEF Next
  <1>3. QED
    BY <1>1, <1>2, PTL DEF Spec

\* A spooled capture is pending in the bridge or decided in the core, at every
\* moment of every behaviour.
THEOREM NothingLostAlways == Spec => []NothingLost
  <1>1. DeliveryInv => NothingLost
    OBVIOUS
  <1>2. QED
    BY <1>1, DeliveryInvariant, PTL

-----------------------------------------------------------------------------
(* The capture path implements the promise of DurableDelivery. *)

\* Every part of the invariant depends on some of the variables only.
LEMMA PathUntouched ==
    /\ DeviceFresh /\ UNCHANGED <<taken, fromDev, spooled>> => DeviceFresh'
    /\ BatchSpooled /\ UNCHANGED <<pending, batch, spooled>> => BatchSpooled'
    /\ StreamSpooled /\ UNCHANGED <<toCore, spooled>> => StreamSpooled'
    /\ ClientSpooled /\ UNCHANGED <<cpc, cpend, spooled>> => ClientSpooled'
  BY DEF DeviceFresh, BatchSpooled, StreamSpooled, ClientSpooled, CapsOf

-----------------------------------------------------------------------------
(* What one write, read or close does to the streams. *)

\* A frame that is no delivery, or a delivery of a spooled capture, may be sent.
LEMMA SentToCore ==
    ASSUME WireTypes, StreamSpooled, NEW k \in Slots, NEW f,
           f.type = "DELIVERY" => f.cap \in spooled, UNCHANGED spooled,
           toCore' = ToCoreWith(k, f)
    PROVE  StreamSpooled'
  <1>1. toCore \in [Slots -> Seq(Frames)]
    BY DEF WireTypes
  <1>2. CASE toCore' = toCore
    BY <1>2 DEF StreamSpooled
  <1>3. CASE toCore' = [toCore EXCEPT ![k] = Append(toCore[k], f)]
    <2> SUFFICES ASSUME NEW j \in Slots, NEW i \in 1 .. Len(toCore'[j]),
                        toCore'[j][i].type = "DELIVERY"
                 PROVE  toCore'[j][i].cap \in spooled
      BY DEF StreamSpooled
    <2>1. CASE j # k
      BY <1>1, <1>3, <2>1 DEF StreamSpooled
    <2>2. CASE j = k
      <3>1. toCore'[j] = Append(toCore[k], f) /\ toCore[k] \in Seq(Frames)
        BY <1>1, <1>3, <2>2
      <3>2. \/ i \in 1 .. Len(toCore[k]) /\ toCore'[j][i] = toCore[k][i]
            \/ toCore'[j][i] = f
        BY <3>1, AppendElements
      <3>3. QED
        BY <3>2 DEF StreamSpooled
    <2>3. QED
      BY <2>1, <2>2
  <1>4. QED
    BY <1>2, <1>3 DEF ToCoreWith

\* A frame may be read.
LEMMA ReadFromBridge ==
    ASSUME WireTypes, StreamSpooled, NEW k \in Slots, toCore[k] # <<>>, UNCHANGED spooled,
           toCore' = [toCore EXCEPT ![k] = Tail(@)]
    PROVE  StreamSpooled'
  <1>1. toCore \in [Slots -> Seq(Frames)]
    BY DEF WireTypes
  <1> SUFFICES ASSUME NEW j \in Slots, NEW i \in 1 .. Len(toCore'[j]),
                      toCore'[j][i].type = "DELIVERY"
               PROVE  toCore'[j][i].cap \in spooled
    BY DEF StreamSpooled
  <1>2. CASE j # k
    BY <1>1, <1>2 DEF StreamSpooled
  <1>3. CASE j = k
    <2>1. toCore'[j] = Tail(toCore[k]) /\ toCore[k] \in Seq(Frames)
      BY <1>1, <1>3
    <2>2. i + 1 \in 1 .. Len(toCore[k]) /\ toCore'[j][i] = toCore[k][i + 1]
      BY <2>1, TailElements
    <2>3. QED
      BY <2>2 DEF StreamSpooled
  <1>4. QED
    BY <1>2, <1>3

\* What is under way on a connection may be dropped.
LEMMA StreamDropped ==
    ASSUME WireTypes, StreamSpooled, NEW k \in Slots, UNCHANGED spooled,
           toCore' \in {toCore, [toCore EXCEPT ![k] = <<>>]}
    PROVE  StreamSpooled'
  BY DEF WireTypes, StreamSpooled

\* A client that has not just accepted a delivery owes no decision.
LEMMA ClientsKept ==
    ASSUME ClientSpooled, UNCHANGED spooled,
           \A k \in Slots : cpc'[k] = "accepted" => cpc[k] = "accepted" /\ cpend'[k] = cpend[k]
    PROVE  ClientSpooled'
  BY DEF ClientSpooled

\* A closed slot owes none.
LEMMA ClosedKept ==
    ASSUME ClientTypes, ClientSpooled, NEW k \in Slots, CloseSlot(k), UNCHANGED spooled
    PROVE  ClientSpooled'
  <1>1. \A j \in Slots : cpc'[j] = "accepted" => cpc[j] = "accepted" /\ cpend'[j] = cpend[j]
    BY DEF CloseSlot, ClientTypes
  <1>2. QED
    BY <1>1, ClientsKept

\* Reading a frame makes no client accept a delivery, unless pc says so.
LEMMA ReceiveKeeps ==
    ASSUME ClientTypes, ClientSpooled, NEW k \in Slots, NEW inStep, NEW pc, pc # "accepted",
           Receive(k, inStep, pc), UNCHANGED spooled, \A j \in Slots \ {k} : cpend'[j] = cpend[j]
    PROVE  ClientSpooled'
  <1>1. \A j \in Slots : cpc'[j] = "accepted" => cpc[j] = "accepted" /\ cpend'[j] = cpend[j]
    BY DEF Receive, ClientTypes
  <1>2. QED
    BY <1>1, ClientsKept

\* The parts of the invariant.
HIDE DEF ReceiptsAreBacked
USE DEF PathInv

-----------------------------------------------------------------------------
(* The rest of the invariant, beyond DeliveryInv. *)
PathRest == DeviceFresh /\ BatchSpooled /\ StreamSpooled /\ ClientSpooled

USE DEF PathRest

\* A new session starts on an empty connection.
LEMMA OpenPath ==
    ASSUME PathInv, NEW k \in Slots, Open(k)
    PROVE  PathRest'
  <1>1. UNCHANGED <<taken, fromDev, spooled, pending, batch, cpend>>
    BY DEF Open, devVars, spoolVars
  <1>2. StreamSpooled'
    BY <1>1, StreamDropped DEF Open
  <1>3. ClientSpooled'
    BY <1>1, ClientsKept DEF Open, ClientTypes
  <1>4. QED
    BY <1>1, <1>2, <1>3, PathUntouched

\* The frames behind the first one stay fresh, also when the first one is
\* spooled.
LEMMA TailFresh ==
    ASSUME DeviceTypes, DeviceFresh, fromDev # <<>>, fromDev' = Tail(fromDev), UNCHANGED taken,
           spooled' \subseteq spooled \cup (IF Head(fromDev).type = "DATA"
                                            THEN {Head(fromDev).cap} ELSE {})
    PROVE  DeviceFresh'
  <1>1. fromDev \in Seq(Frames) /\ Head(fromDev) = fromDev[1] /\ 1 \in 1 .. Len(fromDev)
    BY DEF DeviceTypes
  <1>2. \A i \in 1 .. Len(fromDev') : i + 1 \in 1 .. Len(fromDev) /\ fromDev'[i] = fromDev[i + 1]
                                      /\ i + 1 # 1
    BY <1>1, TailElements
  <1>3. spooled' \subseteq 1 .. taken
    BY <1>1 DEF DeviceFresh
  <1>4. ASSUME NEW i \in 1 .. Len(fromDev')
        PROVE  /\ fromDev'[i].type \in {"RESP", "ERROR", "DATA"}
               /\ fromDev'[i].type = "DATA" => fromDev'[i].cap \in (1 .. taken) \ spooled'
    BY <1>1, <1>2 DEF DeviceFresh
  <1>5. ASSUME NEW i \in 1 .. Len(fromDev'), NEW j \in 1 .. Len(fromDev'), i # j,
               fromDev'[i].type = "DATA", fromDev'[j].type = "DATA"
        PROVE  fromDev'[i].cap # fromDev'[j].cap
    <2>1. i + 1 # j + 1
      BY <1>5
    <2>2. QED
      BY <1>2, <1>5, <2>1 DEF DeviceFresh
  <1>6. QED
    BY <1>3, <1>4, <1>5 DEF DeviceFresh

\* Only responses and errors of the device are passed on.
LEMMA ForwardPath ==
    ASSUME PathInv, Forward
    PROVE  PathRest'
  <1>1. UNCHANGED <<taken, spooled, pending, batch, cpc, cpend>>
    BY DEF Forward, spoolVars, clientVars
  <1>2. DeviceFresh'
    BY <1>1, TailFresh DEF Forward
  <1>3. fromDev \in Seq(Frames) /\ Head(fromDev) = fromDev[1] /\ 1 \in 1 .. Len(fromDev)
    BY DEF Forward, DeviceTypes
  <1>4. Head(fromDev).type # "DELIVERY" /\ bconn \in Slots
    BY <1>3 DEF Forward, DeviceFresh, SessionHasConnection, MainTypes
  <1>5. StreamSpooled'
    BY <1>1, <1>4, SentToCore DEF Forward
  <1>6. QED
    BY <1>1, <1>2, <1>5, PathUntouched

\* What Store does to the spool: the first frame carries a fresh capture, so
\* that the spool never finds it pending.
LEMMA StoreIsFresh ==
    ASSUME PathInv, Store
    PROVE  /\ Head(fromDev).cap \in Captures \ spooled
           /\ spooled' = spooled \cup {Head(fromDev).cap}
           /\ pending' = pending \cup {[rec |-> lastRec + 1, cap |-> Head(fromDev).cap]}
           /\ batch' = <<[rec |-> lastRec + 1, cap |-> Head(fromDev).cap]>>
  <1>1. fromDev \in Seq(Frames) /\ Head(fromDev) = fromDev[1] /\ 1 \in 1 .. Len(fromDev)
    BY DEF Store, DeviceTypes
  <1>2. Head(fromDev).cap \in (1 .. taken) \ spooled /\ Head(fromDev).type = "DATA"
    BY <1>1 DEF DeviceFresh, Store
  <1>3. Head(fromDev).cap \in Captures \ spooled
    BY <1>2, DeliveryConstants DEF DeviceFresh, DeviceTypes, Captures
  <1>4. ~ \E r \in pending : r.cap = Head(fromDev).cap
    BY <1>2 DEF BatchSpooled, CapsOf
  <1>5. QED
    BY <1>3, <1>4 DEF Store, StoreCapture

\* A stored capture is spooled, and no longer fresh.
LEMMA StorePath ==
    ASSUME PathInv, Store
    PROVE  PathRest'
  <1>1. UNCHANGED <<taken, toCore, cpc, cpend>> /\ Head(fromDev).type = "DATA"
    BY DEF Store, wireVars, clientVars
  <1> DEFINE c == Head(fromDev).cap
             new == [rec |-> lastRec + 1, cap |-> c]
  <1>2. spooled' = spooled \cup {c} /\ pending' = pending \cup {new} /\ batch' = <<new>>
        /\ new.cap = c
    BY StoreIsFresh
  <1>3. DeviceFresh'
    BY <1>1, <1>2, TailFresh DEF Store
  <1> HIDE DEF c, new
  <1>4. BatchSpooled'
    BY <1>2 DEF BatchSpooled, CapsOf
  <1>5. StreamSpooled' /\ ClientSpooled'
    BY <1>1, <1>2 DEF StreamSpooled, ClientSpooled
  <1>6. QED
    BY <1>3, <1>4, <1>5

\* A batch holds pending captures.
LEMMA ReplayPath ==
    ASSUME PathInv, Replay
    PROVE  PathRest'
  <1>1. UNCHANGED <<taken, fromDev, spooled, pending, toCore, cpc, cpend>>
    BY DEF Replay, spoolVars, wireVars, clientVars
  <1>2. BatchSpooled'
    <2>1. CASE pending = {}
      BY <1>1, <2>1, PathUntouched DEF Replay
    <2>2. CASE pending # {}
      <3>1. batch' \in PendingBatches
        BY <2>2 DEF Replay
      <3>2. PICK n \in 1 .. SpoolBatch : batch' \in [1 .. n -> pending]
        BY <3>1 DEF PendingBatches
      <3>3. n \in Nat
        BY DeliveryConstants
      <3>4. Len(batch') = n
        BY <3>2, <3>3
      <3>5. \A i \in 1 .. Len(batch') : batch'[i] \in pending
        BY <3>2, <3>4
      <3>6. QED
        BY <1>1, <3>5 DEF BatchSpooled, CapsOf
    <2>3. QED
      BY <2>1, <2>2
  <1>3. QED
    BY <1>1, <1>2, PathUntouched

\* A delivery goes out for a record of the batch.
LEMMA DeliverPath ==
    ASSUME PathInv, Deliver
    PROVE  PathRest'
  <1>1. UNCHANGED <<taken, fromDev, spooled, pending, batch, cpc, cpend>>
    BY DEF Deliver, devVars, spoolVars, clientVars
  <1>2. Head(batch) = batch[1] /\ 1 \in 1 .. Len(batch) /\ bconn \in Slots
    BY DEF Deliver, MainTypes, SessionHasConnection
  <1>3. Delivery(Head(batch)).cap \in spooled
    BY <1>2 DEF BatchSpooled, Delivery
  <1>4. StreamSpooled'
    BY <1>1, <1>2, <1>3, SentToCore DEF Deliver
  <1>5. QED
    BY <1>1, <1>4, PathUntouched

\* The rest of the batch stays spooled.
LEMMA WakePath ==
    ASSUME PathInv, Wake
    PROVE  PathRest'
  <1>1. UNCHANGED <<taken, fromDev, spooled, pending, toCore, cpc, cpend>>
    BY DEF Wake, devVars, spoolVars, wireVars, clientVars
  <1>2. batch \in Seq(Records) /\ batch # <<>> /\ batch' = Tail(batch)
    BY DEF Wake, MainTypes, SessionHasConnection
  <1>3. \A i \in 1 .. Len(batch') : i + 1 \in 1 .. Len(batch) /\ batch'[i] = batch[i + 1]
    BY <1>2, TailElements
  <1>4. BatchSpooled'
    BY <1>1, <1>3 DEF BatchSpooled, CapsOf
  <1>5. QED
    BY <1>1, <1>4, PathUntouched

\* The end of a session drops the serial streams and the batch.
LEMMA EndPath ==
    ASSUME PathInv, CommitTimeout \/ Stopped \/ SerialLost \/ BridgeCrash
    PROVE  PathRest'
  <1>1. bconn \in Slots
    BY DEF CommitTimeout, Stopped, SerialLost, BridgeCrash, SessionHasConnection, MainTypes
  <1>2. \E pc, z : EndSession(pc, z)
    BY DEF CommitTimeout, Stopped, SerialLost, BridgeCrash
  <1>3. /\ UNCHANGED <<taken, spooled, pending, cpc, cpend>>
        /\ fromDev' = <<>> /\ batch' = <<>> /\ toCore' \in {toCore, [toCore EXCEPT ![bconn] = <<>>]}
    BY <1>2 DEF EndSession, spoolVars, clientVars
  <1>4. DeviceFresh' /\ BatchSpooled'
    BY <1>3 DEF DeviceFresh, BatchSpooled, CapsOf
  <1>5. StreamSpooled'
    BY <1>1, <1>3, StreamDropped
  <1>6. QED
    BY <1>3, <1>4, <1>5, PathUntouched

\* What a committed receipt does to the spool: at most the record goes.
LEMMA MarkShrinks ==
    ASSUME NEW r, MarkCommitted(r) \/ UNCHANGED spoolVars
    PROVE  /\ UNCHANGED spooled
           /\ pending' = pending \/ (r \in pending /\ pending' = pending \ {r})
  BY DEF MarkCommitted, spoolVars

\* The reader thread spools nothing and accepts nothing.
LEMMA ReaderPath ==
    ASSUME PathInv, Reader \/ \E z \in zombies : ZombieMark(z)
    PROVE  PathRest'
  <1>1. CASE Read \/ ReadEof \/ Signal
    <2>1. UNCHANGED <<taken, fromDev, spooled, pending, batch, toCore, cpc, cpend>>
      BY <1>1 DEF Read, ReadEof, Signal, devVars, spoolVars, mainVars, wireVars, clientVars
    <2>2. QED
      BY <2>1, PathUntouched
  <1>2. CASE Mark \/ \E z \in zombies : ZombieMark(z)
    <2>1. UNCHANGED <<taken, fromDev, batch, toCore, cpc, cpend>>
      BY <1>2 DEF Mark, ZombieMark, devVars, mainVars, wireVars, clientVars
    <2>2. \E r : MarkCommitted(r) \/ UNCHANGED spoolVars
      BY <1>2 DEF Mark, ZombieMark
    <2>3. UNCHANGED spooled /\ pending' \subseteq pending
      BY <2>2, MarkShrinks
    <2>4. BatchSpooled'
      BY <2>1, <2>3 DEF BatchSpooled, CapsOf
    <2>5. QED
      BY <2>1, <2>3, <2>4, PathUntouched
  <1>3. CASE Respond
    <2>1. UNCHANGED <<taken, fromDev, spooled, pending, batch, cpc, cpend>>
      BY <1>3 DEF Respond, devVars, spoolVars, mainVars, clientVars
    <2>2. bconn \in Slots /\ CommitAck(receipt).type # "DELIVERY"
      BY <1>3 DEF Respond, SessionHasConnection, MainTypes, CommitAck
    <2>3. StreamSpooled'
      <3>1. CASE UNCHANGED toCore
        BY <2>1, <3>1, PathUntouched
      <3>2. CASE toCore' = ToCoreWith(bconn, CommitAck(receipt))
        BY <2>1, <2>2, <3>2, SentToCore
      <3>3. QED
        BY <1>3, <3>1, <3>2 DEF Respond
    <2>4. QED
      BY <2>1, <2>3, PathUntouched
  <1>4. QED
    BY <1>1, <1>2, <1>3 DEF Reader

\* A frame that is no capture keeps what waits on the serial port fresh.
LEMMA AnswerFresh ==
    ASSUME DeviceTypes, DeviceFresh, NEW f, f.type \in {"RESP", "ERROR"},
           fromDev' = Append(fromDev, f), UNCHANGED <<taken, spooled>>
    PROVE  DeviceFresh'
  <1>1. fromDev \in Seq(Frames)
    BY DEF DeviceTypes
  <1>2. \A i \in 1 .. Len(fromDev') : \/ i \in 1 .. Len(fromDev) /\ fromDev'[i] = fromDev[i]
                                      \/ fromDev'[i] = f
    BY <1>1, AppendElements
  <1>3. QED
    BY <1>2 DEF DeviceFresh

\* A new capture frame carries the next number, whether or not a response goes
\* out in front of it.
LEMMA CaptureFresh ==
    ASSUME DeviceTypes, DeviceFresh, taken < MaxCaptures, taken' = taken + 1, UNCHANGED spooled,
           NEW s \in Seq(Frames), fromDev' = Append(s, Data(taken + 1)),
           s = fromDev \/ \E f : f.type \in {"RESP", "ERROR"} /\ s = Append(fromDev, f)
    PROVE  DeviceFresh'
  <1>1. fromDev \in Seq(Frames) /\ taken \in Nat /\ MaxCaptures \in Nat
    BY DeliveryConstants DEF DeviceTypes
  <1>2. Data(taken + 1).type = "DATA" /\ Data(taken + 1).cap = taken + 1
    BY DEF Data
  <1>3. \A i \in 1 .. Len(s) : \/ i \in 1 .. Len(fromDev) /\ s[i] = fromDev[i]
                               \/ s[i].type \in {"RESP", "ERROR"}
    <2>1. ASSUME NEW f, f.type \in {"RESP", "ERROR"}, s = Append(fromDev, f), NEW i \in 1 .. Len(s)
          PROVE  (i \in 1 .. Len(fromDev) /\ s[i] = fromDev[i]) \/ s[i].type \in {"RESP", "ERROR"}
      <3>1. (i \in 1 .. Len(fromDev) /\ s[i] = fromDev[i]) \/ s[i] = f
        BY <1>1, <2>1, AppendElements
      <3>2. QED
        BY <2>1, <3>1
    <2>2. QED
      BY <2>1
  <1>4. \A i \in 1 .. Len(fromDev') : \/ i \in 1 .. Len(s) /\ fromDev'[i] = s[i]
                                      \/ i = Len(s) + 1 /\ fromDev'[i] = Data(taken + 1)
    OBVIOUS
  <1>5. \A i \in 1 .. Len(fromDev') :
          \/ i \in 1 .. Len(fromDev) /\ fromDev'[i] = fromDev[i]
          \/ fromDev'[i].type \in {"RESP", "ERROR"}
          \/ i = Len(s) + 1 /\ fromDev'[i].type = "DATA" /\ fromDev'[i].cap = taken + 1
    BY <1>2, <1>3, <1>4
  <1>6. taken' <= MaxCaptures /\ spooled' \subseteq 1 .. taken' /\ taken + 1 \notin spooled'
    BY <1>1 DEF DeviceFresh
  <1>7. ASSUME NEW i \in 1 .. Len(fromDev')
        PROVE  /\ fromDev'[i].type \in {"RESP", "ERROR", "DATA"}
               /\ fromDev'[i].type = "DATA" => fromDev'[i].cap \in (1 .. taken') \ spooled'
    BY <1>1, <1>5, <1>6 DEF DeviceFresh
  <1>8. ASSUME NEW i \in 1 .. Len(fromDev'), NEW j \in 1 .. Len(fromDev'), i # j,
               fromDev'[i].type = "DATA", fromDev'[j].type = "DATA"
        PROVE  fromDev'[i].cap # fromDev'[j].cap
    <2>1. \A n \in 1 .. Len(fromDev) : fromDev[n].type = "DATA" => fromDev[n].cap # taken + 1
      BY <1>1 DEF DeviceFresh
    <2>2. /\ \/ i \in 1 .. Len(fromDev) /\ fromDev'[i] = fromDev[i]
             \/ i = Len(s) + 1 /\ fromDev'[i].cap = taken + 1
          /\ \/ j \in 1 .. Len(fromDev) /\ fromDev'[j] = fromDev[j]
             \/ j = Len(s) + 1 /\ fromDev'[j].cap = taken + 1
      BY <1>5, <1>8
    <2>3. QED
      BY <1>8, <2>1, <2>2 DEF DeviceFresh
  <1>9. QED
    BY <1>6, <1>7, <1>8 DEF DeviceFresh

\* The device numbers its captures and answers its commands.
LEMMA DevicePath ==
    ASSUME PathInv, Device
    PROVE  PathRest'
  <1>1. UNCHANGED <<spooled, pending, batch, toCore, cpc, cpend>>
    BY DEF Device, Answer, PeriodicFrame, ScheduleEnds, spoolVars, mainVars, wireVars, clientVars
  <1>2. fromDev \in Seq(Frames)
    BY DEF DeviceTypes
  <1>3. CASE Answer
    <2>1. Head(toDev) \in Commands
      BY <1>3, SeqTypes DEF Answer, DeviceTypes
    <2>2. /\ Resp(Head(toDev)) \in Frames
          /\ Resp(Head(toDev)).type = "RESP" /\ Err(Head(toDev)).type = "ERROR"
      BY <2>1, MadeFrames DEF Resp, Err
    <2>3. CASE /\ fromDev' \in {Append(fromDev, Resp(Head(toDev))), Append(fromDev, Err(Head(toDev)))}
               /\ UNCHANGED taken
      <3>1. PICK f \in {Resp(Head(toDev)), Err(Head(toDev))} : fromDev' = Append(fromDev, f)
        BY <2>3
      <3>2. f.type \in {"RESP", "ERROR"}
        BY <2>2
      <3>3. QED
        BY <1>1, <2>3, <3>1, <3>2, AnswerFresh, PathUntouched
    <2>4. CASE /\ fromDev' = fromDev \o <<Resp(Head(toDev)), Data(taken + 1)>>
               /\ taken < MaxCaptures /\ taken' = taken + 1
      <3> DEFINE r == Resp(Head(toDev))
                 s == Append(fromDev, r)
      <3>1. r.type \in {"RESP", "ERROR"} /\ r \in Frames
        BY <2>2
      <3> HIDE DEF r
      <3>2. s \in Seq(Frames) /\ fromDev' = Append(s, Data(taken + 1))
        BY <1>2, <2>4, <3>1 DEF r
      <3>3. s = fromDev \/ \E f : f.type \in {"RESP", "ERROR"} /\ s = Append(fromDev, f)
        BY <3>1
      <3> HIDE DEF s
      <3>4. QED
        BY <1>1, <2>4, <3>2, <3>3, CaptureFresh, PathUntouched
    <2>5. QED
      BY <1>3, <2>3, <2>4 DEF Answer
  <1>4. CASE PeriodicFrame
    <2>1. DeviceFresh'
      BY <1>1, <1>2, <1>4, CaptureFresh DEF PeriodicFrame
    <2>2. QED
      BY <1>1, <2>1, PathUntouched
  <1>5. CASE ScheduleEnds
    BY <1>1, <1>5, PathUntouched DEF ScheduleEnds
  <1>6. QED
    BY <1>3, <1>4, <1>5 DEF Device

-----------------------------------------------------------------------------
(* Core. *)

\* The steps of a client that neither accept a delivery nor read a frame.
LEMMA ClientPath ==
    ASSUME PathInv, NEW k \in Slots,
           \/ Accept(k) \/ Publish(k) \/ Commit(k) \/ SendReceipt(k) \/ Orphaned(k)
           \/ ClientEof(k) \/ ClientTimeout(k)
           \/ \E c : Send(k, c)
    PROVE  PathRest'
  <1>1. UNCHANGED <<taken, fromDev, spooled, pending, batch, toCore>>
    BY
       DEF Accept, Publish, Commit, SendReceipt, Orphaned, ClientEof, ClientTimeout, Send,
           Decide, RefuseReplay, LoseClient, CloseSlot, devVars, spoolVars, mainVars, wireVars
  <1>2. ClientSpooled'
    <2>1. CASE Accept(k) \/ SendReceipt(k) \/ \E c : Send(k, c)
      BY <1>1, <2>1, ClientsKept DEF Accept, SendReceipt, Send, ClientTypes
    <2>2. CASE Publish(k)
      BY <1>1, <2>2, ClientsKept DEF Publish
    <2>3. CASE Commit(k)
      <3>1. CASE Decide(k)
        BY <1>1, <3>1, ClientsKept DEF Decide, ClientTypes
      <3>2. CASE RefuseReplay(k)
        BY <1>1, <3>2, ClosedKept DEF RefuseReplay
      <3>3. QED
        BY <2>3, <3>1, <3>2 DEF Commit
    <2>4. CASE Orphaned(k) \/ ClientEof(k) \/ ClientTimeout(k)
      BY <1>1, <2>4, ClosedKept DEF Orphaned, ClientEof, ClientTimeout, LoseClient
    <2>5. QED
      BY <2>1, <2>2, <2>3, <2>4
  <1>3. QED
    BY <1>1, <1>2, PathUntouched

\* The steps that read a response.
LEMMA ResponsePath ==
    ASSUME PathInv, NEW k \in Slots, HelloDone(k) \/ CapsDone(k) \/ Replied(k) \/ Confirmed(k)
    PROVE  PathRest'
  <1>1. UNCHANGED <<taken, fromDev, spooled, pending, batch>>
    BY DEF HelloDone, CapsDone, Replied, Confirmed, devVars, spoolVars, mainVars
  <1>2. PICK inStep, pc : Receive(k, inStep, pc) /\ pc # "accepted"
    <2>1. CASE Confirmed(k)
      <3>1. cret[k] # "accepted"
        BY DEF ClientTypes, ReturnPcs
      <3>2. QED
        BY <2>1, <3>1 DEF Confirmed
    <2>2. CASE HelloDone(k) \/ CapsDone(k)
      BY <2>2 DEF HelloDone, CapsDone
    <2>3. CASE Replied(k)
      <3> DEFINE pc == IF Head(toCore[k]).type = "RESP" /\ ccmd[k] = "ONCE"
                       THEN "awaitCap" ELSE "idle"
      <3>1. pc # "accepted"
        OBVIOUS
      <3>2. Receive(k, Head(toCore[k]) \in {Resp(ccmd[k]), Err(ccmd[k])}, pc)
        BY <2>3 DEF Replied
      <3>3. QED
        BY <3>1, <3>2
    <2>4. QED
      BY <2>1, <2>2, <2>3
  <1>3. toCore[k] # <<>> /\ \A j \in Slots \ {k} : cpend'[j] = cpend[j]
    BY DEF HelloDone, CapsDone, Replied, Confirmed, Answered, ClientTypes
  <1>4. StreamSpooled'
    BY <1>1, <1>2, <1>3, ReadFromBridge DEF Receive
  <1>5. ClientSpooled'
    BY <1>1, <1>2, <1>3, ReceiveKeeps
  <1>6. QED
    BY <1>1, <1>4, <1>5, PathUntouched

\* A client accepts only deliveries, and those are of spooled captures.
LEMMA AcceptDeliveryPath ==
    ASSUME PathInv, NEW k \in Slots, AcceptDelivery(k)
    PROVE  PathRest'
  <1>1. UNCHANGED <<taken, fromDev, spooled, pending, batch>> /\ toCore[k] # <<>>
    BY DEF AcceptDelivery, devVars, spoolVars, mainVars
  <1> DEFINE f == Head(toCore[k])
             inStep == f.type = "DELIVERY" /\ cpend[k] = NoRecord
  <1>2. Receive(k, inStep, "accepted")
    BY DEF AcceptDelivery
  <1>3. StreamSpooled'
    BY <1>1, <1>2, ReadFromBridge DEF Receive
  <1>4. toCore[k] \in Seq(Frames) /\ f = toCore[k][1] /\ 1 \in 1 .. Len(toCore[k])
    BY <1>1 DEF WireTypes
  <1>5. f.type = "DELIVERY" => f.cap \in spooled
    BY <1>4 DEF StreamSpooled
  <1>6. cpend' = [cpend EXCEPT ![k] = [rec |-> f.rec, cap |-> f.cap]]
    BY DEF AcceptDelivery
  <1> HIDE DEF f
  <1>7. ClientSpooled'
    <2> SUFFICES ASSUME NEW j \in Slots, cpc'[j] = "accepted"
                 PROVE  cpend'[j].cap \in spooled
      BY <1>1 DEF ClientSpooled
    <2>1. CASE j = k
      <3>1. inStep
        BY <1>2, <2>1 DEF Receive, ClientTypes
      <3>2. cpend'[j].cap = f.cap
        BY <1>6, <2>1 DEF ClientTypes
      <3>3. QED
        BY <1>5, <3>1, <3>2
    <2>2. CASE j # k
      BY <1>2, <1>6, <2>2 DEF Receive, ClientTypes, ClientSpooled
    <2>3. QED
      BY <2>1, <2>2
  <1>8. QED
    BY <1>1, <1>3, <1>7, PathUntouched

\* A delivery that is declined was spooled, and stays so.
LEMMA DeclinePath ==
    ASSUME PathInv, NEW k \in Slots, Decline(k)
    PROVE  PathRest'
  <1>1. UNCHANGED <<taken, fromDev, spooled, pending, batch>> /\ toCore[k] # <<>>
    BY DEF Decline, devVars, spoolVars, mainVars
  <1>2. Receive(k, TRUE, "declined")
    BY DEF Decline
  <1>3. StreamSpooled'
    BY <1>1, <1>2, ReadFromBridge DEF Receive
  <1>4. ClientSpooled'
    <2> SUFFICES ASSUME NEW j \in Slots, cpc'[j] = "accepted"
                 PROVE  cpend'[j].cap \in spooled
      BY <1>1 DEF ClientSpooled
    <2>1. j # k /\ cpc[j] = "accepted"
      BY <1>2 DEF Receive, ClientTypes
    <2>2. cpend'[j] = cpend[j]
      BY <2>1 DEF Decline, ClientTypes
    <2>3. QED
      BY <2>1, <2>2 DEF ClientSpooled
  <1>5. QED
    BY <1>1, <1>3, <1>4, PathUntouched

\* A broken link or a crash of the core loses frames and clients only; keeping
\* the books touches neither.
LEMMA CoreFaultPath ==
    ASSUME PathInv, CoreCrash \/ Bookkeeping \/ \E k \in Slots : LinkBreak(k)
    PROVE  PathRest'
  <1>1. UNCHANGED <<taken, fromDev, spooled, pending, batch>>
    BY
       DEF CoreCrash, Bookkeeping, Register, RunFails, SessionFails, StartCleanup, LinkBreak,
           devVars,
           spoolVars, mainVars
  <1>2. CASE CoreCrash
    <2>1. ClientSpooled'
      BY <1>1, <1>2, ClientsKept DEF CoreCrash
    <2>2. QED
      BY <1>1, <1>2, <2>1, PathUntouched DEF CoreCrash
  <1>3. CASE Bookkeeping
    BY <1>1, <1>3, PathUntouched
       DEF Bookkeeping, Register, RunFails, SessionFails, StartCleanup, wireVars, clientVars
  <1>4. ASSUME NEW k \in Slots, LinkBreak(k)
        PROVE  PathRest'
    <2>1. StreamSpooled'
      BY <1>1, <1>4, StreamDropped DEF LinkBreak
    <2>2. QED
      BY <1>1, <1>4, <2>1, PathUntouched DEF LinkBreak, clientVars
  <1>5. QED
    BY <1>2, <1>3, <1>4

-----------------------------------------------------------------------------
\* The invariant of the capture path: receipts are backed and nothing is lost;
\* beyond that a capture is fresh until it is spooled, and everything under way
\* to the core was spooled.
THEOREM PathInvariant == Spec => []PathInv
  <1>1. Init => PathRest
    BY DeliveryConstants DEF Init, DeviceFresh, BatchSpooled, StreamSpooled, ClientSpooled, CapsOf
  <1>2. DeliveryInv /\ PathRest /\ [Next]_vars => PathRest'
    <2> SUFFICES ASSUME PathInv, [Next]_vars PROVE PathRest'
      OBVIOUS
    <2>1. CASE UNCHANGED vars
      BY <2>1, PathUntouched DEF vars, devVars, spoolVars, mainVars, wireVars, clientVars
    <2>2. ASSUME NEW k \in Slots, Open(k) PROVE PathRest'
      BY <2>2, OpenPath
    <2>3. CASE Bridge
      BY <2>3, ForwardPath, StorePath, ReplayPath, DeliverPath, WakePath, EndPath DEF Bridge
    <2>4. CASE Reader \/ \E z \in zombies : ZombieMark(z)
      BY <2>4, ReaderPath
    <2>5. CASE Device
      BY <2>5, DevicePath
    <2>6. ASSUME NEW k \in Slots, Client(k) \/ Request(k)
          PROVE  PathRest'
      BY <2>6, RequestSends, ClientPath, ResponsePath, AcceptDeliveryPath, DeclinePath DEF Client
    <2>7. CASE Faults
      BY <2>7, EndPath, CoreFaultPath, ClientPath DEF Faults
    <2>8. CASE Bookkeeping
      BY <2>8, CoreFaultPath
    <2>9. QED
      BY <2>1, <2>2, <2>3, <2>4, <2>5, <2>6, <2>7, <2>8 DEF Next
  <1>3. DeliveryInv /\ PathRest <=> PathInv
    OBVIOUS
  <1>4. QED
    BY <1>1, <1>2, <1>3, DeliveryInvariant, PTL DEF Spec

-----------------------------------------------------------------------------
(* Steps of the path as steps of the promise. *)

\* Only captures the device may take are spooled.
LEMMA SpooledAreCaptures ==
    ASSUME PathInv
    PROVE  spooled \subseteq Captures
  <1>1. taken \in Nat /\ MaxCaptures \in Nat /\ taken <= MaxCaptures /\ spooled \subseteq 1 .. taken
    BY DeliveryConstants DEF DeviceFresh, DeviceTypes
  <1>2. \A c \in 1 .. taken : c \in 1 .. MaxCaptures
    BY <1>1
  <1>3. QED
    BY <1>1, <1>2 DEF Captures

\* Storing a capture is Spool.
LEMMA StoreSpools ==
    ASSUME PathInv, Store
    PROVE  \E c \in Captures : Promise!Spool(c)
  <1> DEFINE c == Head(fromDev).cap
             new == [rec |-> lastRec + 1, cap |-> c]
  <1>1. /\ c \in Captures \ spooled /\ spooled' = spooled \cup {c}
        /\ pending' = pending \cup {new} /\ new.cap = c
    BY StoreIsFresh
  <1>2. UNCHANGED resolved
    BY DEF Store, storeVars
  <1> HIDE DEF c, new
  <1>3. CapsOf(pending)' = CapsOf(pending) \cup {c}
    BY <1>1 DEF CapsOf
  <1>4. UNCHANGED (spooled \ CapsOf(pending))
    BY <1>1, <1>3
  <1>5. QED
    BY <1>1, <1>2, <1>4 DEF Promise!Spool

\* Committing a delivery is Resolve, the first time.
LEMMA CommitResolves ==
    ASSUME PathInv, NEW k \in Slots, Commit(k)
    PROVE  (\E c \in Captures : Promise!Resolve(c)) \/ UNCHANGED Promise!vars
  <1>1. UNCHANGED <<spooled, pending>>
    BY DEF Commit, spoolVars
  <1>2. CASE UNCHANGED resolved
    BY <1>1, <1>2 DEF Promise!vars, CapsOf
  <1>3. CASE Decide(k) /\ ~ UNCHANGED resolved
    <2>1. cpend[k].cap \in spooled /\ resolved' = resolved \cup {cpend[k].cap}
      BY <1>3 DEF Commit, Decide, ClientSpooled
    <2>2. cpend[k].cap \in Captures \ resolved
      BY <1>3, <2>1, SpooledAreCaptures
    <2>3. UNCHANGED (spooled \ CapsOf(pending))
      BY <1>1 DEF CapsOf
    <2>4. QED
      BY <1>1, <2>1, <2>2, <2>3 DEF Promise!Resolve
  <1>4. QED
    BY <1>2, <1>3 DEF Commit, RefuseReplay, storeVars

\* Deleting a record is Forget, unless its capture is pending under another
\* record: the receipt is backed, so the capture is resolved.
LEMMA MarkForgets ==
    ASSUME PathInv, NEW r, r.cap \in resolved, UNCHANGED resolved,
           MarkCommitted(r) \/ UNCHANGED spoolVars
    PROVE  (\E c \in Captures : Promise!Forget(c)) \/ UNCHANGED Promise!vars
  <1>1. UNCHANGED spooled
    BY MarkShrinks
  <1>2. CASE CapsOf(pending)' = CapsOf(pending)
    BY <1>1, <1>2 DEF Promise!vars
  <1>3. CASE CapsOf(pending)' # CapsOf(pending)
    <2>1. r \in pending /\ pending' = pending \ {r}
      BY <1>3, MarkShrinks DEF CapsOf
    <2>2. CapsOf(pending) = CapsOf(pending)' \cup {r.cap}
      BY <2>1 DEF CapsOf
    <2>3. r.cap \in spooled /\ r.cap \in CapsOf(pending) /\ r.cap \notin CapsOf(pending)'
      BY <1>3, <2>2 DEF BatchSpooled
    <2>4. r.cap \in Captures
      BY <2>3, SpooledAreCaptures
    <2>5. /\ r.cap \notin spooled \ CapsOf(pending)
          /\ (spooled \ CapsOf(pending))' = (spooled \ CapsOf(pending)) \cup {r.cap}
      BY <1>1, <2>2, <2>3
    <2>6. Promise!Forget(r.cap)
      BY <1>1, <2>5 DEF Promise!Forget
    <2>7. QED
      BY <2>4, <2>6
  <1>4. QED
    BY <1>2, <1>3

\* Every other step leaves what the promise speaks of alone.
LEMMA OtherwiseStutters ==
    ASSUME UNCHANGED <<spooled, pending, resolved>>
    PROVE  UNCHANGED Promise!vars
  BY DEF Promise!vars, CapsOf

\* A step of the path is a step of the promise or changes nothing of it.
LEMMA StepKeepsPromise ==
    ASSUME PathInv, [Next]_vars
    PROVE  [Promise!Next]_(Promise!vars)
  <1>1. CASE Store
    BY <1>1, StoreSpools DEF Promise!Next
  <1>2. ASSUME NEW k \in Slots, Commit(k) PROVE [Promise!Next]_(Promise!vars)
    BY <1>2, CommitResolves DEF Promise!Next
  <1>3. CASE Mark
    <2>1. receipt.cap \in resolved /\ UNCHANGED resolved
      BY <1>3 DEF Mark, ReceiptsAreBacked, ReaderBacked, storeVars
    <2>2. MarkCommitted(receipt) \/ UNCHANGED spoolVars
      BY <1>3 DEF Mark
    <2>3. QED
      BY <2>1, <2>2, MarkForgets DEF Promise!Next
  <1>4. ASSUME NEW z \in zombies, ZombieMark(z) PROVE [Promise!Next]_(Promise!vars)
    <2>1. z.cap \in resolved /\ UNCHANGED resolved
      BY <1>4 DEF ZombieMark, ReceiptsAreBacked, ReaderBacked, storeVars
    <2>2. MarkCommitted(z) \/ UNCHANGED spoolVars
      BY <1>4 DEF ZombieMark
    <2>3. QED
      BY <2>1, <2>2, MarkForgets DEF Promise!Next
  <1>5. CASE UNCHANGED <<spooled, pending, resolved>>
    BY <1>5, OtherwiseStutters
  <1>6. CASE UNCHANGED vars
    BY <1>5, <1>6 DEF vars, spoolVars, storeVars
  <1>7. ASSUME NEW k \in Slots, Open(k) PROVE UNCHANGED <<spooled, pending, resolved>>
    BY <1>7 DEF Open, spoolVars, storeVars
  <1>8. CASE Forward \/ Replay \/ Deliver \/ Wake
    BY <1>5, <1>8 DEF Forward, Replay, Deliver, Wake, spoolVars, storeVars
  <1>9. CASE CommitTimeout \/ Stopped \/ SerialLost \/ BridgeCrash
    BY <1>5, <1>9
       DEF CommitTimeout, Stopped, SerialLost, BridgeCrash, EndSession, spoolVars, storeVars
  <1>10. CASE Read \/ ReadEof \/ Respond \/ Signal
    BY <1>5, <1>10 DEF Read, ReadEof, Respond, Signal, spoolVars, storeVars
  <1>11. CASE Device
    BY <1>5, <1>11 DEF Device, Answer, PeriodicFrame, ScheduleEnds, spoolVars, storeVars
  <1>12. ASSUME NEW k \in Slots,
                \/ Accept(k) \/ HelloDone(k) \/ CapsDone(k) \/ Publish(k) \/ Replied(k)
                \/ AcceptDelivery(k) \/ Decline(k) \/ SendReceipt(k) \/ Orphaned(k)
                \/ Confirmed(k)
         PROVE  UNCHANGED <<spooled, pending, resolved>>
    BY <1>12 DEF Accept, HelloDone, CapsDone, Publish, Replied, AcceptDelivery, Decline,
                 SendReceipt, Orphaned, Confirmed, spoolVars, storeVars
  <1>13. ASSUME NEW k \in Slots, ClientEof(k) \/ ClientTimeout(k) \/ LinkBreak(k)
         PROVE  UNCHANGED <<spooled, pending, resolved>>
    BY <1>13 DEF ClientEof, ClientTimeout, LoseClient, LinkBreak, spoolVars, storeVars
  <1>14. ASSUME NEW k \in Slots, Request(k)
         PROVE  UNCHANGED <<spooled, pending, resolved>>
    BY <1>14 DEF Request, SendRun, Command, Send, spoolVars
  <1>15. CASE Bookkeeping \/ CoreCrash
    BY <1>5, <1>15
       DEF Bookkeeping, Register, RunFails, SessionFails, StartCleanup, CoreCrash, spoolVars,
                       storeVars
  <1>16. CASE Bridge
    BY <1>1, <1>8, <1>9, <1>16 DEF Bridge
  <1>17. CASE Reader
    BY <1>3, <1>10, <1>17 DEF Reader
  <1>18. CASE \E k \in Slots : Client(k)
    BY <1>2, <1>5, <1>12, <1>13, <1>18 DEF Client
  <1>19. CASE Faults
    BY <1>5, <1>9, <1>13, <1>15, <1>19 DEF Faults
  <1>20. QED
    BY <1>4, <1>5, <1>6, <1>7, <1>11, <1>14, <1>15, <1>16, <1>17, <1>18, <1>19 DEF Next

\* The capture path implements DurableDelivery: whatever crashes, breaks or is
\* replayed, each capture is spooled once, resolved only after that, and
\* forgotten by the bridge only when the core has resolved it.
THEOREM PathKeepsPromise == Spec => ImplementsPromise
  <1>1. Init => Promise!Init
    BY DEF Init, Promise!Init, CapsOf
  <1>2. PathInv /\ [Next]_vars => [Promise!Next]_(Promise!vars)
    BY StepKeepsPromise
  <1>3. QED
    BY <1>1, <1>2, PathInvariant, PTL DEF Spec, ImplementsPromise, Promise!Spec

-----------------------------------------------------------------------------
(***************************************************************************)
(* The frames of a session stay in step, for every number of captures,      *)
(* connections and faults and every limit of the bridge: no client of the   *)
(* core reads a frame it does not wait for, the reader thread of the bridge *)
(* meets no protocol violation, and a client is published only when the     *)
(* spool was drained.                                                       *)
(***************************************************************************)

-----------------------------------------------------------------------------
(* Streams as sets of frames. *)

\* An empty stream carries nothing, any other its first frame.
LEMMA TransitEmpty ==
    ASSUME NEW S, NEW s \in Seq(S)
    PROVE  /\ InTransit(s) \subseteq S
           /\ s = <<>> => InTransit(s) = {}
           /\ s # <<>> => Head(s) \in InTransit(s)
           /\ InTransit(s) = {} => s = <<>>
  <1>1. InTransit(s) \subseteq S
    BY DEF InTransit
  <1>2. s = <<>> => InTransit(s) = {}
    BY DEF InTransit
  <1>3. s # <<>> => Head(s) \in InTransit(s)
    <2>1. s # <<>> => Head(s) = s[1] /\ 1 \in 1 .. Len(s)
      OBVIOUS
    <2>2. QED
      BY <2>1 DEF InTransit
  <1>4. QED
    BY <1>1, <1>2, <1>3

\* Writing adds one frame.
LEMMA TransitAppend ==
    ASSUME NEW S, NEW s \in Seq(S), NEW e \in S
    PROVE  InTransit(Append(s, e)) = InTransit(s) \cup {e}
  <1>1. /\ Append(s, e) \in Seq(S) /\ Len(Append(s, e)) = Len(s) + 1 /\ Len(s) \in Nat
        /\ Append(s, e)[Len(s) + 1] = e /\ \A i \in 1 .. Len(s) : Append(s, e)[i] = s[i]
    OBVIOUS
  <1>2. \A i \in 1 .. Len(s) + 1 : i \in 1 .. Len(s) \/ i = Len(s) + 1
    BY <1>1
  <1>3. \A i \in 1 .. Len(s) : i \in 1 .. Len(s) + 1
    BY <1>1
  <1>4. Len(s) + 1 \in 1 .. Len(s) + 1
    BY <1>1
  <1>5. QED
    BY <1>1, <1>2, <1>3, <1>4 DEF InTransit

\* Reading takes the first one.
LEMMA TransitTail ==
    ASSUME NEW S, NEW s \in Seq(S), s # <<>>
    PROVE  InTransit(s) = {Head(s)} \cup InTransit(Tail(s))
  <1>1. /\ Tail(s) \in Seq(S) /\ Len(Tail(s)) = Len(s) - 1 /\ Len(s) \in Nat \ {0}
        /\ Head(s) = s[1] /\ \A i \in 1 .. Len(Tail(s)) : Tail(s)[i] = s[i + 1]
    OBVIOUS
  <1>2. \A i \in 1 .. Len(s) : i = 1 \/ (i - 1 \in 1 .. Len(Tail(s)) /\ (i - 1) + 1 = i)
    BY <1>1
  <1>3. \A i \in 1 .. Len(Tail(s)) : i + 1 \in 1 .. Len(s)
    BY <1>1
  <1>4. 1 \in 1 .. Len(s)
    BY <1>1
  <1>5. InTransit(s) \subseteq {Head(s)} \cup InTransit(Tail(s))
    BY <1>1, <1>2 DEF InTransit
  <1>6. QED
    BY <1>1, <1>3, <1>4, <1>5 DEF InTransit

\* A frame behind all others keeps the order.
LEMMA OrderedAppend ==
    ASSUME NEW S, NEW s \in Seq(S), NEW e \in S, Ordered(s),
           \A f \in InTransit(s) : Rank(f) < Rank(e)
    PROVE  Ordered(Append(s, e))
  <1>1. /\ Len(Append(s, e)) = Len(s) + 1 /\ Len(s) \in Nat
        /\ Append(s, e)[Len(s) + 1] = e /\ \A i \in 1 .. Len(s) : Append(s, e)[i] = s[i]
    OBVIOUS
  <1>2. \A i \in 1 .. Len(s) : Rank(s[i]) < Rank(e)
    BY DEF InTransit
  <1> HIDE DEF Rank
  <1>3. ASSUME NEW i \in 1 .. Len(s) + 1, NEW j \in 1 .. Len(s) + 1, i < j
        PROVE  Rank(Append(s, e)[i]) < Rank(Append(s, e)[j])
    <2>1. i \in 1 .. Len(s) /\ (j \in 1 .. Len(s) \/ j = Len(s) + 1)
      BY <1>1, <1>3
    <2>2. QED
      BY <1>1, <1>2, <1>3, <2>1 DEF Ordered
  <1>4. QED
    BY <1>1, <1>3 DEF Ordered

\* Reading keeps the order, and what follows comes after what was read.
LEMMA OrderedTail ==
    ASSUME NEW S, NEW s \in Seq(S), s # <<>>, Ordered(s)
    PROVE  Ordered(Tail(s)) /\ \A f \in InTransit(Tail(s)) : Rank(Head(s)) < Rank(f)
  <1>1. /\ Tail(s) \in Seq(S) /\ Len(Tail(s)) = Len(s) - 1 /\ Len(s) \in Nat \ {0}
        /\ Head(s) = s[1] /\ \A i \in 1 .. Len(Tail(s)) : Tail(s)[i] = s[i + 1]
    OBVIOUS
  <1>2. \A i \in 1 .. Len(Tail(s)) : i + 1 \in 1 .. Len(s) /\ 1 < i + 1
    BY <1>1
  <1>3. 1 \in 1 .. Len(s)
    BY <1>1
  <1>4. \A i \in 1 .. Len(Tail(s)) : Rank(s[1]) < Rank(Tail(s)[i])
    BY <1>1, <1>2, <1>3 DEF Ordered
  <1>5. ASSUME NEW i \in 1 .. Len(Tail(s)), NEW j \in 1 .. Len(Tail(s)), i < j
        PROVE  Rank(Tail(s)[i]) < Rank(Tail(s)[j])
    <2>1. i + 1 < j + 1
      BY <1>5
    <2>2. QED
      BY <1>1, <1>2, <2>1 DEF Ordered
  <1>6. QED
    BY <1>1, <1>4, <1>5 DEF Ordered, InTransit

\* An empty stream is in order.
LEMMA OrderedEmpty == Ordered(<<>>)
  BY DEF Ordered

-----------------------------------------------------------------------------
(* The invariant and the variables its parts depend on. *)

\* The invariant beyond PathInv.
FrameRest ==
    /\ SessionIsOver /\ BridgeStream /\ \A k \in Slots : ClientInStep(k) /\ CoreStream(k)
    /\ OneCommand /\ CommandIsAwaited /\ DeviceAnswers /\ HelloFirst /\ ReplayFirst
    /\ DeliveryInStep /\ SpoolOrder /\ BatchOrder

\* Every part depends on some of the variables only.
LEMMA SessionUntouched ==
    /\ SessionIsOver /\ UNCHANGED <<mainVars, rpc, fwdVars, sched, toDev, fromDev>>
         => SessionIsOver'
    /\ BridgeStream /\ UNCHANGED <<bconn, toBridge>> => BridgeStream'
    /\ DeviceAnswers /\ UNCHANGED fromDev => DeviceAnswers'
    /\ SpoolOrder /\ UNCHANGED <<pending, tombs, lastRec, zombies>> => SpoolOrder'
    /\ BatchOrder /\ UNCHANGED <<batch, pending, tombs, zombies, rpc, signalled, bpc, forwarding>>
         => BatchOrder'
  <1>1. SessionIsOver /\ UNCHANGED <<mainVars, rpc, fwdVars, sched, toDev, fromDev>>
          => SessionIsOver'
    BY DEF SessionIsOver, mainVars, fwdVars
  <1>2. /\ BridgeStream /\ UNCHANGED <<bconn, toBridge>> => BridgeStream'
        /\ DeviceAnswers /\ UNCHANGED fromDev => DeviceAnswers'
    BY DEF BridgeStream, DeviceAnswers, InTransit, Ordered, Rank
  <1>3. SpoolOrder /\ UNCHANGED <<pending, tombs, lastRec, zombies>> => SpoolOrder'
    BY DEF SpoolOrder
  <1>4. BatchOrder /\ UNCHANGED <<batch, pending, tombs, zombies, rpc, signalled, bpc, forwarding>>
          => BatchOrder'
    BY DEF BatchOrder, InTransit
  <1>5. QED
    BY <1>1, <1>2, <1>3, <1>4

\* The parts that speak of a client.
LEMMA ClientUntouched ==
    ASSUME NEW k \in Slots
    PROVE  /\ ClientInStep(k)
               /\ cpc'[k] = cpc[k] /\ ccmd'[k] = ccmd[k] /\ cret'[k] = cret[k] /\ cpend'[k] = cpend[k]
             => ClientInStep(k)'
           /\ CoreStream(k) /\ toCore'[k] = toCore[k]
               /\ cpc'[k] = cpc[k] /\ ccmd'[k] = ccmd[k] /\ cret'[k] = cret[k] /\ cpend'[k] = cpend[k]
             => CoreStream(k)'
  <1>1. ClientInStep(k)
          /\ cpc'[k] = cpc[k] /\ ccmd'[k] = ccmd[k] /\ cret'[k] = cret[k] /\ cpend'[k] = cpend[k]
        => ClientInStep(k)'
    BY DEF ClientInStep, Stage
  <1>2. CoreStream(k) /\ toCore'[k] = toCore[k]
          /\ cpc'[k] = cpc[k] /\ ccmd'[k] = ccmd[k] /\ cret'[k] = cret[k] /\ cpend'[k] = cpend[k]
        => CoreStream(k)'
    BY DEF CoreStream, Stage, Awaiting, InTransit, Ordered, Rank
  <1>3. QED
    BY <1>1, <1>2

\* The parts that speak of the command under way.
LEMMA CommandUntouched ==
    /\ OneCommand /\ UNCHANGED <<deferred, toDev, fromDev, bconn, toBridge, toCore>> => OneCommand'
    /\ UNCHANGED <<deferred, toDev, fromDev, bconn, toBridge>> => UNCHANGED Underway
    /\ CommandIsAwaited /\ UNCHANGED <<bconn, cpc, cret, ccmd, Underway>> => CommandIsAwaited'
    /\ HelloFirst /\ UNCHANGED <<forwarding, replaying, Underway, bconn, cpc, deferred, sched,
                                 toDev, fromDev>> => HelloFirst'
    /\ ReplayFirst /\ UNCHANGED <<bconn, cpc, cret, sched, fromDev, forwarding, bpc, toCore>>
         => ReplayFirst'
    /\ DeliveryInStep /\ UNCHANGED <<rpc, inflight, signalled, bpc, batch, receipt, bconn, toBridge,
                                     toCore, cpc, cpend, broken>> => DeliveryInStep'
  <1>1. OneCommand /\ UNCHANGED <<deferred, toDev, fromDev, bconn, toBridge, toCore>> => OneCommand'
    BY DEF OneCommand, AtBridge, AtPort, AtCore, InTransit
  <1>2. UNCHANGED <<deferred, toDev, fromDev, bconn, toBridge>> => UNCHANGED Underway
    BY DEF Underway, InTransit
  <1>3. CommandIsAwaited /\ UNCHANGED <<bconn, cpc, cret, ccmd, Underway>> => CommandIsAwaited'
    BY DEF CommandIsAwaited, Awaiting, Stage
  <1>4. HelloFirst /\ UNCHANGED <<forwarding, replaying, Underway, bconn, cpc, deferred, sched,
                                 toDev, fromDev>> => HelloFirst'
    BY DEF HelloFirst, InTransit, Resp
  <1>5. ReplayFirst /\ UNCHANGED <<bconn, cpc, cret, sched, fromDev, forwarding, bpc, toCore>>
          => ReplayFirst'
    BY DEF ReplayFirst, Starting, Stage, InTransit, Resp
  <1>6. DeliveryInStep /\ UNCHANGED <<rpc, inflight, signalled, bpc, batch, receipt, bconn, toBridge,
                                     toCore, cpc, cpend, broken>> => DeliveryInStep'
    BY
       DEF DeliveryInStep, ReaderBusy, Unconfirmed, ReceiptUnderway, InTransit, Up, Receipt,
           Delivery
  <1>7. QED
    BY <1>1, <1>2, <1>3, <1>4, <1>5, <1>6

\* The parts of the invariant.
USE DEF FrameInv, FrameRest, PathInv, DeliveryInv, TypeOK, bridgeVars

\* How much of the rest of the invariant a step of the core leaves alone.
LEMMA CoreSideOnly ==
    ASSUME FrameInv, UNCHANGED <<devVars, spoolVars, bridgeVars>>
    PROVE  SessionIsOver' /\ DeviceAnswers' /\ SpoolOrder' /\ BatchOrder'
  BY SessionUntouched DEF devVars, spoolVars, mainVars, readerVars, eventVars, fwdVars

-----------------------------------------------------------------------------
(* Clients that go away. *)

\* Clients may be closed, with what is under way to the bridge, and a ready one
\* published: what is left stays in step.
LEMMA ClientsGo ==
    ASSUME FrameInv, UNCHANGED <<devVars, spoolVars, bridgeVars, toCore, broken, ccmd, cret>>,
           \A j \in Slots :
             \/ /\ cpc'[j] = cpc[j] \/ (cpc[j] = "ready" /\ cpc'[j] = "idle")
                /\ cpend'[j] = cpend[j] /\ toBridge'[j] = toBridge[j]
             \/ /\ cpc'[j] = "free" /\ cpend'[j] = NoRecord
                /\ toBridge'[j] = toBridge[j] \/ toBridge'[j] = <<>>
    PROVE  FrameRest'
  <1>1. /\ UNCHANGED <<sched, toDev, fromDev, bpc, bconn, batch, replaying, rpc, receipt>>
        /\ UNCHANGED <<inflight, signalled, forwarding, deferred, toCore, broken, ccmd, cret>>
        /\ bconn \in Slots \cup {0} /\ toBridge \in [Slots -> Seq(Frames)]
        /\ toCore \in [Slots -> Seq(Frames)]
    BY DEF devVars, mainVars, readerVars, eventVars, fwdVars, MainTypes, WireTypes
  <1>2. SessionIsOver' /\ DeviceAnswers' /\ SpoolOrder' /\ BatchOrder'
    BY CoreSideOnly
  <1>3. \A j \in Slots : /\ InTransit(toBridge'[j]) \subseteq InTransit(toBridge[j])
                         /\ Ordered(toBridge[j]) => Ordered(toBridge'[j])
    <2>1. InTransit(<<>>) = {}
      BY DEF InTransit
    <2>2. QED
      BY <2>1, OrderedEmpty
  <1>4. BridgeStream'
    BY <1>1, <1>3 DEF BridgeStream
  <1>5. ASSUME NEW k \in Slots
        PROVE  ClientInStep(k)' /\ CoreStream(k)'
    <2>1. ClientInStep(k) /\ CoreStream(k)
      OBVIOUS
    <2>2. ClientInStep(k)'
      BY <1>1, <2>1 DEF ClientInStep, Stage, Holding
    <2>3. CoreStream(k)'
      BY <1>1, <2>1 DEF CoreStream, Stage, Awaiting, Holding
    <2>4. QED
      BY <2>2, <2>3
  <1>6. OneCommand'
    BY <1>1, <1>3 DEF OneCommand, AtBridge, AtPort, AtCore
  <1>7. Underway' \subseteq Underway
    BY <1>1, <1>3 DEF Underway
  <1>8. CommandIsAwaited'
    BY <1>1, <1>7 DEF CommandIsAwaited, Stage, Awaiting, Holding
  <1>9. HelloFirst'
    BY <1>1, <1>7 DEF HelloFirst
  <1>10. ReplayFirst'
    BY <1>1 DEF ReplayFirst, Starting, Stage, Holding
  <1>11. DeliveryInStep'
    BY <1>1, <1>3 DEF DeliveryInStep, ReaderBusy, Unconfirmed, ReceiptUnderway, Up
  <1>12. QED
    BY <1>2, <1>4, <1>5, <1>6, <1>8, <1>9, <1>10, <1>11

\* A closed slot.
LEMMA CloseFrames ==
    ASSUME FrameInv, NEW k \in Slots, CloseSlot(k), UNCHANGED <<devVars, spoolVars, bridgeVars>>
    PROVE  FrameRest'
  <1>1. /\ cpc \in [Slots -> ClientPcs] /\ cpend \in [Slots -> AnyRecord]
        /\ toBridge \in [Slots -> Seq(Frames)]
    BY DEF ClientTypes, WireTypes
  <1>2. UNCHANGED <<toCore, broken, ccmd, cret>>
    BY DEF CloseSlot
  <1>3. \A j \in Slots :
          \/ cpc'[j] = cpc[j] /\ cpend'[j] = cpend[j] /\ toBridge'[j] = toBridge[j]
          \/ /\ cpc'[j] = "free" /\ cpend'[j] = NoRecord
             /\ toBridge'[j] = toBridge[j] \/ toBridge'[j] = <<>>
    BY <1>1 DEF CloseSlot
  <1>4. QED
    BY <1>2, <1>3, ClientsGo

\* A client is published: the older one is closed, with a delivery it declined.
LEMMA PublishFrames ==
    ASSUME FrameInv, NEW k \in Slots, Publish(k)
    PROVE  FrameRest'
  <1>1. UNCHANGED <<devVars, spoolVars, bridgeVars, toCore, toBridge, broken, ccmd, cret>>
    BY DEF Publish, wireVars
  <1>2. cpc[k] = "ready"
    BY DEF Publish
  <1>3. ASSUME NEW j \in Slots
        PROVE  \/ /\ cpc'[j] = cpc[j] \/ (cpc[j] = "ready" /\ cpc'[j] = "idle")
                  /\ cpend'[j] = cpend[j] /\ toBridge'[j] = toBridge[j]
               \/ /\ cpc'[j] = "free" /\ cpend'[j] = NoRecord
                  /\ toBridge'[j] = toBridge[j] \/ toBridge'[j] = <<>>
    BY <1>1, <1>2 DEF Publish
  <1>4. QED
    BY <1>1, <1>3, ClientsGo

\* Every way a client goes away.
LEMMA LossFrames ==
    ASSUME FrameInv,
           \/ CoreCrash
           \/ \E k \in Slots : \/ Orphaned(k) \/ ClientEof(k) \/ ClientTimeout(k)
                               \/ Commit(k) /\ RefuseReplay(k)
    PROVE  FrameRest'
  <1>1. CASE CoreCrash
    <2>1. UNCHANGED <<devVars, spoolVars, bridgeVars, toCore, broken, ccmd, cret>>
      BY <1>1 DEF CoreCrash
    <2>2. \A j \in Slots : /\ cpc'[j] = "free" /\ cpend'[j] = NoRecord
                           /\ toBridge'[j] = toBridge[j] \/ toBridge'[j] = <<>>
      BY <1>1 DEF CoreCrash
    <2>3. QED
      BY <2>1, <2>2, ClientsGo
  <1>2. ASSUME NEW k \in Slots,
               Orphaned(k) \/ ClientEof(k) \/ ClientTimeout(k) \/ (Commit(k) /\ RefuseReplay(k))
        PROVE  FrameRest'
    <2>1. CloseSlot(k) /\ UNCHANGED <<devVars, spoolVars, bridgeVars>>
      BY <1>2 DEF Orphaned, ClientEof, ClientTimeout, LoseClient, Commit, RefuseReplay
    <2>2. QED
      BY <2>1, CloseFrames
  <1>3. QED
    BY <1>1, <1>2

\* A broken link loses what is under way, or not.
LEMMA BreakFrames ==
    ASSUME FrameInv, NEW k \in Slots, LinkBreak(k)
    PROVE  FrameRest'
  <1>1. /\ UNCHANGED <<devVars, spoolVars, bridgeVars, clientVars>> /\ bconn = k
        /\ broken' = broken \cup {k} /\ bconn' = bconn
    BY DEF LinkBreak, Up, mainVars
  <1>2. UNCHANGED <<sched, toDev, fromDev, bpc, batch, replaying, rpc, receipt, inflight,
                    signalled, forwarding, deferred, cpc, ccmd, cret, cpend>>
    BY <1>1 DEF devVars, mainVars, readerVars, eventVars, fwdVars, clientVars
  <1>3. SessionIsOver' /\ DeviceAnswers' /\ SpoolOrder' /\ BatchOrder'
    BY <1>1, CoreSideOnly
  <1>4. \A j \in Slots : /\ toBridge'[j] = toBridge[j] \/ toBridge'[j] = <<>>
                         /\ toCore'[j] = toCore[j] \/ toCore'[j] = <<>>
    BY DEF LinkBreak, WireTypes
  <1>5. \A j \in Slots : /\ InTransit(toBridge'[j]) \subseteq InTransit(toBridge[j])
                         /\ InTransit(toCore'[j]) \subseteq InTransit(toCore[j])
                         /\ Ordered(toBridge[j]) => Ordered(toBridge'[j])
                         /\ Ordered(toCore[j]) => Ordered(toCore'[j])
    <2>1. InTransit(<<>>) = {}
      BY DEF InTransit
    <2>2. QED
      BY <1>4, <2>1, OrderedEmpty
  <1>6. BridgeStream'
    BY <1>1, <1>4, <1>5 DEF BridgeStream
  <1>7. ASSUME NEW j \in Slots
        PROVE  ClientInStep(j)' /\ CoreStream(j)'
    <2>1. ClientInStep(j) /\ CoreStream(j)
      OBVIOUS
    <2>2. ClientInStep(j)'
      BY <1>2, <2>1, ClientUntouched
    <2>3. CoreStream(j)'
      BY <1>2, <1>4, <1>5, <2>1 DEF CoreStream, Stage, Awaiting, Holding
    <2>4. QED
      BY <2>2, <2>3
  <1>8. OneCommand'
    BY <1>1, <1>2, <1>5 DEF OneCommand, AtBridge, AtPort, AtCore
  <1>9. Underway' \subseteq Underway
    BY <1>1, <1>2, <1>5 DEF Underway
  <1>10. CommandIsAwaited' /\ HelloFirst'
    BY <1>1, <1>2, <1>9 DEF CommandIsAwaited, HelloFirst, Stage, Awaiting, Holding
  <1>11. ReplayFirst'
    BY <1>1, <1>2, <1>5 DEF ReplayFirst, Starting, Stage, Holding
  <1>12. DeliveryInStep'
    BY <1>1, <1>2, <1>4, <1>5 DEF DeliveryInStep, ReaderBusy, Unconfirmed, ReceiptUnderway, Up
  <1>13. QED
    BY <1>3, <1>6, <1>7, <1>8, <1>10, <1>11, <1>12

-----------------------------------------------------------------------------
(* Commands of the core. *)

\* When no command is under way, all its places are empty.
LEMMA NothingUnderway ==
    ASSUME FrameInv
    PROVE  Underway = {} <=> deferred = <<>> /\ toDev = <<>> /\ ~AtPort /\ ~AtBridge
  <1>1. deferred \in Seq(Commands) /\ toDev \in Seq(Commands)
    BY DEF QueueTypes, DeviceTypes
  <1>2. (deferred = <<>> <=> InTransit(deferred) = {}) /\ (toDev = <<>> <=> InTransit(toDev) = {})
    BY <1>1, TransitEmpty
  <1>3. ~AtPort <=> {f.cmd : f \in {g \in InTransit(fromDev) : g.type # "DATA"}} = {}
    BY DEF AtPort
  <1>4. ~AtBridge <=> bconn = 0 \/ {f.cmd : f \in {g \in InTransit(toBridge[bconn]) : g.type = "CMD"}} = {}
    BY DEF AtBridge
  <1>5. QED
    BY <1>2, <1>3, <1>4 DEF Underway

\* The writing of a command to the stream of the bridge.
LEMMA CommandWritten ==
    ASSUME FrameInv, NEW k \in Slots, NEW c \in Commands, cpc[k] \notin Holding, cpc[k] # "free",
           k = bconn => Underway = {}, toBridge' = ToBridgeWith(k, Cmd(c)), UNCHANGED bconn
    PROVE  /\ BridgeStream'
           /\ \A j \in Slots : j # k => toBridge'[j] = toBridge[j]
           /\ bconn # k => toBridge'[k] = toBridge[k]
           /\ bconn = k => InTransit(toBridge'[k]) \subseteq {Cmd(c)}
  <1>1. toBridge \in [Slots -> Seq(Frames)] /\ Cmd(c) \in Frames /\ bconn \in Slots \cup {0}
    BY MadeFrames DEF WireTypes, MainTypes
  <1>2. CASE ~Up(k)
    <2>1. toBridge' = toBridge
      BY <1>2 DEF ToBridgeWith
    <2>2. bconn = k => InTransit(toBridge[k]) = {}
      BY NothingUnderway, DeliveryConstants
         DEF BridgeStream, AtBridge, DeliveryInStep, ReceiptUnderway, Holding
    <2>3. QED
      BY <2>1, <2>2, SessionUntouched
  <1>3. CASE Up(k)
    <2>1. bconn = k /\ bconn # 0
      BY <1>3, DeliveryConstants DEF Up
    <2>2. InTransit(toBridge[k]) = {}
      BY <2>1, NothingUnderway DEF BridgeStream, AtBridge, DeliveryInStep, ReceiptUnderway, Holding
    <2>3. toBridge[k] \in Seq(Frames)
      BY <1>1
    <2>4. toBridge' = [toBridge EXCEPT ![k] = Append(toBridge[k], Cmd(c))]
      BY <1>3 DEF ToBridgeWith
    <2>5. toBridge'[k] = Append(toBridge[k], Cmd(c))
          /\ \A j \in Slots : j # k => toBridge'[j] = toBridge[j]
      BY <1>1, <2>4
    <2>6. Ordered(toBridge[k])
      BY <2>1 DEF BridgeStream
    <2>7. InTransit(toBridge'[k]) = {Cmd(c)}
      BY <1>1, <2>2, <2>3, <2>5, TransitAppend
    <2>8. Ordered(toBridge'[k])
      BY <1>1, <2>2, <2>3, <2>5, <2>6, OrderedAppend
    <2>9. Cmd(c).type = "CMD"
      BY DEF Cmd
    <2>10. BridgeStream'
      BY <2>1, <2>5, <2>7, <2>8, <2>9 DEF BridgeStream
    <2>11. QED
      BY <2>1, <2>5, <2>7, <2>10
  <1>4. QED
    BY <1>2, <1>3

\* A step of a client whose connection the bridge has left concerns its slot only.
LEMMA OtherSlot ==
    ASSUME FrameInv, NEW k \in Slots, k # bconn,
           UNCHANGED <<devVars, spoolVars, bridgeVars, toBridge, broken>>,
           \A j \in Slots : j # k => /\ cpc'[j] = cpc[j] /\ ccmd'[j] = ccmd[j] /\ cret'[j] = cret[j]
                                     /\ cpend'[j] = cpend[j] /\ toCore'[j] = toCore[j],
           ClientInStep(k)', CoreStream(k)'
    PROVE  FrameRest'
  <1>1. /\ UNCHANGED <<sched, toDev, fromDev, bpc, bconn, batch, replaying, rpc, receipt, inflight,
                       signalled, forwarding, deferred, toBridge, broken>>
        /\ bconn \in Slots \cup {0}
    BY DEF devVars, mainVars, readerVars, eventVars, fwdVars, MainTypes
  <1>2. SessionIsOver' /\ DeviceAnswers' /\ SpoolOrder' /\ BatchOrder' /\ BridgeStream'
    BY <1>1, CoreSideOnly, SessionUntouched
  <1>3. \A j \in Slots : ClientInStep(j)' /\ CoreStream(j)'
    BY ClientUntouched
  <1>4. bconn # 0 => /\ toCore'[bconn] = toCore[bconn] /\ cpc'[bconn] = cpc[bconn]
                     /\ ccmd'[bconn] = ccmd[bconn] /\ cret'[bconn] = cret[bconn]
                     /\ cpend'[bconn] = cpend[bconn]
    BY <1>1
  <1>5. OneCommand' /\ Underway' = Underway
    BY <1>1, <1>4 DEF OneCommand, AtBridge, AtPort, AtCore, Underway
  <1>6. CommandIsAwaited' /\ HelloFirst'
    BY <1>1, <1>4, <1>5 DEF CommandIsAwaited, HelloFirst, Stage, Awaiting
  <1>7. ReplayFirst'
    BY <1>1, <1>4 DEF ReplayFirst, Starting, Stage
  <1>8. DeliveryInStep'
    BY <1>1, <1>4 DEF DeliveryInStep, ReaderBusy, Unconfirmed, ReceiptUnderway, Up
  <1>9. QED
    BY <1>2, <1>3, <1>5, <1>6, <1>7, <1>8

\* A client that waits for nothing sends a command and awaits its answer.
LEMMA CommandGoesOut ==
    ASSUME FrameInv, NEW k \in Slots, NEW c \in Commands, NEW pc \in {"hello", "caps", "await"},
           UNCHANGED <<devVars, spoolVars, bridgeVars, broken, cret, cpend>>,
           cpc[k] \notin Holding \cup {"free", "declined"}, k = bconn => Underway = {},
           cpc' = [cpc EXCEPT ![k] = pc], ccmd' = [ccmd EXCEPT ![k] = c],
           toBridge' = ToBridgeWith(k, Cmd(c)),
           pc = "hello" => c = "HELLO", pc = "caps" => c = "CAPS",
           c = "HELLO" => cpc[k] = "backlog", pc \in {"hello", "caps"} => Starting(k),
           \A j \in Slots : j # k => toCore'[j] = toCore[j],
           Ordered(toCore'[k]), InTransit(toCore'[k]) \subseteq InTransit(toCore[k]),
           \A f \in InTransit(toCore'[k]) : f.type = "DELIVERY"
    PROVE  FrameRest'
  <1>1. UNCHANGED <<sched, toDev, fromDev, bpc, bconn, batch, replaying, rpc, receipt, inflight,
                    signalled, forwarding, deferred>>
    BY DEF devVars, mainVars, readerVars, eventVars, fwdVars
  <1>2. /\ BridgeStream'
        /\ \A j \in Slots : j # k => toBridge'[j] = toBridge[j]
        /\ bconn # k => toBridge'[k] = toBridge[k]
        /\ bconn = k => InTransit(toBridge'[k]) \subseteq {Cmd(c)}
    BY <1>1, CommandWritten
  <1>3. SessionIsOver' /\ DeviceAnswers' /\ SpoolOrder' /\ BatchOrder'
    BY CoreSideOnly
  <1>4. /\ cpc'[k] = pc /\ ccmd'[k] = c
        /\ \A j \in Slots : j # k => cpc'[j] = cpc[j] /\ ccmd'[j] = ccmd[j]
        /\ \A j \in Slots : cret'[j] = cret[j] /\ cpend'[j] = cpend[j]
        /\ bconn \in Slots \cup {0}
    BY DEF ClientTypes, MainTypes
  <1>5. pc \notin Holding /\ pc # "free" /\ pc # "stuck" /\ pc # "backlog" /\ pc # "ready"
    BY DEF Holding
  <1>6. ASSUME NEW j \in Slots
        PROVE  ClientInStep(j)' /\ CoreStream(j)'
    <2>1. CASE j # k
      BY <1>4, <2>1, ClientUntouched
    <2>2. CASE j = k
      <3>1. ClientInStep(k) /\ CoreStream(k)
        OBVIOUS
      <3>2. ClientInStep(k)'
        BY <1>4, <1>5, <3>1 DEF ClientInStep, Stage, Holding
      <3>3. CoreStream(k)'
        BY <1>4, <1>5, <3>1 DEF CoreStream, Holding
      <3>4. QED
        BY <2>2, <3>2, <3>3
    <2>3. QED
      BY <2>1, <2>2
  <1>7. CASE bconn # k
    <2>1. toBridge' = toBridge
      BY <1>7 DEF ToBridgeWith, Up
    <2>2. QED
      BY <1>4, <1>6, <1>7, <2>1, OtherSlot
  <1>8. CASE bconn = k
    <2>1. bconn # 0
      BY <1>8, DeliveryConstants
    <2>2. deferred = <<>> /\ toDev = <<>> /\ ~AtPort /\ ~AtBridge
      BY <1>8, NothingUnderway
    <2>3. ~AtCore' /\ ~AtPort' /\ deferred' = <<>> /\ toDev' = <<>>
      BY <1>1, <1>8, <2>2 DEF AtCore, AtPort
    <2>4. OneCommand'
      BY <1>1, <2>2, <2>3 DEF OneCommand
    <2>5. Cmd(c).type = "CMD" /\ Cmd(c).cmd = c
      BY DEF Cmd
    <2>6. Underway' \subseteq {c}
      <3>1. InTransit(<<>>) = {}
        BY DEF InTransit
      <3>2. QED
        BY <1>1, <1>2, <1>8, <2>3, <2>5, <3>1 DEF Underway, AtPort
    <2>7. CommandIsAwaited'
      BY <1>1, <1>4, <1>5, <1>8, <2>6 DEF CommandIsAwaited, Awaiting, Stage
    <2>8. HelloFirst'
      BY <1>1, <1>4, <1>5, <1>8, <2>1, <2>6 DEF HelloFirst
    <2>9. ReplayFirst'
      <3>1. Resp("CAPS").type = "RESP"
        BY DEF Resp
      <3>2. Starting(k)' => Starting(k)
        BY <1>4, <1>5 DEF Starting, Stage
      <3>3. QED
        BY <1>1, <1>4, <1>5, <1>8, <2>1, <3>1, <3>2 DEF ReplayFirst
    <2>10. DeliveryInStep'
      <3>1. ~ReceiptUnderway /\ rpc \notin {"mark", "respond"}
        BY <1>8, <2>1 DEF DeliveryInStep, Holding
      <3>2. ~ReceiptUnderway'
        BY <1>1, <1>2, <1>8, <2>5 DEF ReceiptUnderway
      <3>3. QED
        BY <1>1, <1>2, <1>4, <1>5, <1>8, <2>1, <2>5, <3>1, <3>2
           DEF DeliveryInStep, ReaderBusy, Unconfirmed, Up, Holding
    <2>11. QED
      BY <1>2, <1>3, <1>6, <2>4, <2>7, <2>8, <2>9, <2>10
  <1>9. QED
    BY <1>7, <1>8

\* What reading a frame does to the stream of slot k.
LEMMA StreamRead ==
    ASSUME FrameInv, NEW k \in Slots, toCore[k] # <<>>, toCore' = [toCore EXCEPT ![k] = Tail(@)]
    PROVE  /\ InTransit(toCore[k]) = {Head(toCore[k])} \cup InTransit(toCore'[k])
           /\ Ordered(toCore'[k])
           /\ \A f \in InTransit(toCore'[k]) : Rank(Head(toCore[k])) < Rank(f)
           /\ \A j \in Slots : j # k => toCore'[j] = toCore[j]
  <1>1. toCore \in [Slots -> Seq(Frames)] /\ toCore[k] \in Seq(Frames)
    BY DEF WireTypes
  <1>2. toCore'[k] = Tail(toCore[k]) /\ \A j \in Slots : j # k => toCore'[j] = toCore[j]
    BY <1>1
  <1>3. Ordered(toCore[k])
    BY DEF CoreStream
  <1>4. InTransit(toCore[k]) = {Head(toCore[k])} \cup InTransit(Tail(toCore[k]))
    BY <1>1, TransitTail
  <1>5. /\ Ordered(Tail(toCore[k]))
        /\ \A f \in InTransit(Tail(toCore[k])) : Rank(Head(toCore[k])) < Rank(f)
    BY <1>1, <1>3, OrderedTail
  <1>6. QED
    BY <1>2, <1>4, <1>5

\* A client that waits for an answer reads its answer, behind which only a
\* delivery may wait, and then no command is under way.
LEMMA AnswerRead ==
    ASSUME FrameInv, NEW k \in Slots, cpc[k] \in {"hello", "caps", "await"}, Answered(k),
           toCore' = [toCore EXCEPT ![k] = Tail(@)]
    PROVE  /\ Head(toCore[k]) = Resp(ccmd[k])
                \/ (Head(toCore[k]) = Err(ccmd[k]) /\ ccmd[k] \in {"QUERY", "ONCE", "START"})
           /\ Head(toCore[k]) \in InTransit(toCore[k])
           /\ k = bconn => Underway = {}
           /\ \A j \in Slots : j # k => toCore'[j] = toCore[j]
           /\ Ordered(toCore'[k]) /\ InTransit(toCore'[k]) \subseteq InTransit(toCore[k])
           /\ \A f \in InTransit(toCore'[k]) : f.type = "DELIVERY"
  <1> DEFINE h == Head(toCore[k])
  <1>1. /\ InTransit(toCore[k]) = {h} \cup InTransit(toCore'[k])
        /\ Ordered(toCore'[k])
        /\ \A f \in InTransit(toCore'[k]) : Rank(h) < Rank(f)
        /\ \A j \in Slots : j # k => toCore'[j] = toCore[j]
    BY StreamRead DEF Answered
  <1>2. CoreStream(k) /\ ClientInStep(k) /\ h.type # "DELIVERY" /\ h \in InTransit(toCore[k])
    BY <1>1 DEF Answered
  <1> HIDE DEF h
  <1>3. h.type \in {"RESP", "ERROR"} /\ h.cmd = ccmd[k]
    BY <1>2 DEF CoreStream
  <1>4. h = Resp(ccmd[k]) \/ (h = Err(ccmd[k]) /\ ccmd[k] \in {"QUERY", "ONCE", "START"})
    BY <1>2, <1>3 DEF CoreStream
  <1>5. \A f \in InTransit(toCore'[k]) : f.type = "DELIVERY"
    BY <1>1, <1>2, <1>3 DEF CoreStream, Rank
  <1>6. k = bconn => Underway = {}
    <2>1. k = bconn => AtCore
      BY <1>2, <1>3, DeliveryConstants DEF AtCore
    <2>2. QED
      BY <2>1, NothingUnderway DEF OneCommand
  <1>7. QED
    BY <1>1, <1>2, <1>4, <1>5, <1>6 DEF h

\* The acceptor sends HELLO to a new connection.
LEMMA AcceptFrames ==
    ASSUME FrameInv, NEW k \in Slots, Accept(k)
    PROVE  FrameRest'
  <1>1. /\ UNCHANGED <<devVars, spoolVars, bridgeVars, broken, cret, cpend, toCore>>
        /\ cpc[k] = "backlog" /\ cpc' = [cpc EXCEPT ![k] = "hello"]
        /\ ccmd' = [ccmd EXCEPT ![k] = "HELLO"] /\ toBridge' = ToBridgeWith(k, Cmd("HELLO"))
    BY DEF Accept
  <1>2. cpc[k] \notin Holding \cup {"free", "declined"} /\ Starting(k) /\ ~Awaiting(k)
    BY <1>1 DEF Holding, Starting, Awaiting, Stage
  <1>3. k = bconn => Underway = {}
    BY <1>2, DeliveryConstants DEF CommandIsAwaited
  <1>4. CoreStream(k)
    OBVIOUS
  <1>5. Ordered(toCore[k]) /\ \A f \in InTransit(toCore[k]) : f.type = "DELIVERY"
    BY <1>1, <1>2, <1>4 DEF CoreStream
  <1>6. "HELLO" \in Commands
    BY DEF Commands
  <1>7. Ordered(toCore'[k]) /\ InTransit(toCore'[k]) = InTransit(toCore[k])
        /\ \A j \in Slots : toCore'[j] = toCore[j]
    BY <1>1, <1>5
  <1>8. QED
    BY <1>1, <1>2, <1>3, <1>5, <1>6, <1>7, CommandGoesOut

\* The application sends a command.
LEMMA SendFrames ==
    ASSUME FrameInv, NEW k \in Slots, NEW c \in {"QUERY", "ONCE", "START", "STOP"}, Send(k, c)
    PROVE  FrameRest'
  <1>1. /\ UNCHANGED <<devVars, spoolVars, bridgeVars, broken, cret, cpend, toCore>>
        /\ cpc[k] = "idle" /\ cpc' = [cpc EXCEPT ![k] = "await"]
        /\ ccmd' = [ccmd EXCEPT ![k] = c] /\ toBridge' = ToBridgeWith(k, Cmd(c))
    BY DEF Send
  <1>2. cpc[k] \notin Holding \cup {"free", "declined"} /\ ~Awaiting(k)
    BY <1>1 DEF Holding, Awaiting, Stage
  <1>3. k = bconn => Underway = {}
    BY <1>2, DeliveryConstants DEF CommandIsAwaited
  <1>4. CoreStream(k)
    OBVIOUS
  <1>5. Ordered(toCore[k]) /\ \A f \in InTransit(toCore[k]) : f.type = "DELIVERY"
    BY <1>1, <1>2, <1>4 DEF CoreStream
  <1>6. c \in Commands /\ c # "HELLO"
    BY DEF Commands
  <1>7. Ordered(toCore'[k]) /\ InTransit(toCore'[k]) = InTransit(toCore[k])
        /\ \A j \in Slots : toCore'[j] = toCore[j]
    BY <1>1, <1>5
  <1>8. QED
    BY <1>1, <1>2, <1>3, <1>5, <1>6, <1>7, CommandGoesOut

\* The answer to HELLO is read and CAPS sent.
LEMMA HelloFrames ==
    ASSUME FrameInv, NEW k \in Slots, HelloDone(k)
    PROVE  FrameRest'
  <1>1. /\ UNCHANGED <<devVars, spoolVars, bridgeVars, broken, cret, cpend>>
        /\ cpc[k] = "hello" /\ Answered(k) /\ toCore' = [toCore EXCEPT ![k] = Tail(@)]
        /\ cpc' = [cpc EXCEPT ![k] = IF Head(toCore[k]) = Resp("HELLO") THEN "caps" ELSE "stuck"]
        /\ ccmd' = [ccmd EXCEPT ![k] = "CAPS"] /\ toBridge' = ToBridgeWith(k, Cmd("CAPS"))
    BY DEF HelloDone, Receive
  <1>2. cpc[k] \notin Holding \cup {"free", "declined"} /\ Starting(k) /\ Stage(k) = "hello"
    BY <1>1 DEF Holding, Starting, Stage
  <1>3. ccmd[k] = "HELLO"
    BY <1>2 DEF ClientInStep
  <1>4. /\ \A j \in Slots : j # k => toCore'[j] = toCore[j]
        /\ Ordered(toCore'[k]) /\ InTransit(toCore'[k]) \subseteq InTransit(toCore[k])
        /\ \A f \in InTransit(toCore'[k]) : f.type = "DELIVERY"
    BY <1>1, <1>3, AnswerRead
  <1>5. Head(toCore[k]) = Resp("HELLO") /\ (k = bconn => Underway = {})
    BY <1>1, <1>3, AnswerRead
  <1>6. "CAPS" \in Commands /\ cpc' = [cpc EXCEPT ![k] = "caps"]
    BY <1>1, <1>5 DEF Commands
  <1>7. QED
    BY <1>1, <1>2, <1>4, <1>5, <1>6, CommandGoesOut

-----------------------------------------------------------------------------
(* Answers and deliveries. *)

\* A client that has its answer waits for nothing.
LEMMA AnswerTaken ==
    ASSUME FrameInv, NEW k \in Slots, NEW pc \in {"ready", "idle", "awaitCap"},
           cpc[k] \in {"caps", "await"}, pc = "ready" <=> cpc[k] = "caps", Answered(k),
           UNCHANGED <<devVars, spoolVars, bridgeVars, toBridge, broken, ccmd, cret, cpend>>,
           toCore' = [toCore EXCEPT ![k] = Tail(@)], cpc' = [cpc EXCEPT ![k] = pc]
    PROVE  FrameRest'
  <1>1. /\ Head(toCore[k]) = Resp(ccmd[k])
             \/ (Head(toCore[k]) = Err(ccmd[k]) /\ ccmd[k] \in {"QUERY", "ONCE", "START"})
        /\ Head(toCore[k]) \in InTransit(toCore[k])
        /\ k = bconn => Underway = {}
        /\ \A j \in Slots : j # k => toCore'[j] = toCore[j]
        /\ Ordered(toCore'[k]) /\ InTransit(toCore'[k]) \subseteq InTransit(toCore[k])
        /\ \A f \in InTransit(toCore'[k]) : f.type = "DELIVERY"
    BY AnswerRead
  <1>2. /\ cpc'[k] = pc /\ \A j \in Slots : j # k => cpc'[j] = cpc[j]
        /\ bconn \in Slots \cup {0}
    BY DEF ClientTypes, MainTypes
  <1>3. /\ pc \notin Holding /\ pc # "free" /\ pc # "stuck" /\ pc # "backlog" /\ cpc[k] \notin Holding
        /\ pc \notin {"hello", "caps", "await"}
    BY DEF Holding
  <1>4. ClientInStep(k)' /\ CoreStream(k)'
    <2>1. ClientInStep(k) /\ CoreStream(k)
      OBVIOUS
    <2>2. ClientInStep(k)'
      BY <1>2, <1>3, <2>1 DEF ClientInStep, Stage, Holding
    <2>3. CoreStream(k)'
      BY <1>1, <1>2, <1>3, <2>1 DEF CoreStream, Holding
    <2>4. QED
      BY <2>2, <2>3
  <1>5. CASE bconn # k
    BY <1>1, <1>2, <1>4, <1>5, OtherSlot
  <1>6. CASE bconn = k
    <2>1. /\ UNCHANGED <<sched, toDev, fromDev, bpc, bconn, batch, replaying, rpc, receipt, inflight,
                         signalled, forwarding, deferred, toBridge, broken>>
          /\ bconn # 0
      BY <1>6, DeliveryConstants DEF devVars, mainVars, readerVars, eventVars, fwdVars
    <2>2. SessionIsOver' /\ DeviceAnswers' /\ SpoolOrder' /\ BatchOrder' /\ BridgeStream'
      BY <2>1, CoreSideOnly, SessionUntouched
    <2>3. \A j \in Slots : ClientInStep(j)' /\ CoreStream(j)'
      BY <1>1, <1>2, <1>4, ClientUntouched
    <2>4. Underway' = {}
      BY <1>1, <1>6, <2>1, CommandUntouched
    <2>5. OneCommand'
      BY <1>1, <1>6, <2>1 DEF OneCommand, AtBridge, AtPort, AtCore
    <2>6. CommandIsAwaited' /\ HelloFirst'
      BY <1>2, <1>3, <1>6, <2>1, <2>4 DEF CommandIsAwaited, HelloFirst
    <2>7. ReplayFirst'
      <3>1. Resp("CAPS").type = "RESP"
        BY DEF Resp
      <3>2. cpc[k] = "caps" => Stage(k) = "caps" /\ Starting(k)
        BY <1>3 DEF Stage, Starting
      <3>3. cpc[k] = "caps" => Resp("CAPS") \in InTransit(toCore[k])
        BY <1>1, <3>2 DEF ClientInStep
      <3>4. Starting(k)' => cpc[k] = "caps"
        BY <1>2, <1>3 DEF Starting, Stage
      <3>5. QED
        BY <1>1, <1>2, <1>6, <2>1, <3>1, <3>2, <3>3, <3>4 DEF ReplayFirst
    <2>8. DeliveryInStep'
      <3>1. ~ReceiptUnderway /\ rpc \notin {"mark", "respond"}
        BY <1>3, <1>6, <2>1 DEF DeliveryInStep, Holding
      <3>2. QED
        BY <1>1, <1>2, <1>3, <1>6, <2>1, <3>1
           DEF DeliveryInStep, ReaderBusy, Unconfirmed, Up, Holding, ReceiptUnderway
    <2>9. QED
      BY <2>2, <2>3, <2>5, <2>6, <2>7, <2>8
  <1>7. QED
    BY <1>5, <1>6

\* The answer to CAPS, and the answers to the application.
LEMMA CapsFrames ==
    ASSUME FrameInv, NEW k \in Slots, CapsDone(k)
    PROVE  FrameRest'
  <1>1. /\ UNCHANGED <<devVars, spoolVars, bridgeVars, toBridge, broken, ccmd, cret, cpend>>
        /\ cpc[k] = "caps" /\ Answered(k) /\ toCore' = [toCore EXCEPT ![k] = Tail(@)]
        /\ cpc' = [cpc EXCEPT ![k] = IF Head(toCore[k]) = Resp("CAPS") THEN "ready" ELSE "stuck"]
    BY DEF CapsDone, Receive
  <1>2. ccmd[k] = "CAPS"
    BY <1>1 DEF ClientInStep, Stage, Holding
  <1>3. Head(toCore[k]) = Resp("CAPS")
    BY <1>1, <1>2, AnswerRead
  <1>4. cpc' = [cpc EXCEPT ![k] = "ready"]
    BY <1>1, <1>3
  <1>5. QED
    BY <1>1, <1>4, AnswerTaken

LEMMA ReplyFrames ==
    ASSUME FrameInv, NEW k \in Slots, Replied(k)
    PROVE  FrameRest'
  <1> DEFINE h == Head(toCore[k])
             pc == IF h.type = "RESP" /\ ccmd[k] = "ONCE" THEN "awaitCap" ELSE "idle"
  <1>1. /\ UNCHANGED <<devVars, spoolVars, bridgeVars, toBridge, broken, ccmd, cret, cpend>>
        /\ cpc[k] = "await" /\ Answered(k) /\ toCore' = [toCore EXCEPT ![k] = Tail(@)]
        /\ cpc' = [cpc EXCEPT ![k] = IF h \in {Resp(ccmd[k]), Err(ccmd[k])} THEN pc ELSE "stuck"]
    BY DEF Replied, Receive
  <1>2. h \in {Resp(ccmd[k]), Err(ccmd[k])}
    BY <1>1, AnswerRead
  <1>3. pc \in {"idle", "awaitCap"}
    OBVIOUS
  <1> HIDE DEF h, pc
  <1>4. cpc' = [cpc EXCEPT ![k] = pc]
    BY <1>1, <1>2
  <1>5. pc \in {"ready", "idle", "awaitCap"} /\ ~(pc = "ready") /\ ~(cpc[k] = "caps")
    BY <1>1, <1>3
  <1>6. QED
    BY <1>1, <1>4, <1>5, AnswerTaken

\* A client reads a delivery whenever it accepts or declines one, and nothing
\* waits behind it.
LEMMA DeliveryRead ==
    ASSUME FrameInv, NEW k \in Slots, AcceptDelivery(k) \/ Decline(k)
    PROVE  /\ Head(toCore[k]).type = "DELIVERY" /\ Head(toCore[k]) \in InTransit(toCore[k])
           /\ cpend[k] = NoRecord /\ cpc[k] \notin Holding /\ cpc[k] # "free"
           /\ toCore'[k] = <<>> /\ \A j \in Slots : j # k => toCore'[j] = toCore[j]
  <1> DEFINE h == Head(toCore[k])
  <1>1. /\ toCore[k] # <<>> /\ toCore' = [toCore EXCEPT ![k] = Tail(@)]
        /\ \/ cpc[k] \in {"hello", "caps", "await"} /\ h.type = "DELIVERY"
           \/ cpc[k] = "awaitCap" \/ cpc[k] = "idle"
    BY DEF AcceptDelivery, Decline, Receive
  <1>2. /\ InTransit(toCore[k]) = {h} \cup InTransit(toCore'[k])
        /\ \A f \in InTransit(toCore'[k]) : Rank(h) < Rank(f)
        /\ \A j \in Slots : j # k => toCore'[j] = toCore[j]
    BY <1>1, StreamRead
  <1> HIDE DEF h
  <1>3. cpc[k] \notin Holding /\ cpc[k] # "free" /\ cpc[k] # "confirm" /\ cpend[k] = NoRecord
        /\ (Awaiting(k) => cpc[k] \in {"hello", "caps", "await"})
    BY <1>1 DEF Holding, ClientInStep, Awaiting, Stage
  <1>4. h \in InTransit(toCore[k]) /\ CoreStream(k)
    BY <1>2
  <1>5. h.type = "DELIVERY"
    BY <1>1, <1>3, <1>4 DEF CoreStream
  <1>6. Rank(h) = 3 /\ \A f : Rank(f) \in 1 .. 3
    BY <1>5 DEF Rank
  <1>7. InTransit(toCore'[k]) = {}
    BY <1>2, <1>6
  <1>8. toCore'[k] \in Seq(Frames)
    BY <1>1 DEF WireTypes
  <1>9. toCore'[k] = <<>>
    BY <1>7, <1>8, TransitEmpty
  <1>10. QED
    BY <1>2, <1>3, <1>4, <1>5, <1>9 DEF h

\* A client accepts the delivery of its session.
LEMMA AcceptDeliveryFrames ==
    ASSUME FrameInv, NEW k \in Slots, AcceptDelivery(k)
    PROVE  FrameRest'
  <1> DEFINE h == Head(toCore[k])
             r == [rec |-> h.rec, cap |-> h.cap]
             back == IF cpc[k] = "awaitCap" THEN "idle" ELSE cpc[k]
  <1>1. /\ h.type = "DELIVERY" /\ h \in InTransit(toCore[k])
        /\ cpend[k] = NoRecord /\ cpc[k] \notin Holding /\ cpc[k] # "free"
        /\ toCore'[k] = <<>> /\ \A j \in Slots : j # k => toCore'[j] = toCore[j]
    BY DeliveryRead
  <1>2. /\ UNCHANGED <<devVars, spoolVars, bridgeVars, toBridge, broken, ccmd>>
        /\ cpc' = [cpc EXCEPT ![k] = "accepted"]
        /\ cpend' = [cpend EXCEPT ![k] = r] /\ cret' = [cret EXCEPT ![k] = back]
    BY <1>1 DEF AcceptDelivery, Receive
  <1>3. /\ back \in {"hello", "caps", "await", "idle"}
        /\ back = cpc[k] \/ (back = "idle" /\ cpc[k] = "awaitCap")
    BY DEF AcceptDelivery
  <1> HIDE DEF h, r, back
  <1>4. /\ cpc'[k] = "accepted" /\ cpend'[k] = r /\ cret'[k] = back
        /\ \A j \in Slots : j # k => cpc'[j] = cpc[j] /\ cpend'[j] = cpend[j] /\ cret'[j] = cret[j]
        /\ \A j \in Slots : ccmd'[j] = ccmd[j]
        /\ bconn \in Slots \cup {0}
    BY <1>2 DEF ClientTypes, MainTypes
  <1>5. "accepted" \in Holding /\ Stage(k) = cpc[k] /\ Stage(k)' = back
        /\ InTransit(<<>>) = {}
    BY <1>1, <1>4 DEF Holding, Stage, InTransit
  <1>6. ClientInStep(k)' /\ CoreStream(k)'
    <2>1. ClientInStep(k)
      OBVIOUS
    <2>2. ClientInStep(k)'
      BY <1>3, <1>4, <1>5, <2>1 DEF ClientInStep
    <2>3. CoreStream(k)'
      BY <1>1, <1>4, <1>5, OrderedEmpty DEF CoreStream
    <2>4. QED
      BY <2>2, <2>3
  <1>7. CASE bconn # k
    BY <1>1, <1>2, <1>4, <1>6, <1>7, OtherSlot
  <1>8. CASE bconn = k
    <2>1. /\ UNCHANGED <<sched, toDev, fromDev, bpc, bconn, batch, replaying, rpc, receipt, inflight,
                         signalled, forwarding, deferred, toBridge, broken>>
          /\ bconn # 0
      BY <1>2, <1>8, DeliveryConstants DEF devVars, mainVars, readerVars, eventVars, fwdVars
    <2>2. SessionIsOver' /\ DeviceAnswers' /\ SpoolOrder' /\ BatchOrder' /\ BridgeStream'
      BY <1>2, <2>1, CoreSideOnly, SessionUntouched
    <2>3. \A j \in Slots : ClientInStep(j)' /\ CoreStream(j)'
      BY <1>1, <1>4, <1>6, ClientUntouched
    <2>4. Underway' = Underway
      BY <2>1, CommandUntouched
    <2>5. OneCommand'
      BY <1>1, <1>5, <1>8, <2>1 DEF OneCommand, AtBridge, AtPort, AtCore
    <2>6. CommandIsAwaited'
      BY <1>1, <1>3, <1>4, <1>5, <1>8, <2>1, <2>4 DEF CommandIsAwaited, Awaiting
    <2>7. HelloFirst'
      BY <1>4, <1>8, <2>1, <2>4 DEF HelloFirst
    <2>8. ReplayFirst'
      <3>1. Starting(k)' => Starting(k)
        BY <1>3, <1>5 DEF Starting
      <3>2. QED
        BY <1>1, <1>4, <1>5, <1>8, <2>1, <3>1 DEF ReplayFirst
    <2>9. DeliveryInStep'
      <3>1. Unconfirmed /\ ~ReaderBusy /\ ~ReceiptUnderway /\ h = Delivery(Head(batch))
        BY <1>1, <1>8, <2>1 DEF DeliveryInStep
      <3>2. batch # <<>> /\ Head(batch) \in Records
        BY <3>1, SeqTypes DEF Unconfirmed, SessionHasConnection, MainTypes
      <3>3. r = Head(batch)
        BY <3>1, <3>2 DEF r, Delivery, Records
      <3>4. Unconfirmed' /\ ~ReaderBusy' /\ ~ReceiptUnderway'
        BY <2>1, <3>1 DEF Unconfirmed, ReaderBusy, ReceiptUnderway
      <3>5. rpc # "error" /\ rpc \notin {"mark", "respond"}
        BY <3>1 DEF DeliveryInStep, ReaderBusy
      <3>6. QED
        BY <1>1, <1>4, <1>5, <1>8, <2>1, <3>3, <3>4, <3>5
           DEF DeliveryInStep, ReceiptUnderway
    <2>10. QED
      BY <2>2, <2>3, <2>5, <2>6, <2>7, <2>8, <2>9
  <1>9. QED
    BY <1>7, <1>8

\* A declined delivery stays with its client, which is in no call.
LEMMA DeclineFrames ==
    ASSUME FrameInv, NEW k \in Slots, Decline(k)
    PROVE  FrameRest'
  <1> DEFINE h == Head(toCore[k])
             r == [rec |-> h.rec, cap |-> h.cap]
  <1>1. /\ h.type = "DELIVERY" /\ h \in InTransit(toCore[k])
        /\ cpend[k] = NoRecord /\ cpc[k] \notin Holding /\ cpc[k] # "free"
        /\ toCore'[k] = <<>> /\ \A j \in Slots : j # k => toCore'[j] = toCore[j]
    BY DeliveryRead
  <1>2. /\ UNCHANGED <<devVars, spoolVars, bridgeVars, toBridge, broken, ccmd, cret>>
        /\ cpc[k] = "idle" /\ cpc' = [cpc EXCEPT ![k] = "declined"]
        /\ cpend' = [cpend EXCEPT ![k] = r]
    BY DEF Decline, Receive
  <1> HIDE DEF h, r
  <1>3. /\ cpc'[k] = "declined" /\ cpend'[k] = r
        /\ \A j \in Slots : j # k => cpc'[j] = cpc[j] /\ cpend'[j] = cpend[j]
        /\ \A j \in Slots : ccmd'[j] = ccmd[j] /\ cret'[j] = cret[j]
        /\ bconn \in Slots \cup {0}
    BY <1>2 DEF ClientTypes, MainTypes
  <1>4. /\ Stage(k) = "idle" /\ Stage(k)' = "declined" /\ "declined" \notin Holding
        /\ InTransit(<<>>) = {}
    BY <1>2, <1>3 DEF Holding, Stage, InTransit
  <1>5. ClientInStep(k)' /\ CoreStream(k)'
    <2>1. ClientInStep(k)
      OBVIOUS
    <2>2. ClientInStep(k)'
      BY <1>3, <1>4, <2>1 DEF ClientInStep
    <2>3. CoreStream(k)'
      BY <1>1, <1>3, <1>4, OrderedEmpty DEF CoreStream
    <2>4. QED
      BY <2>2, <2>3
  <1>6. CASE bconn # k
    BY <1>1, <1>2, <1>3, <1>5, <1>6, OtherSlot
  <1>7. CASE bconn = k
    <2>1. /\ UNCHANGED <<sched, toDev, fromDev, bpc, bconn, batch, replaying, rpc, receipt, inflight,
                         signalled, forwarding, deferred, toBridge, broken>>
          /\ bconn # 0
      BY <1>2, <1>7, DeliveryConstants DEF devVars, mainVars, readerVars, eventVars, fwdVars
    <2>2. SessionIsOver' /\ DeviceAnswers' /\ SpoolOrder' /\ BatchOrder' /\ BridgeStream'
      BY <1>2, <2>1, CoreSideOnly, SessionUntouched
    <2>3. \A j \in Slots : ClientInStep(j)' /\ CoreStream(j)'
      BY <1>1, <1>3, <1>5, ClientUntouched
    <2>4. Underway' = Underway
      BY <2>1, CommandUntouched
    <2>5. OneCommand'
      BY <1>1, <1>4, <1>7, <2>1 DEF OneCommand, AtBridge, AtPort, AtCore
    <2>6. CommandIsAwaited' /\ HelloFirst'
      BY <1>2, <1>3, <1>4, <1>7, <2>1, <2>4 DEF CommandIsAwaited, HelloFirst, Awaiting
    <2>7. ReplayFirst'
      BY <1>1, <1>3, <1>4, <1>7, <2>1 DEF ReplayFirst, Starting
    <2>8. DeliveryInStep'
      <3>1. Unconfirmed /\ ~ReaderBusy /\ ~ReceiptUnderway /\ h = Delivery(Head(batch))
        BY <1>1, <1>7, <2>1 DEF DeliveryInStep
      <3>2. batch # <<>> /\ Head(batch) \in Records
        BY <3>1, SeqTypes DEF Unconfirmed, SessionHasConnection, MainTypes
      <3>3. r = Head(batch)
        BY <3>1, <3>2 DEF r, Delivery, Records
      <3>4. Unconfirmed' /\ ~ReaderBusy' /\ ~ReceiptUnderway'
        BY <2>1, <3>1 DEF Unconfirmed, ReaderBusy, ReceiptUnderway
      <3>5. rpc # "error" /\ rpc \notin {"mark", "respond"}
        BY <3>1 DEF DeliveryInStep, ReaderBusy
      <3>6. QED
        BY <1>1, <1>3, <1>4, <1>7, <2>1, <3>3, <3>4, <3>5
           DEF DeliveryInStep, ReceiptUnderway
    <2>9. QED
      BY <2>2, <2>3, <2>5, <2>6, <2>7, <2>8
  <1>8. QED
    BY <1>6, <1>7

\* The store decides; only the client's place in its work changes.
LEMMA DecideFrames ==
    ASSUME FrameInv, NEW k \in Slots, cpc[k] = "accepted", Decide(k),
           UNCHANGED <<devVars, spoolVars, bridgeVars>>
    PROVE  FrameRest'
  <1>1. /\ UNCHANGED <<toCore, toBridge, broken, ccmd, cret, cpend>>
        /\ cpc'[k] = "committed" /\ \A j \in Slots : j # k => cpc'[j] = cpc[j]
        /\ bconn \in Slots \cup {0}
    BY DEF Decide, wireVars, ClientTypes, MainTypes
  <1>2. {"accepted", "committed"} \subseteq Holding /\ Stage(k) = cret[k] /\ Stage(k)' = cret[k]
    BY <1>1 DEF Holding, Stage
  <1>3. ClientInStep(k)' /\ CoreStream(k)'
    <2>1. ClientInStep(k) /\ CoreStream(k)
      OBVIOUS
    <2>2. ClientInStep(k)'
      BY <1>1, <1>2, <2>1 DEF ClientInStep
    <2>3. toCore[k] = <<>> /\ InTransit(<<>>) = {}
      BY <2>1 DEF CoreStream, InTransit
    <2>4. CoreStream(k)'
      BY <1>1, <2>3, OrderedEmpty DEF CoreStream
    <2>5. QED
      BY <2>2, <2>4
  <1>4. CASE bconn # k
    BY <1>1, <1>3, <1>4, OtherSlot
  <1>5. CASE bconn = k
    <2>1. /\ UNCHANGED <<sched, toDev, fromDev, bpc, bconn, batch, replaying, rpc, receipt, inflight,
                         signalled, forwarding, deferred>>
          /\ bconn # 0
      BY <1>5, DeliveryConstants DEF devVars, mainVars, readerVars, eventVars, fwdVars
    <2>2. SessionIsOver' /\ DeviceAnswers' /\ SpoolOrder' /\ BatchOrder' /\ BridgeStream'
      BY <1>1, <2>1, CoreSideOnly, SessionUntouched
    <2>3. \A j \in Slots : ClientInStep(j)' /\ CoreStream(j)'
      BY <1>1, <1>3, ClientUntouched
    <2>4. Underway' = Underway /\ OneCommand'
      BY <1>1, <2>1, CommandUntouched
    <2>5. CommandIsAwaited' /\ HelloFirst'
      BY <1>1, <1>2, <1>5, <2>1, <2>4 DEF CommandIsAwaited, HelloFirst, Awaiting
    <2>6. ReplayFirst'
      BY <1>1, <1>2, <1>5, <2>1 DEF ReplayFirst, Starting
    <2>7. DeliveryInStep'
      BY <1>1, <1>5, <2>1 DEF DeliveryInStep, Unconfirmed, ReaderBusy, ReceiptUnderway, Up
    <2>8. QED
      BY <2>2, <2>3, <2>4, <2>5, <2>6, <2>7
  <1>6. QED
    BY <1>4, <1>5

\* The receipt goes out: the client waits for the commit response, and nothing
\* else is on the way to it.
LEMMA ReceiptFrames ==
    ASSUME FrameInv, NEW k \in Slots, SendReceipt(k)
    PROVE  FrameRest'
  <1>1. /\ UNCHANGED <<devVars, spoolVars, bridgeVars, toCore, broken, ccmd, cret, cpend>>
        /\ cpc[k] = "committed" /\ toBridge' = ToBridgeWith(k, Receipt(cpend[k]))
        /\ cpc'[k] = "confirm" /\ \A j \in Slots : j # k => cpc'[j] = cpc[j]
        /\ bconn \in Slots \cup {0}
    BY DEF SendReceipt, ClientTypes, MainTypes
  <1>2. {"committed", "confirm"} \subseteq Holding /\ Stage(k) = cret[k] /\ Stage(k)' = cret[k]
    BY <1>1 DEF Holding, Stage
  <1>3. toCore[k] = <<>> /\ InTransit(toCore[k]) = {}
    BY <1>1 DEF CoreStream, InTransit
  <1>4. ClientInStep(k)' /\ CoreStream(k)'
    <2>1. ClientInStep(k)
      OBVIOUS
    <2>2. ClientInStep(k)'
      BY <1>1, <1>2, <2>1 DEF ClientInStep
    <2>3. CoreStream(k)'
      BY <1>1, <1>3, OrderedEmpty DEF CoreStream
    <2>4. QED
      BY <2>2, <2>3
  <1>5. CASE bconn # k
    <2>1. toBridge' = toBridge
      BY <1>1, <1>5 DEF ToBridgeWith, Up
    <2>2. QED
      BY <1>1, <1>4, <1>5, <2>1, OtherSlot
  <1>6. CASE bconn = k
    <2>1. /\ UNCHANGED <<sched, toDev, fromDev, bpc, bconn, batch, replaying, rpc, receipt, inflight,
                         signalled, forwarding, deferred>>
          /\ bconn # 0
      BY <1>1, <1>6, DeliveryConstants DEF devVars, mainVars, readerVars, eventVars, fwdVars
    <2>2. Unconfirmed /\ ~ReaderBusy /\ ~ReceiptUnderway /\ cpend[k] = Head(batch)
      BY <1>1, <1>6, <2>1 DEF DeliveryInStep
    <2> DEFINE f == Receipt(Head(batch))
    <2>3. f.type = "RECEIPT" /\ Rank(f) = 2
      BY DEF Receipt, Rank
    <2>4. toBridge \in [Slots -> Seq(Frames)] /\ f \in Frames /\ toBridge[k] \in Seq(Frames)
      <3>1. cpend[k] \in AnyRecord
        BY DEF ClientTypes
      <3>2. QED
        BY <2>2, <3>1, MadeFrames DEF WireTypes
    <2> HIDE DEF f
    <2>5. \A g \in InTransit(toBridge[k]) : g.type = "CMD" /\ Rank(g) = 1
      BY <1>6, <2>1, <2>2 DEF BridgeStream, ReceiptUnderway, Rank
    <2>6. /\ \A j \in Slots : j # k => toBridge'[j] = toBridge[j]
          /\ Up(k) => toBridge'[k] = Append(toBridge[k], f)
          /\ ~Up(k) => toBridge'[k] = toBridge[k]
      BY <1>1, <2>2, <2>4 DEF ToBridgeWith, f
    <2>7. /\ Up(k) => InTransit(toBridge'[k]) = InTransit(toBridge[k]) \cup {f}
          /\ ~Up(k) => InTransit(toBridge'[k]) = InTransit(toBridge[k])
      <3>1. InTransit(Append(toBridge[k], f)) = InTransit(toBridge[k]) \cup {f}
        BY <2>4, TransitAppend
      <3>2. QED
        BY <2>6, <3>1
    <2>8. Ordered(toBridge'[k])
      <3>1. Ordered(toBridge[k])
        BY <1>6, <2>1 DEF BridgeStream
      <3>2. Ordered(Append(toBridge[k], f))
        BY <2>3, <2>4, <2>5, <3>1, OrderedAppend
      <3>3. QED
        BY <2>6, <3>1, <3>2
    <2>9. BridgeStream'
      BY <1>6, <2>1, <2>3, <2>5, <2>6, <2>7, <2>8 DEF BridgeStream
    <2>10. SessionIsOver' /\ DeviceAnswers' /\ SpoolOrder' /\ BatchOrder'
      BY <1>1, CoreSideOnly
    <2>11. \A j \in Slots : ClientInStep(j)' /\ CoreStream(j)'
      BY <1>1, <1>4, ClientUntouched
    <2>12. {g \in InTransit(toBridge'[k]) : g.type = "CMD"}
             = {g \in InTransit(toBridge[k]) : g.type = "CMD"}
      BY <2>3, <2>7
    <2>13. Underway' = Underway
      BY <1>6, <2>1, <2>12 DEF Underway
    <2>14. OneCommand'
      BY <1>1, <1>6, <2>1, <2>3, <2>7 DEF OneCommand, AtBridge, AtPort, AtCore
    <2>15. CommandIsAwaited' /\ HelloFirst'
      BY <1>1, <1>2, <1>6, <2>1, <2>13 DEF CommandIsAwaited, HelloFirst, Awaiting
    <2>16. ReplayFirst'
      BY <1>1, <1>2, <1>6, <2>1 DEF ReplayFirst, Starting
    <2>17. DeliveryInStep'
      <3>1. Unconfirmed' /\ ~ReaderBusy' /\ cpend'[k] = Head(batch) /\ Head(batch') = Head(batch)
        BY <1>1, <2>1, <2>2 DEF Unconfirmed, ReaderBusy
      <3>2. Up(k) => ReceiptUnderway'
        BY <1>6, <2>1, <2>3, <2>7 DEF ReceiptUnderway
      <3>3. Up(k)' => Up(k)
        BY <1>1, <2>1 DEF Up
      <3>4. \A g \in InTransit(toBridge'[k]) : g.type = "RECEIPT" => g = Receipt(Head(batch'))
        BY <2>5, <2>7, <3>1 DEF f
      <3>5. /\ rpc' # "error" /\ rpc' \notin {"mark", "respond"}
            /\ inflight' = (IF bpc' = "wait" THEN {Head(batch').rec} ELSE {})
            /\ signalled' \subseteq inflight'
        BY <2>1, <2>2 DEF DeliveryInStep, ReaderBusy
      <3>6. QED
        BY <1>1, <1>3, <1>6, <2>1, <3>1, <3>2, <3>3, <3>4, <3>5 DEF DeliveryInStep
    <2>18. QED
      BY <2>9, <2>10, <2>11, <2>14, <2>15, <2>16, <2>17
  <1>7. QED
    BY <1>5, <1>6

\* The commit response is read; the client goes on where it was.
LEMMA ConfirmFrames ==
    ASSUME FrameInv, NEW k \in Slots, Confirmed(k)
    PROVE  FrameRest'
  <1> DEFINE h == Head(toCore[k])
  <1>1. /\ UNCHANGED <<devVars, spoolVars, bridgeVars, toBridge, broken, ccmd, cret>>
        /\ cpc[k] = "confirm" /\ toCore[k] # <<>> /\ toCore' = [toCore EXCEPT ![k] = Tail(@)]
        /\ cpc' = [cpc EXCEPT ![k] = IF h = CommitAck(cpend[k]) THEN cret[k] ELSE "stuck"]
        /\ cpend' = [cpend EXCEPT ![k] = NoRecord]
    BY DEF Confirmed, Receive
  <1>2. /\ InTransit(toCore[k]) = {h} \cup InTransit(toCore'[k]) /\ Ordered(toCore'[k])
        /\ \A f \in InTransit(toCore'[k]) : Rank(h) < Rank(f)
        /\ \A j \in Slots : j # k => toCore'[j] = toCore[j]
    BY <1>1, StreamRead
  <1>3. h.type = "COMMITTED" /\ h = CommitAck(cpend[k])
    BY <1>1, <1>2 DEF CoreStream
  <1> HIDE DEF h
  <1>4. /\ cpc'[k] = cret[k] /\ cpend'[k] = NoRecord
        /\ \A j \in Slots : j # k => cpc'[j] = cpc[j] /\ cpend'[j] = cpend[j]
        /\ \A j \in Slots : ccmd'[j] = ccmd[j] /\ cret'[j] = cret[j]
        /\ cret[k] \in ReturnPcs /\ bconn \in Slots \cup {0}
    BY <1>1, <1>3 DEF ClientTypes, MainTypes
  <1>5. /\ cret[k] \notin Holding /\ Stage(k) = cret[k] /\ Stage(k)' = cret[k]
        /\ cret[k] \notin {"stuck", "backlog", "ready", "declined"}
    BY <1>1, <1>4 DEF Holding, Stage, ReturnPcs
  <1>6. \A f \in InTransit(toCore'[k]) : f \in InTransit(toCore[k]) /\ f.type # "COMMITTED"
    BY <1>2, <1>3 DEF Rank
  <1>7. ClientInStep(k)' /\ CoreStream(k)'
    <2>1. ClientInStep(k) /\ CoreStream(k)
      OBVIOUS
    <2>2. ClientInStep(k)'
      BY <1>4, <1>5, <2>1 DEF ClientInStep
    <2>3. cpc'[k] \notin {"accepted", "committed", "confirm", "declined"} /\ (Awaiting(k)' <=> Awaiting(k))
      BY <1>4, <1>5 DEF Awaiting, Holding
    <2>4. cpc[k] # "free"
      BY <1>1
    <2> HIDE DEF FrameInv, FrameRest
    <2>5. CoreStream(k)'
      BY <1>2, <1>4, <1>6, <2>1, <2>3, <2>4 DEF CoreStream
    <2>6. QED
      BY <2>2, <2>5
  <1>8. CASE bconn # k
    BY <1>1, <1>2, <1>4, <1>7, <1>8, OtherSlot
  <1>9. CASE bconn = k
    <2>1. /\ UNCHANGED <<sched, toDev, fromDev, bpc, bconn, batch, replaying, rpc, receipt, inflight,
                         signalled, forwarding, deferred, toBridge, broken>>
          /\ bconn # 0
      BY <1>1, <1>9, DeliveryConstants DEF devVars, mainVars, readerVars, eventVars, fwdVars
    <2>2. SessionIsOver' /\ DeviceAnswers' /\ SpoolOrder' /\ BatchOrder' /\ BridgeStream'
      BY <1>1, <2>1, CoreSideOnly, SessionUntouched
    <2>3. \A j \in Slots : ClientInStep(j)' /\ CoreStream(j)'
      BY <1>2, <1>4, <1>7, ClientUntouched
    <2>4. Underway' = Underway
      BY <2>1, CommandUntouched
    <2>5. OneCommand'
      BY <1>6, <1>9, <2>1 DEF OneCommand, AtBridge, AtPort, AtCore
    <2>6. CommandIsAwaited' /\ HelloFirst'
      BY <1>1, <1>4, <1>5, <1>9, <2>1, <2>4 DEF CommandIsAwaited, HelloFirst, Awaiting
    <2>7. ReplayFirst'
      BY <1>4, <1>5, <1>6, <1>9, <2>1 DEF ReplayFirst, Starting
    <2>8. DeliveryInStep'
      <3>1. ~ReceiptUnderway /\ rpc \notin {"mark", "respond"}
        BY <1>1, <1>9, <2>1 DEF DeliveryInStep
      <3>2. cpc'[k] \notin {"accepted", "committed", "confirm", "declined"}
        BY <1>4, <1>5 DEF Holding
      <3>3. QED
        BY <1>6, <1>9, <2>1, <3>1, <3>2
           DEF DeliveryInStep, Unconfirmed, ReaderBusy, ReceiptUnderway, Up
    <2>9. QED
      BY <2>2, <2>3, <2>5, <2>6, <2>7, <2>8
  <1>10. QED
    BY <1>8, <1>9

\* What the application does without its client touches no stream.
LEMMA BookkeepingFrames ==
    ASSUME FrameInv, Bookkeeping
    PROVE  FrameRest'
  <1>1. UNCHANGED <<devVars, spoolVars, bridgeVars, wireVars, clientVars>>
    BY DEF Bookkeeping, Register, RunFails, SessionFails, StartCleanup
  <1>2. QED
    BY <1>1, ClientsGo DEF wireVars, clientVars

-----------------------------------------------------------------------------
(* The spool. *)

\* The record under delivery is known to the spool, and no older one is
\* pending.
LEMMA HeadIsOldest ==
    ASSUME FrameInv, batch # <<>>
    PROVE  /\ Head(batch) = batch[1] /\ 1 \in 1 .. Len(batch) /\ batch[1] \in Records
           /\ batch[1].rec <= lastRec
           /\ \A r \in pending : r.rec <= batch[1].rec => r = batch[1]
           /\ \A r \in pending : /\ batch[1].rec <= r.rec
                                 /\ batch[1].rec = r.rec => batch[1] = r
           /\ KnownToSpool(batch[1])
  <1>1. batch \in Seq(Records) /\ Head(batch) = batch[1] /\ 1 \in 1 .. Len(batch)
        /\ batch[1] \in Records
    BY DEF MainTypes
  <1>2. batch[1].rec \in Nat /\ \A r \in pending : r.rec \in Nat
    BY <1>1 DEF Records, SpoolTypes
  <1>3. \A r \in pending : r.rec <= batch[1].rec => r = batch[1]
    <2>1. \A r \in pending : r.rec <= batch[1].rec => \E j \in 1 .. 1 : r = batch[j]
      BY <1>1 DEF BatchOrder
    <2>2. \A j \in 1 .. 1 : j = 1
      OBVIOUS
    <2>3. QED
      BY <2>1, <2>2
  <1>4. \A r \in pending : /\ batch[1].rec <= r.rec
                           /\ batch[1].rec = r.rec => batch[1] = r
    BY <1>2, <1>3
  <1>5. batch[1] \in pending \/ batch[1] \in tombs
    BY DEF BatchOrder
  <1>6. batch[1].rec <= lastRec
    BY <1>5 DEF SpoolOrder
  <1>7. KnownToSpool(batch[1])
    <2>1. batch[1] \in tombs => ~ \E q \in pending : q.rec = batch[1].rec
      BY <1>2 DEF SpoolOrder
    <2>2. QED
      BY <1>5, <2>1 DEF KnownToSpool
  <1>8. QED
    BY <1>1, <1>3, <1>4, <1>6, <1>7

\* The oldest pending record becomes the newest tombstone, which is not pruned.
LEMMA OldestMarked ==
    ASSUME FrameInv, NEW r \in pending, \A q \in pending : r.rec <= q.rec, MarkCommitted(r),
           zombies' \subseteq zombies
    PROVE  /\ pending' = pending \ {r} /\ r \in tombs' /\ \A t \in tombs' : t.rec <= r.rec
           /\ SpoolOrder'
  <1>1. /\ pending' = pending \ {r} /\ tombs' = Pruned(tombs \cup {r}) /\ UNCHANGED lastRec
    BY DEF MarkCommitted
  <1>2. tombs' \subseteq tombs \cup {r}
    BY <1>1 DEF Pruned
  <1>3. /\ \A q \in pending : q.rec \in Nat
        /\ \A t \in tombs : t.rec \in Nat
        /\ \A z \in zombies : z.rec \in Nat
        /\ lastRec \in Nat
    BY DEF SpoolTypes, Records, ReaderTypes, AnyRecord
  <1>4. \A t \in tombs : t.rec < r.rec
    BY DEF SpoolOrder
  <1>5. {u \in tombs \cup {r} : u.rec > r.rec} = {}
    BY <1>3, <1>4
  <1>6. Cardinality({u \in tombs \cup {r} : u.rec > r.rec}) < TombLimit
    BY <1>5, FS_EmptySet, DeliveryConstants
  <1>7. r \in tombs'
    BY <1>1, <1>6 DEF Pruned
  <1>8. \A t \in tombs' : t.rec <= r.rec
    BY <1>2, <1>3, <1>4
  <1>9. \A q \in pending' : q \in pending /\ r.rec < q.rec
    BY <1>1, <1>3 DEF SpoolOrder
  <1>10. SpoolOrder'
    <2>1. \A q \in pending' : q.rec <= lastRec
      BY <1>9 DEF SpoolOrder
    <2>2. \A q, p \in pending' : q.rec = p.rec => q = p
      BY <1>9 DEF SpoolOrder
    <2>3. \A t \in tombs' : t.rec <= lastRec /\ \A q \in pending' : t.rec < q.rec
      BY <1>2, <1>9 DEF SpoolOrder
    <2>4. \A z \in zombies' : /\ z.rec <= lastRec
                              /\ \A q \in pending' : z.rec <= q.rec /\ (z.rec = q.rec => z = q)
      BY <1>9 DEF SpoolOrder
    <2>5. QED
      BY <1>1, <2>1, <2>2, <2>3, <2>4 DEF SpoolOrder
  <1>11. QED
    BY <1>1, <1>7, <1>8, <1>10

\* The batch after its first record was marked, by whichever reader thread.
LEMMA HeadMarked ==
    ASSUME FrameInv, batch # <<>>, UNCHANGED <<batch, bpc, signalled, forwarding>>,
           zombies' \subseteq zombies, pending' = pending \ {batch[1]}, batch[1] \in tombs',
           \A t \in tombs' : t.rec <= batch[1].rec
    PROVE  BatchOrder'
  <1>1. /\ 1 \in 1 .. Len(batch) /\ \A i \in 1 .. Len(batch) : batch[i].rec \in Nat
        /\ pending' \subseteq pending
    <2>1. batch \in Seq(Records)
      BY DEF MainTypes
    <2>2. 1 \in 1 .. Len(batch) /\ \A i \in 1 .. Len(batch) : batch[i] \in Records
      BY <2>1
    <2>3. QED
      BY <2>2 DEF Records
  <1>2. /\ \A i, j \in 1 .. Len(batch) : i < j => batch[i].rec < batch[j].rec
        /\ \A i \in 1 .. Len(batch) : i > 1 => batch[i] \in pending
    BY DEF BatchOrder
  <1>3. \A i \in 1 .. Len(batch) : i > 1 => batch[i] # batch[1]
    BY <1>1, <1>2
  <1>4. \A i \in 1 .. Len(batch) : i > 1 => batch[i] \in pending'
    BY <1>2, <1>3
  <1>5. \A z \in zombies' : z.rec <= batch[1].rec
    BY DEF BatchOrder
  <1>6. \A i \in 1 .. Len(batch) : \A r \in pending' :
          r.rec <= batch[i].rec => \E j \in 1 .. i : r = batch[j]
    BY <1>1 DEF BatchOrder
  <1>7. /\ bpc \notin {"deliver", "wait"} => batch = <<>>
        /\ forwarding => Len(batch) <= 1 /\ pending' \subseteq InTransit(batch)
    BY <1>1 DEF BatchOrder
  <1>8. batch[1] \notin pending'
    OBVIOUS
  <1> HIDE DEF FrameInv
  <1>9. QED
    BY <1>2, <1>4, <1>5, <1>6, <1>7, <1>8 DEF BatchOrder

-----------------------------------------------------------------------------
(* Bridge, begin and end of a session. *)

\* The end of a session leaves nothing of it but what a client may still read
\* and the receipt a reader thread may still work on, of the oldest record.
LEMMA EndFrames ==
    ASSUME FrameInv, CommitTimeout \/ Stopped \/ SerialLost \/ BridgeCrash
    PROVE  FrameRest'
  <1>1. bconn \in Slots /\ bconn # 0
    BY DEF CommitTimeout, Stopped, SerialLost, BridgeCrash, SessionHasConnection, MainTypes
  <1>2. PICK pc \in {"down", "dead"}, survivors \in {Survivors, {}} : EndSession(pc, survivors)
    BY DEF CommitTimeout, Stopped, SerialLost, BridgeCrash
  <1>3. /\ bpc' = pc /\ bconn' = 0 /\ batch' = <<>> /\ inflight' = {} /\ signalled' = {}
        /\ deferred' = <<>> /\ rpc' = "off" /\ toDev' = <<>> /\ fromDev' = <<>>
        /\ zombies' = survivors
        /\ toCore' \in {toCore, [toCore EXCEPT ![bconn] = <<>>]}
        /\ toBridge' = [toBridge EXCEPT ![bconn] = <<>>]
        /\ UNCHANGED <<pending, tombs, lastRec, cpc, ccmd, cret, cpend>>
    BY <1>2 DEF EndSession, spoolVars, clientVars
  <1>4. ~replaying' /\ ~forwarding' /\ ~sched'
    BY <1>2 DEF EndSession
  <1>5. InTransit(<<>>) = {} /\ Len(<<>>) = 0
    BY DEF InTransit
  <1>6. SessionIsOver' /\ DeviceAnswers'
    BY <1>3, <1>4, <1>5 DEF SessionIsOver, DeviceAnswers
  <1>7. BridgeStream'
    BY <1>1, <1>3 DEF BridgeStream, WireTypes
  <1>8. ASSUME NEW k \in Slots
        PROVE  ClientInStep(k)' /\ CoreStream(k)'
    <2>1. ClientInStep(k) /\ CoreStream(k)
      OBVIOUS
    <2>2. ClientInStep(k)'
      BY <1>3, <2>1, ClientUntouched
    <2>3. toCore'[k] = toCore[k] \/ toCore'[k] = <<>>
      BY <1>3 DEF WireTypes
    <2>4. CASE toCore'[k] = toCore[k]
      BY <1>3, <2>1, <2>2, <2>4, ClientUntouched
    <2>5. CASE toCore'[k] = <<>>
      BY <1>5, <2>2, <2>5, OrderedEmpty DEF CoreStream
    <2>6. QED
      BY <2>3, <2>4, <2>5
  <1>9. OneCommand' /\ Underway' = {}
    BY <1>3, <1>5 DEF OneCommand, AtBridge, AtPort, AtCore, Underway
  <1>10. CommandIsAwaited' /\ HelloFirst' /\ ReplayFirst'
    BY <1>3, <1>4, <1>5, <1>9 DEF CommandIsAwaited, HelloFirst, ReplayFirst
  <1>11. DeliveryInStep'
    BY <1>3 DEF DeliveryInStep, ReaderBusy
  <1>12. SpoolOrder'
    <2>1. rpc = "mark" => /\ receipt.rec <= lastRec
                          /\ \A r \in pending : receipt.rec <= r.rec /\ (receipt.rec = r.rec => receipt = r)
      <3>1. rpc = "mark" => Unconfirmed /\ receipt = Head(batch)
        BY DEF DeliveryInStep, ReaderBusy
      <3>2. rpc = "mark" => batch # <<>>
        BY <3>1 DEF Unconfirmed, SessionHasConnection
      <3>3. QED
        BY <3>1, <3>2, HeadIsOldest
    <2>2. \A z \in zombies' : z \in zombies \/ (rpc = "mark" /\ z = receipt)
      BY <1>3 DEF Survivors
    <2>3. QED
      BY <1>3, <2>1, <2>2 DEF SpoolOrder
  <1>13. BatchOrder'
    BY <1>3, <1>4, <1>5 DEF BatchOrder
  <1>14. QED
    BY <1>6, <1>7, <1>8, <1>9, <1>10, <1>11, <1>12, <1>13

\* A new session begins on an empty connection.
LEMMA OpenFrames ==
    ASSUME FrameInv, NEW k \in Slots, Open(k)
    PROVE  FrameRest'
  <1>1. /\ bpc = "down" /\ cpc[k] = "free" /\ bpc' = "serving" /\ bconn' = k /\ rpc' = "reading"
        /\ toCore' = [toCore EXCEPT ![k] = <<>>] /\ toBridge' = [toBridge EXCEPT ![k] = <<>>]
        /\ cpc' = [cpc EXCEPT ![k] = "backlog"]
        /\ UNCHANGED <<sched, toDev, fromDev, pending, tombs, lastRec, batch, replaying, zombies,
                       inflight, signalled, forwarding, deferred, ccmd, cret, cpend>>
    BY DEF Open, devVars, spoolVars, eventVars, fwdVars
  <1>2. bconn = 0 /\ k # 0
    BY <1>1, DeliveryConstants DEF SessionIsOver
  <1>3. /\ batch = <<>> /\ ~replaying /\ ~forwarding /\ ~sched
        /\ deferred = <<>> /\ toDev = <<>> /\ fromDev = <<>>
    BY <1>2 DEF SessionIsOver
  <1>4. InTransit(<<>>) = {} /\ Len(<<>>) = 0
    BY DEF InTransit
  <1>5. /\ toCore'[k] = <<>> /\ toBridge'[k] = <<>> /\ cpc'[k] = "backlog"
        /\ \A j \in Slots : j # k => toCore'[j] = toCore[j] /\ toBridge'[j] = toBridge[j]
                                     /\ cpc'[j] = cpc[j]
    BY <1>1 DEF WireTypes, ClientTypes
  <1>6. SessionIsOver' /\ DeviceAnswers' /\ SpoolOrder'
    BY <1>1, <1>2, <1>3, <1>4 DEF SessionIsOver, DeviceAnswers, SpoolOrder
  <1>7. BridgeStream'
    <2>1. \A j \in Slots : j # bconn
      BY <1>2, DeliveryConstants
    <2>2. QED
      BY <1>1, <1>4, <1>5, <2>1, OrderedEmpty DEF BridgeStream
  <1>8. ASSUME NEW j \in Slots
        PROVE  ClientInStep(j)' /\ CoreStream(j)'
    <2>1. CASE j # k
      BY <1>1, <1>5, <2>1, ClientUntouched
    <2>2. CASE j = k
      <3>1. ClientInStep(k)
        OBVIOUS
      <3>2. ClientInStep(k)'
        BY <1>1, <1>5, <3>1 DEF ClientInStep, Stage, Holding
      <3>3. CoreStream(k)'
        BY <1>4, <1>5, OrderedEmpty DEF CoreStream
      <3>4. QED
        BY <2>2, <3>2, <3>3
    <2>3. QED
      BY <2>1, <2>2
  <1>9. OneCommand' /\ Underway' = {}
    BY <1>1, <1>3, <1>4, <1>5 DEF OneCommand, AtBridge, AtPort, AtCore, Underway
  <1>10. CommandIsAwaited' /\ HelloFirst' /\ ReplayFirst'
    BY <1>1, <1>3, <1>4, <1>5, <1>9 DEF CommandIsAwaited, HelloFirst, ReplayFirst
  <1>11. DeliveryInStep'
    <2>1. inflight = {} /\ signalled = {}
      BY <1>1 DEF DeliveryInStep
    <2>2. ~ReceiptUnderway'
      BY <1>1, <1>4, <1>5 DEF ReceiptUnderway
    <2>3. QED
      BY <1>1, <1>4, <1>5, <2>1, <2>2 DEF DeliveryInStep, ReaderBusy
  <1>12. BatchOrder'
    BY <1>1, <1>3, <1>4 DEF BatchOrder
  <1>13. QED
    BY <1>6, <1>7, <1>8, <1>9, <1>10, <1>11, <1>12

-----------------------------------------------------------------------------
(* Bridge, reader thread. *)

\* A step of the reader threads that leaves the serial port, the streams and
\* the main thread alone concerns the delivery and the spool only.
LEMMA ReaderOnly ==
    ASSUME FrameInv,
           UNCHANGED <<devVars, mainVars, inflight, fwdVars, wireVars, clientVars>>,
           rpc # "off", DeliveryInStep', SpoolOrder', BatchOrder'
    PROVE  FrameRest'
  <1>1. /\ UNCHANGED <<sched, toDev, fromDev, bpc, bconn, batch, replaying, forwarding, deferred,
                       toCore, toBridge, broken, cpc, ccmd, cret, cpend>>
    BY DEF devVars, mainVars, fwdVars, wireVars, clientVars
  <1>2. bconn # 0
    BY DEF SessionHasConnection
  <1>3. SessionIsOver'
    BY <1>1, <1>2 DEF SessionIsOver
  <1>4. DeviceAnswers' /\ BridgeStream'
    BY <1>1, SessionUntouched
  <1>5. \A k \in Slots : ClientInStep(k)' /\ CoreStream(k)'
    BY <1>1, ClientUntouched
  <1>6. OneCommand' /\ UNCHANGED Underway
    BY <1>1, CommandUntouched
  <1>7. CommandIsAwaited' /\ HelloFirst' /\ ReplayFirst'
    BY <1>1, <1>6, CommandUntouched
  <1>8. QED
    BY <1>3, <1>4, <1>5, <1>6, <1>7

\* The reader thread marks the record under delivery.
LEMMA MarkFrames ==
    ASSUME FrameInv, Mark
    PROVE  FrameRest'
  <1>1. /\ rpc = "mark"
        /\ UNCHANGED <<devVars, mainVars, inflight, fwdVars, wireVars, clientVars>>
        /\ UNCHANGED <<receipt, zombies, signalled, bpc, batch, bconn, forwarding, toBridge, toCore,
                       broken, cpc, cpend>>
    BY DEF Mark, mainVars, eventVars, fwdVars, wireVars, clientVars
  <1>2. Unconfirmed /\ receipt = Head(batch) /\ batch # <<>>
    BY <1>1 DEF DeliveryInStep, ReaderBusy, Unconfirmed, SessionHasConnection
  <1>3. receipt = batch[1] /\ KnownToSpool(receipt)
    BY <1>2, HeadIsOldest
  <1>4. MarkCommitted(receipt) /\ rpc' = "respond"
    BY <1>3 DEF Mark
  <1>5. DeliveryInStep'
    BY <1>1, <1>4 DEF DeliveryInStep, ReaderBusy, Unconfirmed, ReceiptUnderway, Up
  <1>6. SpoolOrder' /\ BatchOrder'
    <2>1. CASE receipt \in pending
      <3>1. \A q \in pending : receipt.rec <= q.rec
        BY <1>2, <1>3, HeadIsOldest
      <3>2. /\ pending' = pending \ {receipt} /\ receipt \in tombs'
            /\ \A t \in tombs' : t.rec <= receipt.rec /\ SpoolOrder'
        BY <1>1, <1>4, <2>1, <3>1, OldestMarked
      <3>3. SpoolOrder'
        BY <1>1, <1>4, <2>1, <3>1, OldestMarked
      <3>4. BatchOrder'
        BY <1>1, <1>2, <1>3, <3>2, HeadMarked
      <3>5. QED
        BY <3>3, <3>4
    <2>2. CASE receipt \notin pending
      <3>1. UNCHANGED <<pending, tombs, lastRec>>
        BY <1>4, <2>2 DEF MarkCommitted
      <3>2. SpoolOrder'
        BY <1>1, <3>1, SessionUntouched
      <3>3. BatchOrder'
        BY <1>1, <1>2, <1>3, <2>2, <3>1 DEF BatchOrder
      <3>4. QED
        BY <3>2, <3>3
    <2>3. QED
      BY <2>1, <2>2
  <1>7. QED
    BY <1>1, <1>5, <1>6, ReaderOnly

\* A reader that outlived its session marks the oldest record, which may be the
\* one under delivery.
LEMMA ZombieFrames ==
    ASSUME FrameInv, NEW z \in zombies, ZombieMark(z)
    PROVE  FrameRest'
  <1>1. /\ UNCHANGED <<devVars, mainVars, eventVars, fwdVars, wireVars, clientVars>>
        /\ UNCHANGED <<rpc, receipt, inflight, signalled, bpc, batch, bconn, forwarding, toBridge,
                       toCore, broken, cpc, cpend, sched, toDev, fromDev, replaying, deferred,
                       ccmd, cret>>
        /\ zombies' \subseteq zombies
    BY DEF ZombieMark, devVars, mainVars, eventVars, fwdVars, wireVars, clientVars
  <1>2. SpoolOrder' /\ BatchOrder'
    <2>1. CASE z \in pending
      <3>1. MarkCommitted(z)
        BY <2>1 DEF ZombieMark, KnownToSpool
      <3>2. \A q \in pending : z.rec <= q.rec
        BY DEF SpoolOrder
      <3>3. pending' = pending \ {z} /\ z \in tombs' /\ \A t \in tombs' : t.rec <= z.rec
        BY <1>1, <2>1, <3>1, <3>2, OldestMarked
      <3>4. SpoolOrder'
        BY <1>1, <2>1, <3>1, <3>2, OldestMarked
      <3>5. CASE batch = <<>>
        <4>1. pending' \subseteq pending /\ Len(batch) = 0
          BY <3>3, <3>5
        <4>2. BatchOrder'
          BY <1>1, <3>5, <4>1 DEF BatchOrder
        <4>3. QED
          BY <3>4, <4>2
      <3>6. CASE batch # <<>>
        <4>1. z.rec <= batch[1].rec
          BY <3>6 DEF BatchOrder
        <4>2. z = batch[1]
          BY <2>1, <3>6, <4>1, HeadIsOldest
        <4>3. BatchOrder'
          BY <1>1, <3>3, <3>6, <4>2, HeadMarked
        <4>4. QED
          BY <3>4, <4>3
      <3>7. QED
        BY <3>4, <3>5, <3>6
    <2>2. CASE z \notin pending
      <3>1. UNCHANGED <<pending, tombs, lastRec>>
        BY <2>2 DEF ZombieMark, MarkCommitted, spoolVars
      <3>2. SpoolOrder'
        BY <1>1, <3>1 DEF SpoolOrder
      <3>3. BatchOrder'
        BY <1>1, <3>1 DEF BatchOrder
      <3>4. QED
        BY <3>2, <3>3
    <2>3. QED
      BY <2>1, <2>2
  <1>3. SessionIsOver' /\ DeviceAnswers' /\ BridgeStream'
    BY <1>1, SessionUntouched
  <1>4. \A k \in Slots : ClientInStep(k)' /\ CoreStream(k)'
    BY <1>1, ClientUntouched
  <1>5. OneCommand' /\ UNCHANGED Underway
    BY <1>1, CommandUntouched
  <1>6. CommandIsAwaited' /\ HelloFirst' /\ ReplayFirst' /\ DeliveryInStep'
    BY <1>1, <1>5, CommandUntouched
  <1>7. QED
    BY <1>2, <1>3, <1>4, <1>5, <1>6

\* The event of the delivery is set, or the reader notices that the core is gone.
LEMMA SignalFrames ==
    ASSUME FrameInv, Signal \/ ReadEof
    PROVE  FrameRest'
  <1>1. /\ UNCHANGED <<devVars, mainVars, inflight, fwdVars, wireVars, clientVars>>
        /\ UNCHANGED <<pending, tombs, lastRec, zombies, bpc, batch, bconn, forwarding, toBridge,
                       toCore, broken, cpc, cpend>>
    BY DEF Signal, ReadEof, spoolVars, mainVars, eventVars, fwdVars, wireVars, clientVars
  <1>2. SpoolOrder'
    BY <1>1, SessionUntouched
  <1>3. CASE ReadEof
    <2>1. rpc = "reading" /\ rpc' = "off" /\ UNCHANGED <<signalled, receipt>>
      BY <1>3 DEF ReadEof, ReaderFails, eventVars
    <2>2. DeliveryInStep'
      BY <1>1, <2>1 DEF DeliveryInStep, ReaderBusy, Unconfirmed, ReceiptUnderway, Up
    <2>3. BatchOrder'
      BY <1>1, <2>1 DEF BatchOrder
    <2>4. QED
      BY <1>1, <1>2, <2>1, <2>2, <2>3, ReaderOnly
  <1>4. CASE Signal
    <2>1. /\ rpc = "signal" /\ Unconfirmed /\ receipt = Head(batch) /\ bpc = "wait"
          /\ inflight = {Head(batch).rec} /\ signalled \subseteq inflight
      BY <1>4 DEF Signal, DeliveryInStep, ReaderBusy, Unconfirmed
    <2>2. rpc' = "reading" /\ signalled' = signalled \cup {Head(batch).rec}
      BY <1>4, <2>1 DEF Signal
    <2>3. batch # <<>> /\ Head(batch) = batch[1] /\ batch[1] \notin pending
      <3>1. batch # <<>>
        BY <2>1 DEF SessionHasConnection
      <3>2. QED
        BY <2>1, <3>1, HeadIsOldest DEF BatchOrder
    <2>4. BatchOrder'
      BY <1>1, <2>2, <2>3 DEF BatchOrder
    <2>5. ReaderBusy /\ ~ReaderBusy' /\ inflight' = inflight
      BY <1>1, <2>1, <2>2 DEF ReaderBusy
    <2>6. ReceiptUnderway' = ReceiptUnderway /\ (Up(bconn)' <=> Up(bconn))
      BY <1>1 DEF ReceiptUnderway, Up
    <2>7. DeliveryInStep'
      BY <1>1, <2>1, <2>2, <2>5, <2>6 DEF DeliveryInStep
    <2>8. QED
      BY <1>1, <1>2, <2>1, <2>4, <2>7, ReaderOnly
  <1>5. QED
    BY <1>3, <1>4

\* What writing a frame does to the stream of the session's client.
LEMMA StreamWritten ==
    ASSUME FrameInv, bconn # 0, NEW f \in Frames, toCore' = ToCoreWith(bconn, f)
    PROVE  /\ \A j \in Slots : j # bconn => toCore'[j] = toCore[j]
           /\ ~Up(bconn) => toCore' = toCore
           /\ Up(bconn) =>
                /\ InTransit(toCore'[bconn]) = InTransit(toCore[bconn]) \cup {f}
                /\ toCore'[bconn] # <<>>
                /\ toCore[bconn] # <<>> => Head(toCore'[bconn]) = Head(toCore[bconn])
                /\ toCore[bconn] = <<>> => Head(toCore'[bconn]) = f
                /\ (\A g \in InTransit(toCore[bconn]) : Rank(g) < Rank(f)) => Ordered(toCore'[bconn])
  <1>1. toCore \in [Slots -> Seq(Frames)] /\ bconn \in Slots /\ toCore[bconn] \in Seq(Frames)
    BY DEF WireTypes, MainTypes
  <1> DEFINE s == toCore[bconn]
             a == Append(s, f)
  <1>2. CASE ~Up(bconn)
    BY <1>2 DEF ToCoreWith
  <1>3. CASE Up(bconn)
    <2>1. toCore' = [toCore EXCEPT ![bconn] = a]
      BY <1>3 DEF ToCoreWith
    <2>2. toCore'[bconn] = a /\ \A j \in Slots : j # bconn => toCore'[j] = toCore[j]
      BY <1>1, <2>1
    <2>3. InTransit(a) = InTransit(s) \cup {f}
      BY <1>1, TransitAppend
    <2>4. Ordered(s)
      BY <1>1 DEF CoreStream
    <2>5. (\A g \in InTransit(s) : Rank(g) < Rank(f)) => Ordered(a)
      BY <1>1, <2>4, OrderedAppend
    <2>6. /\ a # <<>>
          /\ s # <<>> => Head(a) = Head(s)
          /\ s = <<>> => Head(a) = f
      <3>1. /\ a \in Seq(Frames) /\ Len(a) = Len(s) + 1 /\ Len(s) \in Nat
            /\ a[Len(s) + 1] = f /\ \A i \in 1 .. Len(s) : a[i] = s[i]
        BY <1>1
      <3>2. (s = <<>> => Len(s) = 0) /\ (s # <<>> => 1 \in 1 .. Len(s) /\ Head(s) = s[1])
        BY <1>1
      <3> HIDE DEF a, s
      <3>3. a # <<>> /\ Head(a) = a[1]
        BY <3>1
      <3>4. QED
        BY <3>1, <3>2, <3>3
    <2> HIDE DEF a
    <2>7. QED
      BY <1>3, <2>2, <2>3, <2>5, <2>6
  <1>4. QED
    BY <1>2, <1>3

\* The commit response is the first frame for a client that waits for it.
LEMMA RespondFrames ==
    ASSUME FrameInv, Respond
    PROVE  FrameRest'
  <1>1. /\ rpc = "respond" /\ rpc' \in {"signal", "off"}
        /\ UNCHANGED <<devVars, mainVars, inflight, fwdVars, clientVars, pending, tombs, lastRec>>
        /\ UNCHANGED <<receipt, zombies, signalled, bpc, batch, bconn, forwarding, toBridge, broken,
                       cpc, ccmd, cret, cpend, sched, toDev, fromDev, replaying, deferred>>
    BY DEF Respond, ReaderFails, devVars, spoolVars, mainVars, eventVars, fwdVars, clientVars
  <1>2. bconn # 0 /\ bconn \in Slots
    BY <1>1 DEF SessionHasConnection, MainTypes
  <1>3. Unconfirmed /\ receipt = Head(batch) /\ batch # <<>> /\ ~ReceiptUnderway
    BY <1>1, <1>2
       DEF DeliveryInStep, ReaderBusy, ReceiptUnderway, Unconfirmed, SessionHasConnection
  <1>4. SpoolOrder' /\ DeviceAnswers' /\ BridgeStream' /\ BatchOrder' /\ SessionIsOver'
    <2>1. SpoolOrder' /\ DeviceAnswers' /\ BridgeStream'
      BY <1>1, SessionUntouched
    <2>2. BatchOrder'
      BY <1>1 DEF BatchOrder
    <2>3. SessionIsOver'
      BY <1>1, <1>2 DEF SessionIsOver
    <2>4. QED
      BY <2>1, <2>2, <2>3
  <1>5. UNCHANGED Underway
    BY <1>1, CommandUntouched
  <1>6. CommandIsAwaited' /\ HelloFirst'
    BY <1>1, <1>5, CommandUntouched
  <1>7. CASE toCore' = toCore /\ ~Up(bconn)
    <2>1. \A k \in Slots : ClientInStep(k)' /\ CoreStream(k)'
      BY <1>1, <1>7, ClientUntouched
    <2>2. OneCommand' /\ ReplayFirst'
      BY <1>1, <1>7, CommandUntouched
    <2>3. DeliveryInStep'
      BY <1>1, <1>3, <1>7 DEF DeliveryInStep, ReaderBusy, Unconfirmed, ReceiptUnderway, Up
    <2>4. QED
      BY <1>4, <1>6, <2>1, <2>2, <2>3
  <1>8. CASE Up(bconn) /\ toCore' = ToCoreWith(bconn, CommitAck(receipt)) /\ rpc' = "signal"
    <2> DEFINE f == CommitAck(receipt)
    <2>1. f.type = "COMMITTED" /\ f \in Frames
      BY MadeFrames DEF CommitAck, ReaderTypes
    <2>2. cpc[bconn] = "confirm" /\ toCore[bconn] = <<>> /\ cpend[bconn] = receipt
      BY <1>1, <1>2, <1>3, <1>8 DEF DeliveryInStep, Up
    <2>3. InTransit(toCore[bconn]) = {}
      BY <2>2 DEF InTransit
    <2> HIDE DEF f
    <2>4. /\ \A j \in Slots : j # bconn => toCore'[j] = toCore[j]
          /\ InTransit(toCore'[bconn]) = {f} /\ toCore'[bconn] # <<>>
          /\ Head(toCore'[bconn]) = f /\ Ordered(toCore'[bconn])
      BY <1>2, <1>8, <2>1, <2>2, <2>3, StreamWritten DEF f
    <2>5. \A k \in Slots : ClientInStep(k)' /\ CoreStream(k)'
      <3>1. \A k \in Slots : ClientInStep(k)'
        BY <1>1, ClientUntouched
      <3>2. \A k \in Slots : k # bconn => CoreStream(k)'
        BY <1>1, <2>4, ClientUntouched
      <3>3. f = CommitAck(cpend[bconn])
        BY <2>2 DEF f
      <3>4. CoreStream(bconn)'
        BY <1>1, <2>1, <2>2, <2>4, <3>3 DEF CoreStream
      <3>5. QED
        BY <1>1, <3>1, <3>2, <3>4
    <2>6. OneCommand'
      BY <1>1, <1>2, <2>1, <2>4 DEF OneCommand, AtBridge, AtPort, AtCore
    <2>7. ReplayFirst'
      <3>1. Resp("CAPS").type = "RESP"
        BY DEF Resp
      <3>2. QED
        BY <1>1, <1>2, <2>1, <2>4, <3>1 DEF ReplayFirst, Starting, Stage
    <2>8. DeliveryInStep'
      <3>1. Unconfirmed' /\ ~ReceiptUnderway'
        BY <1>1, <1>3 DEF Unconfirmed, ReceiptUnderway
      <3>2. cpc'[bconn'] = "confirm" /\ toCore'[bconn'] # <<>> /\ receipt' = Head(batch')
        BY <1>1, <1>3, <2>2, <2>4
      <3>3. \A g \in InTransit(toCore'[bconn']) : g.type # "DELIVERY"
        BY <1>1, <2>1, <2>4
      <3>4. \A g \in InTransit(toBridge'[bconn']) : g.type # "RECEIPT"
        BY <1>1, <1>2, <1>3 DEF ReceiptUnderway
      <3>5. /\ inflight' = (IF bpc' = "wait" THEN {Head(batch').rec} ELSE {})
            /\ signalled' \subseteq inflight'
        BY <1>1 DEF DeliveryInStep
      <3>6. QED
        BY <1>8, <3>1, <3>2, <3>3, <3>4, <3>5 DEF DeliveryInStep
    <2>9. QED
      BY <1>4, <1>6, <2>5, <2>6, <2>7, <2>8
  <1>9. QED
    BY <1>7, <1>8 DEF Respond, ToCoreWith

\* What reading a frame does to the stream of the reader thread.
LEMMA BridgeRead ==
    ASSUME FrameInv, Read
    PROVE  /\ bconn # 0 /\ bconn \in Slots /\ Head(toBridge[bconn]) \in Frames
           /\ InTransit(toBridge[bconn]) = {Head(toBridge[bconn])} \cup InTransit(toBridge'[bconn])
           /\ \A f \in InTransit(toBridge'[bconn]) : Rank(Head(toBridge[bconn])) < Rank(f)
           /\ UNCHANGED bconn /\ BridgeStream'
  <1>1. /\ rpc = "reading" /\ toBridge[bconn] # <<>> /\ UNCHANGED bconn
        /\ toBridge' = [toBridge EXCEPT ![bconn] = Tail(@)]
    BY DEF Read, mainVars
  <1>2. bconn # 0 /\ bconn \in Slots
    BY <1>1 DEF SessionHasConnection, MainTypes
  <1>3. toBridge \in [Slots -> Seq(Frames)] /\ toBridge[bconn] \in Seq(Frames)
    BY <1>2 DEF WireTypes
  <1> DEFINE s == toBridge[bconn]
  <1>4. toBridge'[bconn] = Tail(s) /\ \A j \in Slots : j # bconn => toBridge'[j] = toBridge[j]
    BY <1>1, <1>2, <1>3
  <1>5. Ordered(s) /\ \A f \in InTransit(s) : f.type \in {"CMD", "RECEIPT"}
    BY <1>2 DEF BridgeStream
  <1>6. InTransit(s) = {Head(s)} \cup InTransit(Tail(s)) /\ Head(s) \in Frames
    BY <1>1, <1>3, TransitTail, SeqTypes
  <1>7. Ordered(Tail(s)) /\ \A f \in InTransit(Tail(s)) : Rank(Head(s)) < Rank(f)
    BY <1>1, <1>3, <1>5, OrderedTail
  <1>8. BridgeStream'
    BY <1>1, <1>2, <1>4, <1>5, <1>6, <1>7 DEF BridgeStream
  <1>9. QED
    BY <1>1, <1>2, <1>4, <1>6, <1>7, <1>8

\* A receipt is read: it is the one of the record under delivery.
LEMMA ReadReceiptFrames ==
    ASSUME FrameInv, Read, Head(toBridge[bconn]).type = "RECEIPT"
    PROVE  FrameRest'
  <1> DEFINE f == Head(toBridge[bconn])
  <1>1. /\ bconn # 0 /\ bconn \in Slots /\ f.type = "RECEIPT"
        /\ InTransit(toBridge[bconn]) = {f} \cup InTransit(toBridge'[bconn])
        /\ \A g \in InTransit(toBridge'[bconn]) : Rank(f) < Rank(g)
        /\ UNCHANGED bconn /\ BridgeStream'
    BY BridgeRead
  <1>2. /\ rpc = "reading" /\ rpc' = "mark" /\ receipt' = [rec |-> f.rec, cap |-> f.cap]
        /\ UNCHANGED <<toDev, deferred, sched, fromDev, pending, tombs, lastRec, bpc, batch,
                       replaying, zombies, inflight, signalled, forwarding, toCore, broken, cpc,
                       ccmd, cret, cpend>>
    BY <1>1 DEF Read, spoolVars, mainVars, eventVars, clientVars
  <1> HIDE DEF f
  <1>3. InTransit(toBridge'[bconn]) = {}
    BY <1>1 DEF BridgeStream, Rank
  <1>4. /\ Unconfirmed /\ f = Receipt(Head(batch)) /\ ReceiptUnderway
        /\ batch # <<>> /\ Head(batch) \in Records
    <2>1. f \in InTransit(toBridge[bconn])
      BY <1>1
    <2>2. Unconfirmed /\ f = Receipt(Head(batch)) /\ ReceiptUnderway
      BY <1>1, <2>1 DEF DeliveryInStep, ReceiptUnderway
    <2>3. QED
      BY <2>2, HeadIsOldest DEF Unconfirmed, SessionHasConnection
  <1>5. receipt' = Head(batch)
    BY <1>2, <1>4 DEF Receipt, Records
  <1>6. SpoolOrder' /\ DeviceAnswers' /\ BatchOrder' /\ SessionIsOver'
    <2>1. SpoolOrder' /\ DeviceAnswers'
      BY <1>2, SessionUntouched
    <2>2. BatchOrder'
      BY <1>2 DEF BatchOrder
    <2>3. SessionIsOver'
      BY <1>1, <1>2 DEF SessionIsOver
    <2>4. QED
      BY <2>1, <2>2, <2>3
  <1>7. \A k \in Slots : ClientInStep(k)' /\ CoreStream(k)'
    BY <1>2, ClientUntouched
  <1>8. Underway' \subseteq Underway /\ ~AtBridge'
    BY <1>1, <1>2, <1>3 DEF Underway, AtBridge
  <1>9. OneCommand'
    BY <1>1, <1>2, <1>8 DEF OneCommand, AtPort, AtCore
  <1>10. CommandIsAwaited' /\ HelloFirst'
    BY <1>1, <1>2, <1>8 DEF CommandIsAwaited, HelloFirst, Awaiting, Stage
  <1>11. ReplayFirst'
    BY <1>1, <1>2, CommandUntouched
  <1>12. DeliveryInStep'
    <2>1. ~ReceiptUnderway' /\ Unconfirmed' /\ Head(batch') = Head(batch)
      BY <1>1, <1>2, <1>3, <1>4 DEF ReceiptUnderway, Unconfirmed
    <2>2. \A g \in InTransit(toCore'[bconn']) : g.type # "DELIVERY"
      BY <1>1, <1>2, <1>4 DEF DeliveryInStep
    <2>3. /\ cpc'[bconn'] \notin {"accepted", "committed"}
          /\ cpc'[bconn'] # "free"
               => cpc'[bconn'] = "confirm" /\ toCore'[bconn'] = <<>> /\ cpend'[bconn'] = Head(batch)
      BY <1>1, <1>2, <1>4 DEF DeliveryInStep
    <2>4. /\ inflight' = (IF bpc' = "wait" THEN {Head(batch').rec} ELSE {})
          /\ signalled' \subseteq inflight'
      BY <1>2 DEF DeliveryInStep
    <2>5. InTransit(toBridge'[bconn']) = {}
      BY <1>1, <1>3
    <2>6. QED
      BY <1>2, <1>5, <2>1, <2>2, <2>3, <2>4, <2>5 DEF DeliveryInStep
  <1>13. QED
    BY <1>1, <1>6, <1>7, <1>9, <1>10, <1>11, <1>12

\* A command is read: it goes to the device or waits for the end of the
\* replay, and finds the queue empty.
LEMMA ReadCommandFrames ==
    ASSUME FrameInv, Read, Head(toBridge[bconn]).type = "CMD"
    PROVE  FrameRest'
  <1> DEFINE f == Head(toBridge[bconn])
  <1>1. /\ bconn # 0 /\ bconn \in Slots /\ f.type = "CMD" /\ f \in Frames
        /\ InTransit(toBridge[bconn]) = {f} \cup InTransit(toBridge'[bconn])
        /\ \A g \in InTransit(toBridge'[bconn]) : Rank(f) < Rank(g)
        /\ UNCHANGED bconn /\ BridgeStream'
    BY BridgeRead
  <1>2. AtBridge /\ f \in InTransit(toBridge[bconn])
    BY <1>1 DEF AtBridge
  <1>3. deferred = <<>> /\ toDev = <<>> /\ ~AtPort /\ ~AtCore
    BY <1>2 DEF OneCommand
  <1>4. Len(deferred) = 0 /\ ~(Len(deferred) >= MaxDeferred)
    BY <1>3, DeliveryConstants
  <1>5. /\ rpc = "reading"
        /\ UNCHANGED <<rpc, receipt, sched, fromDev, pending, tombs, lastRec, bpc, batch,
                       replaying, zombies, inflight, signalled, forwarding, toCore, broken, cpc,
                       ccmd, cret, cpend>>
        /\ \/ /\ toDev' = Append(toDev, f.cmd) /\ UNCHANGED deferred
              /\ f.cmd = "HELLO" \/ forwarding
           \/ /\ deferred' = Append(deferred, f.cmd) /\ UNCHANGED toDev
              /\ f.cmd # "HELLO" /\ ~forwarding
    BY <1>1, <1>4 DEF Read, spoolVars, mainVars, eventVars, clientVars
  <1>6. f.cmd \in Commands
    BY <1>1, FrameFields
  <1> HIDE DEF f
  <1>7. \A g \in InTransit(toBridge'[bconn]) : g \in InTransit(toBridge[bconn]) /\ g.type = "RECEIPT"
    BY <1>1 DEF BridgeStream, Rank
  <1>8. ~AtBridge' /\ ~AtPort' /\ ~AtCore'
    BY <1>1, <1>3, <1>5, <1>7 DEF AtBridge, AtPort, AtCore
  <1>9. /\ InTransit(deferred) = {} /\ InTransit(toDev) = {}
        /\ InTransit(Append(deferred, f.cmd)) = {f.cmd} /\ Len(Append(deferred, f.cmd)) = 1
        /\ InTransit(Append(toDev, f.cmd)) = {f.cmd} /\ Len(Append(toDev, f.cmd)) = 1
    <2>1. deferred \in Seq(Commands) /\ toDev \in Seq(Commands)
      BY DEF QueueTypes, DeviceTypes
    <2>2. InTransit(deferred) = {} /\ InTransit(toDev) = {}
      BY <1>3, <2>1, TransitEmpty
    <2>3. InTransit(Append(deferred, f.cmd)) = {f.cmd} /\ InTransit(Append(toDev, f.cmd)) = {f.cmd}
      BY <1>6, <2>1, <2>2, TransitAppend
    <2>4. Len(Append(deferred, f.cmd)) = 1 /\ Len(Append(toDev, f.cmd)) = 1
      BY <1>3, <1>6, <2>1
    <2>5. QED
      BY <2>2, <2>3, <2>4
  <1> DEFINE d == Append(deferred, f.cmd)
             t == Append(toDev, f.cmd)
  <1>10. \/ toDev' = t /\ deferred' = deferred /\ (f.cmd = "HELLO" \/ forwarding)
         \/ deferred' = d /\ toDev' = toDev /\ f.cmd # "HELLO" /\ ~forwarding
    BY <1>5
  <1>11. InTransit(d) = {f.cmd} /\ Len(d) = 1 /\ InTransit(t) = {f.cmd} /\ Len(t) = 1
    BY <1>9
  <1> HIDE DEF d, t
  <1>12. OneCommand'
    <2>1. Len(deferred') <= 1 /\ Len(toDev') <= 1 /\ (deferred' # <<>> => toDev' = <<>>)
      <3>1. Len(deferred) <= 1 /\ Len(toDev) <= 1
        BY DEF OneCommand
      <3>2. Len(d) <= 1 /\ Len(t) <= 1
        BY <1>11
      <3>3. (deferred' = deferred /\ toDev' = t) \/ (deferred' = d /\ toDev' = toDev)
        BY <1>10
      <3>4. QED
        BY <1>3, <3>1, <3>2, <3>3, Zenon
    <2>2. \A i, j \in 1 .. Len(fromDev') :
            fromDev'[i].type # "DATA" /\ fromDev'[j].type # "DATA" => i = j
      BY <1>5 DEF OneCommand
    <2>3. QED
      BY <1>8, <2>1, <2>2 DEF OneCommand
  <1>13. Underway' = {f.cmd}
    <2>1. {g \in InTransit(fromDev') : g.type # "DATA"} = {}
      BY <1>8 DEF AtPort
    <2>2. {g \in InTransit(toBridge'[bconn']) : g.type = "CMD"} = {}
      BY <1>1, <1>7
    <2>3. InTransit(deferred') \cup InTransit(toDev') = {f.cmd}
      BY <1>9, <1>10, <1>11
    <2>4. QED
      BY <2>1, <2>2, <2>3 DEF Underway
  <1>14. f.cmd \in Underway
    BY <1>1, <1>2 DEF Underway
  <1>15. CommandIsAwaited'
    BY <1>1, <1>5, <1>13, <1>14 DEF CommandIsAwaited, Awaiting, Stage
  <1>16. HelloFirst'
    BY <1>1, <1>5, <1>9, <1>10, <1>11, <1>13, <1>14 DEF HelloFirst
  <1>17. SpoolOrder' /\ DeviceAnswers' /\ BatchOrder' /\ ReplayFirst'
    BY <1>1, <1>5, SessionUntouched, CommandUntouched
  <1>18. SessionIsOver'
    BY <1>1, <1>5 DEF SessionIsOver
  <1>19. \A k \in Slots : ClientInStep(k)' /\ CoreStream(k)'
    BY <1>5, ClientUntouched
  <1>20. DeliveryInStep'
    <2>1. ReceiptUnderway' <=> ReceiptUnderway
      BY <1>1, <1>7 DEF ReceiptUnderway
    <2>2. QED
      BY <1>1, <1>5, <1>7, <2>1 DEF DeliveryInStep, ReaderBusy, Unconfirmed, Up
  <1>21. QED
    BY <1>1, <1>12, <1>15, <1>16, <1>17, <1>18, <1>19, <1>20

LEMMA ReadFrames ==
    ASSUME FrameInv, Read
    PROVE  FrameRest'
  <1>1. Head(toBridge[bconn]).type \in {"RECEIPT", "CMD"}
    BY DEF Read
  <1>2. QED
    BY <1>1, ReadReceiptFrames, ReadCommandFrames

-----------------------------------------------------------------------------
(* Bridge, main thread. *)

\* While no delivery is unconfirmed, none is anywhere between the two sides,
\* and a client that waits for a commit response has one in front of it.
LEMMA NoneUnconfirmed ==
    ASSUME FrameInv, bconn # 0, ~Unconfirmed
    PROVE  /\ ~ReaderBusy /\ ~ReceiptUnderway /\ cpc[bconn] \notin {"accepted", "committed", "declined"}
           /\ \A f \in InTransit(toBridge[bconn]) : f.type # "RECEIPT"
           /\ \A f \in InTransit(toCore[bconn]) : f.type # "DELIVERY"
           /\ ~(Up(bconn) /\ cpc[bconn] = "confirm" /\ toCore[bconn] = <<>>)
  BY DEF DeliveryInStep, ReaderBusy, ReceiptUnderway

\* A delivery is written to a stream that holds none.
LEMMA DeliverFrames ==
    ASSUME FrameInv, Deliver
    PROVE  FrameRest'
  <1>1. /\ bpc = "deliver" /\ bpc' = "wait" /\ inflight' = inflight \cup {Head(batch).rec}
        /\ toCore' = ToCoreWith(bconn, Delivery(Head(batch)))
        /\ UNCHANGED <<sched, toDev, fromDev, pending, tombs, lastRec, bconn, batch, replaying, rpc,
                       receipt, zombies, signalled, forwarding, deferred, toBridge, broken, cpc,
                       ccmd, cret, cpend>>
    BY DEF Deliver, devVars, spoolVars, readerVars, fwdVars, clientVars
  <1>2. bconn # 0 /\ bconn \in Slots /\ batch # <<>> /\ ~Unconfirmed
    BY <1>1 DEF SessionHasConnection, MainTypes, Unconfirmed
  <1>3. /\ ~ReaderBusy /\ ~ReceiptUnderway /\ cpc[bconn] \notin {"accepted", "committed", "declined"}
        /\ \A f \in InTransit(toBridge[bconn]) : f.type # "RECEIPT"
        /\ \A f \in InTransit(toCore[bconn]) : f.type # "DELIVERY"
        /\ ~(Up(bconn) /\ cpc[bconn] = "confirm" /\ toCore[bconn] = <<>>)
    BY <1>2, NoneUnconfirmed
  <1> DEFINE f == Delivery(Head(batch))
  <1>4. f.type = "DELIVERY" /\ f \in Frames /\ Rank(f) = 3
    <2>1. Head(batch) \in AnyRecord
      BY <1>2, HeadIsOldest DEF Records, AnyRecord
    <2>2. QED
      BY <2>1, MadeFrames DEF Delivery, Rank
  <1> HIDE DEF f
  <1>5. \A g \in InTransit(toCore[bconn]) : Rank(g) < Rank(f)
    BY <1>2, <1>3, <1>4 DEF CoreStream, Rank
  <1>6. /\ \A j \in Slots : j # bconn => toCore'[j] = toCore[j]
        /\ ~Up(bconn) => toCore' = toCore
        /\ Up(bconn) => /\ InTransit(toCore'[bconn]) = InTransit(toCore[bconn]) \cup {f}
                        /\ toCore'[bconn] # <<>> /\ Ordered(toCore'[bconn])
                        /\ toCore[bconn] # <<>> => Head(toCore'[bconn]) = Head(toCore[bconn])
    BY <1>1, <1>2, <1>4, <1>5, StreamWritten DEF f
  <1>7. \A g \in InTransit(toCore'[bconn]) : g \in InTransit(toCore[bconn]) \/ g = f
    BY <1>6
  <1>8. \A k \in Slots : ClientInStep(k)' /\ CoreStream(k)'
    <2>1. \A k \in Slots : ClientInStep(k)'
      BY <1>1, ClientUntouched
    <2>2. \A k \in Slots : k # bconn => CoreStream(k)'
      BY <1>1, <1>6, ClientUntouched
    <2>3. CASE ~Up(bconn)
      BY <1>1, <1>6, <2>1, <2>3, ClientUntouched
    <2>4. CASE Up(bconn)
      <3>1. CoreStream(bconn)
        BY <1>2
      <3>2. /\ cpc'[bconn] = cpc[bconn] /\ ccmd'[bconn] = ccmd[bconn] /\ cpend'[bconn] = cpend[bconn]
            /\ (Awaiting(bconn)' <=> Awaiting(bconn)) /\ bconn' = bconn
        BY <1>1 DEF Awaiting, Stage
      <3>3. \A g \in InTransit(toCore'[bconn]) :
              /\ g.type \in {"COMMITTED", "RESP", "ERROR", "DELIVERY"}
              /\ g.type = "RESP" => g = Resp(g.cmd)
              /\ g.type = "ERROR" => g = Err(g.cmd) /\ g.cmd \in {"QUERY", "ONCE", "START"}
        BY <1>4, <1>7, <3>1 DEF CoreStream
      <3>4. cpc[bconn] # "free" => \A g \in InTransit(toCore'[bconn]) :
              /\ g.type = "COMMITTED" => cpc[bconn] = "confirm" /\ g = CommitAck(cpend[bconn])
              /\ g.type \in {"RESP", "ERROR"} => Awaiting(bconn) /\ g.cmd = ccmd[bconn]
        BY <1>4, <1>7, <3>1 DEF CoreStream
      <3>5. cpc[bconn] = "confirm" /\ toCore'[bconn] # <<>> => Head(toCore'[bconn]).type = "COMMITTED"
        BY <1>3, <1>6, <2>4, <3>1 DEF CoreStream
      <3>6. CoreStream(bconn)'
        BY <1>3, <1>6, <2>4, <3>2, <3>3, <3>4, <3>5 DEF CoreStream
      <3>7. QED
        BY <1>1, <2>1, <2>2, <3>6
    <2>5. QED
      BY <2>3, <2>4
  <1>9. AtCore' => AtCore
    BY <1>1, <1>2, <1>4, <1>7 DEF AtCore
  <1>10. OneCommand'
    BY <1>1, <1>9 DEF OneCommand, AtBridge, AtPort
  <1>11. UNCHANGED Underway
    BY <1>1, CommandUntouched
  <1>12. CommandIsAwaited' /\ HelloFirst'
    BY <1>1, <1>11, CommandUntouched
  <1>13. ReplayFirst'
    <2>1. Resp("CAPS").type = "RESP"
      BY DEF Resp
    <2>2. Starting(bconn) => ~forwarding
      BY <1>1, <1>2 DEF ReplayFirst
    <2>3. QED
      BY <1>1, <1>2, <1>4, <1>7, <2>1, <2>2 DEF ReplayFirst, Starting, Stage
  <1>14. SpoolOrder' /\ DeviceAnswers' /\ BridgeStream'
    BY <1>1, SessionUntouched
  <1>15. SessionIsOver'
    BY <1>1, <1>2 DEF SessionIsOver
  <1>16. BatchOrder'
    BY <1>1 DEF BatchOrder
  <1>17. DeliveryInStep'
    <2>1. inflight = {} /\ signalled = {}
      BY <1>1 DEF DeliveryInStep
    <2>2. inflight' = {Head(batch').rec} /\ signalled' = {} /\ Unconfirmed'
      BY <1>1, <2>1 DEF Unconfirmed
    <2>3. ~ReaderBusy' /\ ~ReceiptUnderway' /\ rpc' # "error" /\ rpc' \notin {"mark", "respond"}
      BY <1>1, <1>3 DEF ReaderBusy, ReceiptUnderway, DeliveryInStep
    <2>4. \A g \in InTransit(toCore'[bconn']) : g.type = "DELIVERY" => g = Delivery(Head(batch'))
      BY <1>1, <1>3, <1>7 DEF f
    <2>5. \A g \in InTransit(toBridge'[bconn']) : g.type # "RECEIPT"
      BY <1>1, <1>3
    <2>6. ~(Up(bconn)' /\ cpc'[bconn'] = "confirm" /\ toCore'[bconn'] = <<>>)
      BY <1>1, <1>3, <1>6 DEF Up
    <2>7. cpc'[bconn'] \notin {"accepted", "committed", "declined"}
      BY <1>1, <1>3
    <2>8. QED
      BY <1>1, <2>2, <2>3, <2>4, <2>5, <2>6, <2>7 DEF DeliveryInStep
  <1>18. QED
    BY <1>8, <1>10, <1>12, <1>13, <1>14, <1>15, <1>16, <1>17

\* A step of the main thread between two deliveries touches no stream to the
\* core and leaves no delivery unconfirmed.
LEMMA BetweenDeliveries ==
    ASSUME FrameInv, bconn # 0, ~Unconfirmed, bpc' # "wait", inflight' = {}, signalled' = {},
           UNCHANGED <<bconn, rpc, receipt, toBridge, toCore, broken, cpc, ccmd, cret, cpend>>
    PROVE  /\ DeliveryInStep' /\ BridgeStream'
           /\ \A k \in Slots : ClientInStep(k)' /\ CoreStream(k)'
  <1>1. /\ ~ReaderBusy /\ ~ReceiptUnderway /\ cpc[bconn] \notin {"accepted", "committed"}
        /\ \A f \in InTransit(toBridge[bconn]) : f.type # "RECEIPT"
        /\ \A f \in InTransit(toCore[bconn]) : f.type # "DELIVERY"
        /\ ~(Up(bconn) /\ cpc[bconn] = "confirm" /\ toCore[bconn] = <<>>)
    BY NoneUnconfirmed
  <1>2. ~ReaderBusy' /\ ~ReceiptUnderway' /\ rpc' # "error" /\ rpc' \notin {"mark", "respond"}
    BY <1>1 DEF ReaderBusy, ReceiptUnderway, DeliveryInStep
  <1>3. DeliveryInStep'
    BY <1>1, <1>2 DEF DeliveryInStep, Up
  <1>4. BridgeStream'
    BY SessionUntouched
  <1>5. QED
    BY <1>3, <1>4, ClientUntouched

\* The delivery is confirmed; the next record of the batch is the oldest one.
LEMMA WakeFrames ==
    ASSUME FrameInv, Wake
    PROVE  FrameRest'
  <1>1. /\ bpc = "wait" /\ Head(batch).rec \in signalled
        /\ inflight' = inflight \ {Head(batch).rec} /\ signalled' = signalled \ {Head(batch).rec}
        /\ batch' = Tail(batch) /\ bpc' = AfterDelivery(Tail(batch))
        /\ UNCHANGED <<sched, toDev, fromDev, pending, tombs, lastRec, bconn, replaying, rpc,
                       receipt, zombies, forwarding, deferred, toCore, toBridge, broken, cpc,
                       ccmd, cret, cpend>>
    BY DEF Wake, devVars, spoolVars, readerVars, fwdVars, wireVars, clientVars
  <1>2. bconn # 0 /\ batch # <<>> /\ ~Unconfirmed
    BY <1>1 DEF SessionHasConnection, Unconfirmed
  <1>3. inflight' = {} /\ signalled' = {}
    BY <1>1 DEF DeliveryInStep
  <1>4. /\ bpc' \in {"deliver", "replay", "serving"} /\ (bpc' = "replay" => replaying)
        /\ bpc' # "deliver" => batch' = <<>>
    BY <1>1 DEF AfterDelivery
  <1>5. /\ DeliveryInStep' /\ BridgeStream'
        /\ \A k \in Slots : ClientInStep(k)' /\ CoreStream(k)'
    BY <1>1, <1>2, <1>3, <1>4, BetweenDeliveries
  <1>6. /\ Head(batch) = batch[1] /\ 1 \in 1 .. Len(batch)
        /\ batch[1] \notin pending /\ \A z \in zombies : z.rec <= batch[1].rec
    BY <1>1, <1>2, HeadIsOldest DEF BatchOrder
  <1>7. rpc \notin {"respond", "signal"}
    BY <1>2, NoneUnconfirmed DEF ReaderBusy
  <1>8. BatchOrder'
    <2>1. batch \in Seq(Records) /\ batch' \in Seq(Records) /\ Len(batch') = Len(batch) - 1
          /\ Len(batch) \in Nat \ {0}
      BY <1>1, <1>2 DEF MainTypes
    <2>2. \A i \in 1 .. Len(batch') : i + 1 \in 1 .. Len(batch) /\ batch'[i] = batch[i + 1] /\ i + 1 > 1
      BY <1>1, <1>2, <2>1
    <2>3. /\ \A i \in 1 .. Len(batch) : batch[i].rec \in Nat
          /\ \A z \in zombies : z.rec \in Nat
      <3>1. \A i \in 1 .. Len(batch) : batch[i] \in Records
        BY <2>1
      <3>2. QED
        BY <3>1 DEF Records, ReaderTypes, AnyRecord
    <2>4. ASSUME NEW i \in 1 .. Len(batch'), NEW j \in 1 .. Len(batch'), i < j
          PROVE  batch'[i].rec < batch'[j].rec
      <3>1. i + 1 < j + 1
        BY <2>4
      <3>2. QED
        BY <2>2, <3>1 DEF BatchOrder
    <2>5. \A i \in 1 .. Len(batch') : batch'[i] \in pending
      BY <2>2 DEF BatchOrder
    <2>6. batch' # <<>> => 1 \in 1 .. Len(batch')
      BY <2>1
    <2>7. batch' # <<>> => \A z \in zombies : z.rec <= batch'[1].rec
      <3>1. batch' # <<>> => 2 \in 1 .. Len(batch) /\ batch'[1] = batch[2] /\ batch[1].rec < batch[2].rec
        <4>1. batch' # <<>> => 2 \in 1 .. Len(batch) /\ batch'[1] = batch[2]
          BY <2>2, <2>6
        <4>2. QED
          BY <1>6, <4>1 DEF BatchOrder
      <3>2. QED
        BY <1>6, <2>3, <3>1
    <2>8. ASSUME NEW i \in 1 .. Len(batch'), NEW r \in pending, r.rec <= batch'[i].rec
          PROVE  \E j \in 1 .. i : r = batch'[j]
      <3>1. PICK j \in 1 .. (i + 1) : r = batch[j]
        BY <2>2, <2>8 DEF BatchOrder
      <3>2. j # 1
        BY <1>6, <3>1
      <3>3. i \in Nat /\ j - 1 \in 1 .. i /\ (j - 1) + 1 = j
        BY <2>1, <3>2
      <3>4. j - 1 \in 1 .. Len(batch')
        BY <2>1, <3>3
      <3>5. batch'[j - 1] = batch[j]
        BY <2>2, <3>3, <3>4
      <3>6. QED
        BY <3>1, <3>3, <3>5
    <2>9. forwarding => Len(batch') <= 1 /\ pending = {}
      <3>1. forwarding => Len(batch) = 1 /\ pending \subseteq InTransit(batch)
        BY <2>1 DEF BatchOrder
      <3>2. forwarding => \A r \in pending : r = batch[1]
        BY <2>1, <3>1 DEF InTransit
      <3>3. QED
        BY <1>6, <2>1, <3>1, <3>2
    <2> HIDE DEF FrameInv
    <2>10. QED
      BY <1>1, <1>3, <1>4, <1>7, <2>4, <2>5, <2>6, <2>7, <2>8, <2>9 DEF BatchOrder
  <1>9. SpoolOrder' /\ DeviceAnswers'
    BY <1>1, SessionUntouched
  <1>10. SessionIsOver'
    BY <1>1, <1>2, <1>4 DEF SessionIsOver
  <1>11. OneCommand' /\ UNCHANGED Underway
    BY <1>1, CommandUntouched
  <1>12. CommandIsAwaited' /\ HelloFirst'
    BY <1>1, <1>11, CommandUntouched
  <1>13. ReplayFirst'
    BY <1>1, <1>2 DEF ReplayFirst, Starting, Stage
  <1>14. QED
    BY <1>5, <1>8, <1>9, <1>10, <1>11, <1>12, <1>13

\* Reading a frame from the serial port: at most one of them is not a capture.
LEMMA PortRead ==
    ASSUME FrameInv, fromDev # <<>>, fromDev' = Tail(fromDev)
    PROVE  /\ Head(fromDev) \in Frames /\ Head(fromDev).type \in {"RESP", "ERROR", "DATA"}
           /\ InTransit(fromDev) = {Head(fromDev)} \cup InTransit(fromDev')
           /\ Head(fromDev).type # "DATA" => \A f \in InTransit(fromDev') : f.type = "DATA"
           /\ \A i, j \in 1 .. Len(fromDev') :
                fromDev'[i].type # "DATA" /\ fromDev'[j].type # "DATA" => i = j
  <1>1. fromDev \in Seq(Frames)
    BY DEF DeviceTypes
  <1>2. /\ Tail(fromDev) \in Seq(Frames) /\ Len(Tail(fromDev)) = Len(fromDev) - 1
        /\ Len(fromDev) \in Nat \ {0} /\ Head(fromDev) = fromDev[1]
        /\ \A i \in 1 .. Len(Tail(fromDev)) : Tail(fromDev)[i] = fromDev[i + 1]
    BY <1>1
  <1>3. 1 \in 1 .. Len(fromDev) /\ fromDev[1] \in Frames
    BY <1>1, <1>2
  <1>4. \A i \in 1 .. Len(fromDev') :
          i + 1 \in 1 .. Len(fromDev) /\ fromDev'[i] = fromDev[i + 1] /\ i + 1 # 1
    BY <1>2
  <1>5. Head(fromDev) \in Frames /\ Head(fromDev).type \in {"RESP", "ERROR", "DATA"}
    BY <1>2, <1>3 DEF DeviceFresh
  <1>6. InTransit(fromDev) = {Head(fromDev)} \cup InTransit(fromDev')
    BY <1>1, TransitTail
  <1>7. \A i, j \in 1 .. Len(fromDev) :
          fromDev[i].type # "DATA" /\ fromDev[j].type # "DATA" => i = j
    BY DEF OneCommand
  <1>8. Head(fromDev).type # "DATA" => \A i \in 1 .. Len(fromDev') : fromDev'[i].type = "DATA"
    BY <1>2, <1>3, <1>4, <1>7
  <1>9. ASSUME NEW i \in 1 .. Len(fromDev'), NEW j \in 1 .. Len(fromDev'),
               fromDev'[i].type # "DATA", fromDev'[j].type # "DATA"
        PROVE  i = j
    <2>1. i + 1 = j + 1
      BY <1>4, <1>7, <1>9
    <2>2. QED
      BY <2>1
  <1> HIDE DEF FrameInv
  <1>10. Head(fromDev).type # "DATA" => \A f \in InTransit(fromDev') : f.type = "DATA"
    BY <1>8 DEF InTransit
  <1>11. QED
    BY <1>5, <1>6, <1>9, <1>10

\* A capture is stored: the spool holds nothing else at that moment.
LEMMA StoreFrames ==
    ASSUME FrameInv, Store
    PROVE  FrameRest'
  <1> DEFINE f == Head(fromDev)
             new == [rec |-> lastRec + 1, cap |-> f.cap]
  <1>1. /\ bpc = "serving" /\ bpc' = "deliver" /\ fromDev # <<>> /\ f.type = "DATA"
        /\ fromDev' = Tail(fromDev)
        /\ UNCHANGED <<sched, toDev, bconn, replaying, rpc, receipt, zombies, inflight, signalled,
                       forwarding, deferred, toCore, toBridge, broken, cpc, ccmd, cret, cpend>>
    BY DEF Store, readerVars, eventVars, fwdVars, wireVars, clientVars
  <1>2. f \in InTransit(fromDev) /\ f # Resp("HELLO")
    <2>1. f \in InTransit(fromDev)
      BY <1>1, TransitEmpty DEF DeviceTypes
    <2>2. QED
      BY <1>1, <2>1 DEF Resp
  <1>3. forwarding /\ bconn # 0 /\ ~Starting(bconn) /\ ~Unconfirmed
    BY <1>1, <1>2 DEF HelloFirst, ReplayFirst, SessionHasConnection, Unconfirmed
  <1>4. batch = <<>> /\ pending = {} /\ ~replaying
    <2>1. batch = <<>> /\ ~replaying
      BY <1>1, <1>3 DEF BatchOrder, HelloFirst
    <2>2. InTransit(batch) = {}
      BY <2>1, TransitEmpty DEF MainTypes
    <2>3. QED
      BY <1>3, <2>1, <2>2 DEF BatchOrder
  <1>5. pending' = {new} /\ batch' = <<new>> /\ lastRec' = lastRec + 1 /\ UNCHANGED tombs
    <2>1. pending' = pending \cup {new} /\ batch' = <<new>>
      BY StoreIsFresh
    <2>2. lastRec' = lastRec + 1 /\ UNCHANGED tombs
      BY <1>4 DEF Store, StoreCapture
    <2>3. QED
      BY <1>4, <2>1, <2>2
  <1>6. new.rec = lastRec + 1 /\ lastRec \in Nat
    BY DEF SpoolTypes
  <1> HIDE DEF new
  <1>7. inflight' = {} /\ signalled' = {}
    BY <1>1 DEF DeliveryInStep
  <1>8. /\ DeliveryInStep' /\ BridgeStream'
        /\ \A k \in Slots : ClientInStep(k)' /\ CoreStream(k)'
    BY <1>1, <1>3, <1>7, BetweenDeliveries
  <1>9. rpc \notin {"respond", "signal"}
    BY <1>3, NoneUnconfirmed DEF ReaderBusy
  <1>10. /\ InTransit(fromDev) = {f} \cup InTransit(fromDev')
         /\ \A i, j \in 1 .. Len(fromDev') :
              fromDev'[i].type # "DATA" /\ fromDev'[j].type # "DATA" => i = j
    BY <1>1, PortRead
  <1>11. SpoolOrder'
    <2>1. /\ \A t \in tombs : t.rec \in Nat /\ t.rec <= lastRec
          /\ \A z \in zombies : z.rec \in Nat /\ z.rec <= lastRec
      BY DEF SpoolOrder, SpoolTypes, ReaderTypes, Records, AnyRecord
    <2>2. QED
      BY <1>1, <1>5, <1>6, <2>1 DEF SpoolOrder
  <1>12. BatchOrder'
    <2>1. /\ Len(batch') = 1 /\ batch'[1] = new /\ batch' # <<>> /\ InTransit(batch') = {new}
      BY <1>5 DEF InTransit
    <2>2. \A z \in zombies : z.rec <= new.rec
      BY <1>6 DEF SpoolOrder, ReaderTypes, AnyRecord
    <2>3. \A i \in 1 .. Len(batch') : i = 1 /\ 1 \in 1 .. i
      BY <2>1
    <2> HIDE DEF FrameInv
    <2>4. QED
      BY <1>1, <1>5, <1>7, <1>9, <2>1, <2>2, <2>3 DEF BatchOrder
  <1>13. SessionIsOver'
    BY <1>1, <1>3 DEF SessionIsOver
  <1>14. DeviceAnswers'
    BY <1>10 DEF DeviceAnswers
  <1>15. {g \in InTransit(fromDev') : g.type # "DATA"} = {g \in InTransit(fromDev) : g.type # "DATA"}
    BY <1>1, <1>10
  <1>16. UNCHANGED Underway /\ (AtPort' <=> AtPort)
    BY <1>1, <1>15 DEF Underway, AtPort
  <1>17. OneCommand'
    BY <1>1, <1>10, <1>16 DEF OneCommand, AtBridge, AtCore
  <1>18. CommandIsAwaited' /\ HelloFirst'
    BY <1>1, <1>3, <1>16 DEF CommandIsAwaited, HelloFirst, Awaiting, Stage
  <1>19. ReplayFirst'
    BY <1>1, <1>3 DEF ReplayFirst, Starting, Stage
  <1>20. QED
    BY <1>8, <1>11, <1>12, <1>13, <1>14, <1>17, <1>18, <1>19

\* A batch is the beginning of the spool in the order of its records.
LEMMA BatchIsOldest ==
    ASSUME FrameInv, pending # {}, NEW b \in PendingBatches
    PROVE  /\ b \in Seq(Records) /\ b # <<>> /\ 1 \in 1 .. Len(b)
           /\ \A i, j \in 1 .. Len(b) : i < j => b[i].rec < b[j].rec
           /\ \A i \in 1 .. Len(b) : b[i] \in pending
           /\ \A i \in 1 .. Len(b) : \A r \in pending :
                r.rec <= b[i].rec => \E j \in 1 .. i : r = b[j]
  <1>1. PICK n \in 1 .. SpoolBatch : b \in [1 .. n -> pending]
    BY DEF PendingBatches
  <1>2. b \in Seq(Records) /\ b # <<>>
    BY BatchType
  <1>3. n \in Nat /\ n > 0 /\ SpoolBatch \in Nat
    BY DeliveryConstants
  <1>4. DOMAIN b = 1 .. n /\ Len(b) = n /\ DOMAIN b = 1 .. Len(b)
    <2>1. DOMAIN b = 1 .. n /\ DOMAIN b = 1 .. Len(b) /\ Len(b) \in Nat
      BY <1>1, <1>2
    <2>2. QED
      BY <1>3, <2>1
  <1>5. \A i, j \in 1 .. n : i < j => b[i].rec < b[j].rec
    BY <1>4 DEF PendingBatches
  <1>6. \A i \in 1 .. n : b[i] \in pending
    BY <1>1
  <1>7. \A r \in pending : r.rec \in Nat
    BY DEF SpoolTypes, Records
  <1>8. ASSUME NEW i \in 1 .. n, NEW r \in pending, r.rec <= b[i].rec
        PROVE  \E j \in 1 .. i : r = b[j]
    <2>1. /\ \/ \E j \in 1 .. n : b[j] = r
             \/ SpoolBatch \in 1 .. n /\ b[SpoolBatch].rec < r.rec
      BY <1>4 DEF PendingBatches
    <2>2. i = SpoolBatch \/ i < SpoolBatch
      BY <1>3
    <2>3. SpoolBatch \in 1 .. n => b[i].rec <= b[SpoolBatch].rec
      BY <1>5, <1>6, <1>7, <2>2
    <2>4. PICK j \in 1 .. n : b[j] = r
      BY <1>6, <1>7, <1>8, <2>1, <2>3
    <2>5. ~(i < j)
      BY <1>5, <1>6, <1>7, <1>8, <2>4
    <2>6. QED
      BY <1>3, <2>4, <2>5
  <1>9. QED
    BY <1>2, <1>3, <1>4, <1>5, <1>6, <1>8

\* The next batch of the replay.
LEMMA BatchFrames ==
    ASSUME FrameInv, Replay, pending # {}
    PROVE  FrameRest'
  <1>1. /\ bpc = "replay" /\ bpc' = "deliver" /\ batch' \in PendingBatches
        /\ UNCHANGED <<sched, toDev, fromDev, pending, tombs, lastRec, bconn, replaying, rpc,
                       receipt, zombies, inflight, signalled, forwarding, deferred, toCore,
                       toBridge, broken, cpc, ccmd, cret, cpend>>
    BY DEF Replay, readerVars, eventVars, fwdVars, wireVars, clientVars, spoolVars
  <1>2. bconn # 0 /\ replaying /\ ~forwarding /\ ~Unconfirmed
    BY <1>1 DEF SessionHasConnection, SessionIsOver, HelloFirst, Unconfirmed
  <1>3. inflight' = {} /\ signalled' = {}
    BY <1>1 DEF DeliveryInStep
  <1>4. /\ DeliveryInStep' /\ BridgeStream'
        /\ \A k \in Slots : ClientInStep(k)' /\ CoreStream(k)'
    BY <1>1, <1>2, <1>3, BetweenDeliveries
  <1>5. rpc \notin {"respond", "signal"}
    BY <1>2, NoneUnconfirmed DEF ReaderBusy
  <1>6. /\ batch' \in Seq(Records) /\ batch' # <<>> /\ 1 \in 1 .. Len(batch')
        /\ \A i, j \in 1 .. Len(batch') : i < j => batch'[i].rec < batch'[j].rec
        /\ \A i \in 1 .. Len(batch') : batch'[i] \in pending
        /\ \A i \in 1 .. Len(batch') : \A r \in pending :
             r.rec <= batch'[i].rec => \E j \in 1 .. i : r = batch'[j]
    BY <1>1, BatchIsOldest
  <1>7. \A z \in zombies : z.rec <= batch'[1].rec
    BY <1>6 DEF SpoolOrder
  <1>8. BatchOrder'
    <2> HIDE DEF FrameInv
    <2>1. QED
      BY <1>1, <1>2, <1>3, <1>5, <1>6, <1>7 DEF BatchOrder
  <1>9. SpoolOrder' /\ DeviceAnswers'
    BY <1>1, SessionUntouched
  <1>10. SessionIsOver'
    BY <1>1, <1>2 DEF SessionIsOver
  <1>11. OneCommand' /\ UNCHANGED Underway
    BY <1>1, CommandUntouched
  <1>12. CommandIsAwaited' /\ HelloFirst'
    BY <1>1, <1>11, CommandUntouched
  <1>13. ReplayFirst'
    BY <1>1, <1>2 DEF ReplayFirst, Starting, Stage
  <1>14. QED
    BY <1>4, <1>8, <1>9, <1>10, <1>11, <1>12, <1>13

\* The end of the replay: the command that waited goes to the device.
LEMMA ReplayEndFrames ==
    ASSUME FrameInv, Replay, pending = {}
    PROVE  FrameRest'
  <1>1. /\ bpc = "replay" /\ bpc' = "serving" /\ ~replaying' /\ forwarding' /\ deferred' = <<>>
        /\ toDev' = toDev \o deferred
        /\ UNCHANGED <<sched, fromDev, pending, tombs, lastRec, bconn, batch, rpc, receipt, zombies,
                       inflight, signalled, toCore, toBridge, broken, cpc, ccmd, cret, cpend>>
    BY DEF Replay, readerVars, eventVars, fwdVars, wireVars, clientVars, spoolVars
  <1>2. bconn # 0 /\ replaying /\ ~forwarding /\ ~Unconfirmed
    BY <1>1 DEF SessionHasConnection, SessionIsOver, HelloFirst, Unconfirmed
  <1>3. inflight' = {} /\ signalled' = {}
    BY <1>1 DEF DeliveryInStep
  <1>4. /\ DeliveryInStep' /\ BridgeStream'
        /\ \A k \in Slots : ClientInStep(k)' /\ CoreStream(k)'
    BY <1>1, <1>2, <1>3, BetweenDeliveries
  <1>5. \/ deferred = <<>> /\ toDev' = toDev
        \/ deferred # <<>> /\ toDev = <<>> /\ toDev' = deferred
    <2>1. deferred \in Seq(Commands) /\ toDev \in Seq(Commands)
      BY DEF QueueTypes, DeviceTypes
    <2>2. deferred # <<>> => toDev = <<>>
      BY DEF OneCommand
    <2>3. deferred = <<>> => toDev \o deferred = toDev
      BY <2>1
    <2>4. toDev = <<>> => toDev \o deferred = deferred
      BY <2>1
    <2>5. QED
      BY <1>1, <2>2, <2>3, <2>4
  <1>6. InTransit(deferred') \cup InTransit(toDev') = InTransit(deferred) \cup InTransit(toDev)
    <2>1. InTransit(<<>>) = {}
      BY DEF InTransit
    <2>2. QED
      BY <1>1, <1>5, <2>1
  <1>7. UNCHANGED Underway
    BY <1>1, <1>6 DEF Underway
  <1>8. OneCommand'
    <2>1. /\ AtBridge' <=> AtBridge
          /\ AtPort' <=> AtPort
          /\ AtCore' <=> AtCore
      BY <1>1 DEF AtBridge, AtPort, AtCore
    <2>2. Len(deferred') <= 1
      BY <1>1
    <2>3. QED
      BY <1>1, <1>5, <2>1, <2>2 DEF OneCommand
  <1>9. CommandIsAwaited'
    BY <1>1, <1>7, CommandUntouched
  <1>10. HelloFirst'
    <2>1. InTransit(deferred') = {}
      BY <1>1 DEF InTransit
    <2>2. QED
      BY <1>1, <1>2, <1>7, <2>1 DEF HelloFirst
  <1>11. ReplayFirst'
    BY <1>1, <1>2 DEF ReplayFirst, Starting, Stage
  <1>12. SpoolOrder' /\ DeviceAnswers'
    BY <1>1, SessionUntouched
  <1>13. SessionIsOver'
    BY <1>1, <1>2 DEF SessionIsOver
  <1>14. BatchOrder'
    <2>1. batch' = <<>> /\ Len(batch') = 0 /\ pending' = {}
      BY <1>1 DEF BatchOrder
    <2>2. QED
      BY <2>1 DEF BatchOrder
  <1>15. QED
    BY <1>4, <1>8, <1>9, <1>10, <1>11, <1>12, <1>13, <1>14

LEMMA ReplayFrames ==
    ASSUME FrameInv, Replay
    PROVE  FrameRest'
  BY BatchFrames, ReplayEndFrames

\* An answer of the device goes to the client that waits for it, and is the
\* only one; the answer to HELLO starts the replay.
LEMMA ForwardFrames ==
    ASSUME FrameInv, Forward
    PROVE  FrameRest'
  <1> DEFINE f == Head(fromDev)
  <1>1. /\ bpc = "serving" /\ fromDev # <<>> /\ f.type # "DATA" /\ fromDev' = Tail(fromDev)
        /\ toCore' = ToCoreWith(bconn, f)
        /\ bpc' = (IF f = Resp("HELLO") THEN "replay" ELSE "serving")
        /\ replaying' = (f = Resp("HELLO"))
        /\ UNCHANGED <<sched, toDev, pending, tombs, lastRec, bconn, batch, rpc, receipt, zombies,
                       inflight, signalled, forwarding, deferred, toBridge, broken, cpc, ccmd, cret,
                       cpend>>
    BY DEF Forward, spoolVars, readerVars, eventVars, fwdVars, clientVars
  <1>2. bconn # 0 /\ bconn \in Slots /\ ~Unconfirmed /\ batch = <<>> /\ bpc' # "wait"
    BY <1>1 DEF SessionHasConnection, MainTypes, Unconfirmed, BatchOrder
  <1>3. /\ ~ReaderBusy /\ ~ReceiptUnderway /\ cpc[bconn] \notin {"accepted", "committed", "declined"}
        /\ \A g \in InTransit(toBridge[bconn]) : g.type # "RECEIPT"
        /\ \A g \in InTransit(toCore[bconn]) : g.type # "DELIVERY"
        /\ ~(Up(bconn) /\ cpc[bconn] = "confirm" /\ toCore[bconn] = <<>>)
    BY <1>2, NoneUnconfirmed
  <1>4. /\ f \in Frames /\ f.type \in {"RESP", "ERROR"}
        /\ InTransit(fromDev) = {f} \cup InTransit(fromDev')
        /\ \A g \in InTransit(fromDev') : g.type = "DATA"
        /\ \A i, j \in 1 .. Len(fromDev') :
             fromDev'[i].type # "DATA" /\ fromDev'[j].type # "DATA" => i = j
    BY <1>1, PortRead
  <1> HIDE DEF f
  <1>5. /\ AtPort /\ ~AtBridge /\ deferred = <<>> /\ toDev = <<>> /\ ~AtCore /\ f.cmd \in Underway
        /\ f \in InTransit(fromDev)
    <2>1. AtPort /\ f.cmd \in Underway
      BY <1>1, <1>4 DEF AtPort, Underway
    <2>2. QED
      BY <1>4, <2>1 DEF OneCommand
  <1>6. /\ f.type = "RESP" => f = Resp(f.cmd)
        /\ f.type = "ERROR" => f = Err(f.cmd) /\ f.cmd \in {"QUERY", "ONCE", "START"}
    BY <1>5 DEF DeviceAnswers
  <1>7. cpc[bconn] # "free" => Awaiting(bconn) /\ f.cmd = ccmd[bconn]
    BY <1>2, <1>5 DEF CommandIsAwaited
  <1>8. f = Resp("HELLO") => f.cmd = "HELLO" /\ ~forwarding
    BY <1>5 DEF Resp, HelloFirst
  <1>9. f = Resp("CAPS") => forwarding
    BY <1>5 DEF Resp, HelloFirst
  <1>10. \A g \in InTransit(toCore[bconn]) : Rank(g) < Rank(f)
    BY <1>2, <1>3, <1>4, <1>5 DEF CoreStream, AtCore, Rank
  <1>11. /\ \A j \in Slots : j # bconn => toCore'[j] = toCore[j]
         /\ ~Up(bconn) => toCore' = toCore
         /\ Up(bconn) => /\ InTransit(toCore'[bconn]) = InTransit(toCore[bconn]) \cup {f}
                         /\ toCore'[bconn] # <<>> /\ Ordered(toCore'[bconn])
                         /\ toCore[bconn] # <<>> => Head(toCore'[bconn]) = Head(toCore[bconn])
    BY <1>1, <1>2, <1>4, <1>10, StreamWritten
  <1>12. \A g \in InTransit(toCore'[bconn]) : g \in InTransit(toCore[bconn]) \/ g = f
    BY <1>11
  <1>13. \A k \in Slots : ClientInStep(k)' /\ CoreStream(k)'
    <2>1. \A k \in Slots : ClientInStep(k)'
      BY <1>1, ClientUntouched
    <2>2. \A k \in Slots : k # bconn => CoreStream(k)'
      BY <1>1, <1>11, ClientUntouched
    <2>3. CASE ~Up(bconn)
      BY <1>1, <1>11, <2>1, <2>3, ClientUntouched
    <2>4. CASE Up(bconn)
      <3>1. CoreStream(bconn)
        BY <1>2
      <3>2. /\ cpc'[bconn] = cpc[bconn] /\ ccmd'[bconn] = ccmd[bconn] /\ cpend'[bconn] = cpend[bconn]
            /\ (Awaiting(bconn)' <=> Awaiting(bconn)) /\ bconn' = bconn
        BY <1>1 DEF Awaiting, Stage
      <3>3. \A g \in InTransit(toCore'[bconn]) :
              /\ g.type \in {"COMMITTED", "RESP", "ERROR", "DELIVERY"}
              /\ g.type = "RESP" => g = Resp(g.cmd)
              /\ g.type = "ERROR" => g = Err(g.cmd) /\ g.cmd \in {"QUERY", "ONCE", "START"}
        BY <1>4, <1>6, <1>12, <3>1 DEF CoreStream
      <3>4. cpc[bconn] # "free" => \A g \in InTransit(toCore'[bconn]) :
              /\ g.type = "COMMITTED" => cpc[bconn] = "confirm" /\ g = CommitAck(cpend[bconn])
              /\ g.type \in {"RESP", "ERROR"} => Awaiting(bconn) /\ g.cmd = ccmd[bconn]
        BY <1>4, <1>7, <1>12, <3>1 DEF CoreStream
      <3>5. cpc[bconn] = "confirm" /\ toCore'[bconn] # <<>> => Head(toCore'[bconn]).type = "COMMITTED"
        BY <1>3, <1>11, <2>4, <3>1 DEF CoreStream
      <3>6. CoreStream(bconn)'
        BY <1>3, <1>11, <2>4, <3>2, <3>3, <3>4, <3>5 DEF CoreStream
      <3>7. QED
        BY <1>1, <2>1, <2>2, <3>6
    <2>5. QED
      BY <2>3, <2>4
  <1>14. ~AtPort' /\ ~AtBridge' /\ Underway' = {}
    <2>1. {g \in InTransit(fromDev') : g.type # "DATA"} = {}
      BY <1>4
    <2>2. {g \in InTransit(toBridge'[bconn']) : g.type = "CMD"} = {}
      BY <1>1, <1>2, <1>5 DEF AtBridge
    <2>3. InTransit(deferred') = {} /\ InTransit(toDev') = {}
      BY <1>1, <1>5 DEF InTransit
    <2>4. Underway' = {}
      BY <2>1, <2>2, <2>3 DEF Underway
    <2>5. QED
      BY <1>4, <2>2, <2>4 DEF AtPort, AtBridge
  <1>15. OneCommand'
    BY <1>1, <1>4, <1>5, <1>14 DEF OneCommand
  <1>16. CommandIsAwaited'
    BY <1>14 DEF CommandIsAwaited
  <1>17. HelloFirst'
    <2>1. cpc[bconn] # "backlog"
      BY <1>7 DEF Awaiting, Stage, Holding
    <2>2. forwarding' => ~replaying'
      BY <1>1, <1>8
    <2>3. QED
      BY <1>1, <1>4, <1>14, <2>1, <2>2 DEF HelloFirst
  <1>18. ReplayFirst'
    BY <1>1, <1>2, <1>4, <1>8, <1>9, <1>12 DEF ReplayFirst, Starting, Stage
  <1>19. SpoolOrder' /\ BridgeStream'
    BY <1>1, SessionUntouched
  <1>20. DeviceAnswers'
    BY <1>4 DEF DeviceAnswers
  <1>21. SessionIsOver'
    BY <1>1, <1>2 DEF SessionIsOver
  <1>22. BatchOrder'
    BY <1>1, <1>2 DEF BatchOrder
  <1>23. DeliveryInStep'
    <2>1. inflight' = {} /\ signalled' = {}
      BY <1>1 DEF DeliveryInStep
    <2>2. ~ReaderBusy' /\ ~ReceiptUnderway' /\ rpc' # "error" /\ rpc' \notin {"mark", "respond"}
      BY <1>1, <1>3 DEF ReaderBusy, ReceiptUnderway, DeliveryInStep
    <2>3. \A g \in InTransit(toCore'[bconn']) : g.type # "DELIVERY"
      BY <1>1, <1>3, <1>4, <1>12
    <2>4. \A g \in InTransit(toBridge'[bconn']) : g.type # "RECEIPT"
      BY <1>1, <1>3
    <2>5. ~(Up(bconn)' /\ cpc'[bconn'] = "confirm" /\ toCore'[bconn'] = <<>>)
      BY <1>1, <1>3, <1>11 DEF Up
    <2>6. cpc'[bconn'] \notin {"accepted", "committed", "declined"}
      BY <1>1, <1>3
    <2>7. QED
      BY <1>2, <2>1, <2>2, <2>3, <2>4, <2>5, <2>6 DEF DeliveryInStep
  <1>24. QED
    BY <1>13, <1>15, <1>16, <1>17, <1>18, <1>19, <1>20, <1>21, <1>22, <1>23

-----------------------------------------------------------------------------
(* Device. *)

\* One frame more on the serial port; only one of them is an answer.
LEMMA PortWritten ==
    ASSUME NEW s \in Seq(Frames), NEW e \in Frames,
           \A i, j \in 1 .. Len(s) : s[i].type # "DATA" /\ s[j].type # "DATA" => i = j,
           e.type = "DATA" \/ \A i \in 1 .. Len(s) : s[i].type = "DATA"
    PROVE  \A i, j \in 1 .. Len(Append(s, e)) :
             Append(s, e)[i].type # "DATA" /\ Append(s, e)[j].type # "DATA" => i = j
  <1> DEFINE a == Append(s, e)
  <1>1. \A i \in 1 .. Len(a) : (i \in 1 .. Len(s) /\ a[i] = s[i]) \/ (i = Len(s) + 1 /\ a[i] = e)
    OBVIOUS
  <1> HIDE DEF a
  <1>2. \A i, j \in 1 .. Len(a) : a[i].type # "DATA" /\ a[j].type # "DATA" => i = j
    BY <1>1
  <1>3. QED
    BY <1>2 DEF a

\* What an answer of the device leaves on the serial port.
LEMMA AnswerWritten ==
    ASSUME FrameInv, Answer
    PROVE  /\ InTransit(toDev) = {Head(toDev)} /\ toDev' = <<>> /\ Head(toDev) \in Commands
           /\ \E f \in {Resp(Head(toDev)), Err(Head(toDev))} :
                /\ f = Err(Head(toDev)) => Head(toDev) \in {"QUERY", "ONCE", "START"}
                /\ f \in InTransit(fromDev')
                /\ \A g \in InTransit(fromDev') :
                     g \in InTransit(fromDev) \/ g = f \/ (g.type = "DATA" /\ Head(toDev) = "ONCE")
           /\ \A i, j \in 1 .. Len(fromDev') :
                fromDev'[i].type # "DATA" /\ fromDev'[j].type # "DATA" => i = j
           /\ Head(toDev) \in {"HELLO", "CAPS"} => UNCHANGED sched
  <1>1. toDev \in Seq(Commands) /\ fromDev \in Seq(Frames) /\ toDev # <<>> /\ taken \in Nat
    BY DEF Answer, DeviceTypes
  <1>2. InTransit(toDev) = {Head(toDev)} /\ toDev' = <<>> /\ Head(toDev) \in Commands
    <2>1. Len(toDev) <= 1 /\ toDev' = Tail(toDev)
      BY DEF OneCommand, Answer
    <2> HIDE DEF FrameInv
    <2>2. Tail(toDev) \in Seq(Commands) /\ Len(Tail(toDev)) = Len(toDev) - 1 /\ Head(toDev) \in Commands
      BY <1>1
    <2>3. Len(toDev) \in Nat /\ Len(Tail(toDev)) \in Nat
      BY <1>1, <2>2
    <2>4. Len(Tail(toDev)) = 0
      BY <2>1, <2>2, <2>3
    <2>5. InTransit(Tail(toDev)) = {}
      BY <2>4 DEF InTransit
    <2>6. Tail(toDev) = <<>>
      <3>1. \A s \in Seq(Commands) : InTransit(s) = {} => s = <<>>
        BY TransitEmpty
      <3>2. QED
        BY <2>2, <2>5, <3>1, Zenon
    <2>7. InTransit(toDev) = {Head(toDev)}
      BY <1>1, <2>5, TransitTail
    <2>8. QED
      BY <2>1, <2>2, <2>6, <2>7
  <1> DEFINE c == Head(toDev)
             d == Data(taken + 1)
  <1>3. c \in Commands
    BY <1>2
  <1>4. ~AtPort
    BY <1>1 DEF OneCommand
  <1>5. \A i \in 1 .. Len(fromDev) : fromDev[i].type = "DATA"
    BY <1>4 DEF AtPort, InTransit
  <1>6. \/ /\ fromDev' = Append(fromDev, Resp(c))
           /\ c \in {"HELLO", "CAPS"} => UNCHANGED sched
        \/ fromDev' = Append(fromDev, Err(c)) /\ c \in {"QUERY", "ONCE", "START"}
        \/ fromDev' = fromDev \o <<Resp(c), d>> /\ c = "ONCE"
    <2> HIDE DEF FrameInv
    <2>1. QED
      BY DEF Answer
  <1>7. Resp(c).type = "RESP" /\ Err(c).type = "ERROR" /\ d.type = "DATA"
    BY DEF Resp, Err, Data
  <1>8. Resp(c) \in Frames /\ Err(c) \in Frames /\ d \in Frames
    BY <1>1, <1>3, MadeFrames
  <1> HIDE DEF c, d, FrameInv
  <1>9. ASSUME NEW f \in {Resp(c), Err(c)}, fromDev' = Append(fromDev, f)
        PROVE  /\ InTransit(fromDev') = InTransit(fromDev) \cup {f}
               /\ \A i, j \in 1 .. Len(fromDev') :
                    fromDev'[i].type # "DATA" /\ fromDev'[j].type # "DATA" => i = j
    <2>1. f \in Frames
      BY <1>8
    <2>2. \A i, j \in 1 .. Len(Append(fromDev, f)) :
            Append(fromDev, f)[i].type # "DATA" /\ Append(fromDev, f)[j].type # "DATA" => i = j
      BY <1>1, <1>5, <2>1, PortWritten
    <2>3. InTransit(Append(fromDev, f)) = InTransit(fromDev) \cup {f}
      BY <1>1, <2>1, TransitAppend
    <2>4. QED
      BY <1>9, <2>2, <2>3, Zenon
  <1>10. ASSUME fromDev' = fromDev \o <<Resp(c), d>>
         PROVE  /\ InTransit(fromDev') = InTransit(fromDev) \cup {Resp(c)} \cup {d}
                /\ \A i, j \in 1 .. Len(fromDev') :
                     fromDev'[i].type # "DATA" /\ fromDev'[j].type # "DATA" => i = j
    <2> DEFINE r == Resp(c)
               s == Append(fromDev, r)
    <2>1. r \in Frames
      BY <1>8
    <2> HIDE DEF r
    <2>2. s \in Seq(Frames) /\ fromDev \o <<r, d>> = Append(s, d)
      BY <1>1, <1>8, <2>1
    <2>3. \A i, j \in 1 .. Len(s) : s[i].type # "DATA" /\ s[j].type # "DATA" => i = j
      BY <1>1, <1>5, <2>1, PortWritten
    <2>4. InTransit(s) = InTransit(fromDev) \cup {r}
      BY <1>1, <2>1, TransitAppend
    <2> HIDE DEF s
    <2>5. fromDev' = Append(s, d)
      BY <1>10, <2>2 DEF r
    <2>6. InTransit(Append(s, d)) = InTransit(s) \cup {d}
      BY <1>8, <2>2, TransitAppend
    <2>7. \A i, j \in 1 .. Len(Append(s, d)) :
            Append(s, d)[i].type # "DATA" /\ Append(s, d)[j].type # "DATA" => i = j
      BY <1>7, <1>8, <2>2, <2>3, PortWritten
    <2>8. QED
      BY <2>4, <2>5, <2>6, <2>7 DEF r
  <1>11. CASE fromDev' = Append(fromDev, Resp(c)) /\ (c \in {"HELLO", "CAPS"} => UNCHANGED sched)
    BY <1>2, <1>7, <1>9, <1>11 DEF c
  <1>12. CASE fromDev' = Append(fromDev, Err(c)) /\ c \in {"QUERY", "ONCE", "START"}
    BY <1>2, <1>9, <1>12 DEF c
  <1>13. CASE fromDev' = fromDev \o <<Resp(c), d>> /\ c = "ONCE"
    BY <1>2, <1>7, <1>10, <1>13 DEF c
  <1>14. QED
    BY <1>6, <1>11, <1>12, <1>13

\* A step of the device touches neither the connections nor the spool.
LEMMA DeviceOnly ==
    ASSUME FrameInv, UNCHANGED <<spoolVars, bridgeVars, wireVars, clientVars>>
    PROVE  /\ DeliveryInStep' /\ BridgeStream' /\ SpoolOrder' /\ BatchOrder'
           /\ \A k \in Slots : ClientInStep(k)' /\ CoreStream(k)'
           /\ UNCHANGED <<bpc, bconn, rpc, batch, replaying, forwarding, deferred, toCore, toBridge,
                          cpc, ccmd, cret>>
  <1>1. /\ UNCHANGED <<bpc, bconn, rpc, batch, replaying, forwarding, deferred, toCore, toBridge,
                       cpc, ccmd, cret>>
        /\ UNCHANGED <<pending, tombs, lastRec, zombies, signalled, inflight, receipt, cpend, broken>>
    BY DEF spoolVars, mainVars, readerVars, eventVars, fwdVars, wireVars, clientVars
  <1>2. BridgeStream' /\ SpoolOrder' /\ BatchOrder'
    BY <1>1, SessionUntouched
  <1>3. DeliveryInStep'
    BY <1>1, CommandUntouched
  <1>4. QED
    BY <1>1, <1>2, <1>3, ClientUntouched

\* The device answers the only command under way.
LEMMA AnswerFrames ==
    ASSUME FrameInv, Answer
    PROVE  FrameRest'
  <1> DEFINE c == Head(toDev)
  <1>1. /\ DeliveryInStep' /\ BridgeStream' /\ SpoolOrder' /\ BatchOrder'
        /\ \A k \in Slots : ClientInStep(k)' /\ CoreStream(k)'
        /\ UNCHANGED <<bpc, bconn, rpc, batch, replaying, forwarding, deferred, toCore, toBridge,
                       cpc, ccmd, cret>>
    BY DeviceOnly DEF Answer
  <1>2. /\ InTransit(toDev) = {c} /\ toDev' = <<>> /\ c \in Commands
        /\ \E f \in {Resp(c), Err(c)} :
             /\ f = Err(c) => c \in {"QUERY", "ONCE", "START"}
             /\ f \in InTransit(fromDev')
             /\ \A g \in InTransit(fromDev') :
                  g \in InTransit(fromDev) \/ g = f \/ (g.type = "DATA" /\ c = "ONCE")
        /\ \A i, j \in 1 .. Len(fromDev') :
             fromDev'[i].type # "DATA" /\ fromDev'[j].type # "DATA" => i = j
        /\ c \in {"HELLO", "CAPS"} => UNCHANGED sched
    BY AnswerWritten
  <1>3. toDev # <<>>
    BY DEF Answer
  <1> HIDE DEF c
  <1>4. InTransit(toDev) = {c} /\ InTransit(toDev') = {}
    <2> HIDE DEF FrameInv
    <2>1. InTransit(<<>>) = {}
      BY DEF InTransit
    <2>2. QED
      BY <1>2, <2>1
  <1>5. PICK f \in {Resp(c), Err(c)} :
             /\ f = Err(c) => c \in {"QUERY", "ONCE", "START"}
             /\ f \in InTransit(fromDev')
             /\ \A g \in InTransit(fromDev') :
                  g \in InTransit(fromDev) \/ g = f \/ (g.type = "DATA" /\ c = "ONCE")
    BY <1>2
  <1>6. /\ f.cmd = c /\ f.type \in {"RESP", "ERROR"} /\ (f.type = "RESP" => f = Resp(c))
        /\ f.type = "ERROR" => f = Err(c)
    BY DEF Resp, Err
  <1>7. ~AtBridge /\ deferred = <<>> /\ ~AtPort /\ ~AtCore /\ bconn # 0
    BY <1>3 DEF OneCommand, SessionIsOver
  <1>8. c \in Underway
    BY <1>4 DEF Underway
  <1>9. \A g \in InTransit(fromDev') : g.type # "DATA" => g = f
    BY <1>5, <1>7 DEF AtPort
  <1>10. Underway' \subseteq {c}
    <2>1. {g \in InTransit(fromDev') : g.type # "DATA"} \subseteq {f}
      BY <1>9
    <2>2. {g \in InTransit(toBridge'[bconn']) : g.type = "CMD"} = {}
      BY <1>1, <1>7 DEF AtBridge
    <2>3. InTransit(deferred') = {}
      BY <1>1, <1>7 DEF InTransit
    <2>4. QED
      BY <1>4, <1>6, <2>1, <2>2, <2>3 DEF Underway
  <1>11. OneCommand'
    <2>1. ~AtBridge' /\ ~AtCore'
      BY <1>1, <1>7 DEF AtBridge, AtCore
    <2>2. Len(deferred') <= 1 /\ Len(toDev') <= 1
      BY <1>1, <1>2 DEF OneCommand
    <2> HIDE DEF FrameInv
    <2>3. QED
      BY <1>1, <1>2, <1>7, <2>1, <2>2 DEF OneCommand
  <1>12. CommandIsAwaited'
    BY <1>1, <1>8, <1>10 DEF CommandIsAwaited, Awaiting, Stage
  <1>13. ~forwarding => c = "HELLO"
    BY <1>4 DEF HelloFirst
  <1>14. HelloFirst'
    <2>1. forwarding \/ replaying => "HELLO" \notin Underway'
      BY <1>8, <1>10 DEF HelloFirst
    <2>2. ~forwarding => /\ ~sched'
                         /\ \A g \in InTransit(fromDev') : g = Resp("HELLO")
      <3>1. ~forwarding => UNCHANGED sched /\ ~sched
        BY <1>2, <1>13 DEF HelloFirst
      <3>2. ~forwarding => f = Resp("HELLO")
        BY <1>5, <1>13
      <3>3. QED
        BY <1>5, <1>13, <3>1, <3>2 DEF HelloFirst
    <2>3. QED
      BY <1>1, <1>4, <2>1, <2>2 DEF HelloFirst
  <1>15. ReplayFirst'
    <2>1. Starting(bconn) => c \in {"HELLO", "CAPS"}
      <3>1. Starting(bconn) => cpc[bconn] # "free" /\ Stage(bconn) \in {"backlog", "hello", "caps", "ready"}
        BY DEF Starting, Stage, Holding
      <3>2. Starting(bconn) => Awaiting(bconn) /\ c = ccmd[bconn]
        BY <1>7, <1>8, <3>1 DEF CommandIsAwaited
      <3>3. Starting(bconn) => Stage(bconn) \in {"hello", "caps"}
        BY <3>1, <3>2 DEF Awaiting
      <3>4. bconn \in Slots
        BY <1>7 DEF MainTypes
      <3>5. QED
        BY <3>2, <3>3, <3>4 DEF ClientInStep
    <2>2. Starting(bconn) => ~sched' /\ \A g \in InTransit(fromDev') : g.type # "DATA"
      <3>1. Starting(bconn) => ~sched /\ \A g \in InTransit(fromDev) : g.type # "DATA"
        BY <1>7 DEF ReplayFirst
      <3>2. QED
        BY <1>2, <1>5, <1>6, <2>1, <3>1
    <2>3. QED
      BY <1>1, <1>7, <2>2 DEF ReplayFirst, Starting, Stage
  <1>16. DeviceAnswers'
    BY <1>5, <1>6 DEF DeviceAnswers
  <1>17. SessionIsOver'
    BY <1>1, <1>7 DEF SessionIsOver
  <1>18. QED
    BY <1>1, <1>11, <1>12, <1>14, <1>15, <1>16, <1>17

\* A running schedule belongs to a session whose replay is over and whose
\* client is published.
LEMMA ScheduleFrames ==
    ASSUME FrameInv, PeriodicFrame \/ ScheduleEnds
    PROVE  FrameRest'
  <1>1. /\ DeliveryInStep' /\ BridgeStream' /\ SpoolOrder' /\ BatchOrder'
        /\ \A k \in Slots : ClientInStep(k)' /\ CoreStream(k)'
        /\ UNCHANGED <<bpc, bconn, rpc, batch, replaying, forwarding, deferred, toCore, toBridge,
                       cpc, ccmd, cret>>
    BY DeviceOnly DEF PeriodicFrame, ScheduleEnds
  <1>2. sched /\ UNCHANGED toDev
    BY DEF PeriodicFrame, ScheduleEnds
  <1>3. forwarding /\ bconn # 0 /\ ~Starting(bconn)
    BY <1>2 DEF HelloFirst, SessionIsOver, ReplayFirst
  <1>4. /\ {g \in InTransit(fromDev') : g.type # "DATA"} = {g \in InTransit(fromDev) : g.type # "DATA"}
        /\ \A i, j \in 1 .. Len(fromDev') :
             fromDev'[i].type # "DATA" /\ fromDev'[j].type # "DATA" => i = j
    <2>1. CASE ScheduleEnds
      BY <2>1 DEF ScheduleEnds, OneCommand
    <2>2. CASE PeriodicFrame
      <3> DEFINE d == Data(taken + 1)
      <3>1. d.type = "DATA" /\ d \in Frames
        <4>1. taken + 1 \in Nat
          BY DEF DeviceTypes
        <4>2. QED
          BY <4>1, MadeFrames DEF Data
      <3>2. fromDev \in Seq(Frames) /\ fromDev' = Append(fromDev, d)
        BY <2>2 DEF PeriodicFrame, DeviceTypes
      <3> HIDE DEF d
      <3>3. InTransit(fromDev') = InTransit(fromDev) \cup {d}
        BY <3>1, <3>2, TransitAppend
      <3>4. \A i, j \in 1 .. Len(fromDev) :
              fromDev[i].type # "DATA" /\ fromDev[j].type # "DATA" => i = j
        BY DEF OneCommand
      <3>5. \A i, j \in 1 .. Len(fromDev') :
              fromDev'[i].type # "DATA" /\ fromDev'[j].type # "DATA" => i = j
        <4>1. \A i, j \in 1 .. Len(Append(fromDev, d)) :
                Append(fromDev, d)[i].type # "DATA" /\ Append(fromDev, d)[j].type # "DATA" => i = j
          BY <3>1, <3>2, <3>4, PortWritten
        <4>2. QED
          BY <3>2, <4>1, Zenon
      <3>6. QED
        BY <3>1, <3>3, <3>5
    <2>3. QED
      BY <2>1, <2>2
  <1>5. UNCHANGED Underway /\ (AtPort' <=> AtPort)
    BY <1>1, <1>2, <1>4 DEF Underway, AtPort
  <1>6. OneCommand'
    BY <1>1, <1>2, <1>4, <1>5 DEF OneCommand, AtBridge, AtCore
  <1>7. CommandIsAwaited'
    BY <1>1, <1>5, CommandUntouched
  <1>8. HelloFirst'
    BY <1>1, <1>2, <1>3, <1>5 DEF HelloFirst
  <1>9. ReplayFirst'
    BY <1>1, <1>3 DEF ReplayFirst, Starting, Stage
  <1>10. DeviceAnswers'
    BY <1>4 DEF DeviceAnswers
  <1>11. SessionIsOver'
    BY <1>1, <1>3 DEF SessionIsOver
  <1>12. QED
    BY <1>1, <1>6, <1>7, <1>8, <1>9, <1>10, <1>11

-----------------------------------------------------------------------------
(* The theorems. *)

\* Nothing is under way at first.
LEMMA InitFrames == Init => FrameRest
  <1> SUFFICES ASSUME Init PROVE FrameRest
    OBVIOUS
  <1>1. InTransit(<<>>) = {} /\ Ordered(<<>>) /\ Len(<<>>) = 0
    BY OrderedEmpty DEF InTransit
  <1>2. /\ bpc = "down" /\ bconn = 0 /\ batch = <<>> /\ ~replaying /\ ~forwarding /\ ~sched
        /\ deferred = <<>> /\ toDev = <<>> /\ fromDev = <<>> /\ rpc = "off"
        /\ inflight = {} /\ signalled = {} /\ pending = {} /\ tombs = {} /\ zombies = {}
    BY DEF Init
  <1>3. \A k \in Slots : /\ toCore[k] = <<>> /\ toBridge[k] = <<>> /\ cpc[k] = "free"
                         /\ cpend[k] = NoRecord
    BY DEF Init
  <1>4. SessionIsOver
    BY <1>2 DEF SessionIsOver
  <1>5. BridgeStream
    BY <1>2, <1>3 DEF BridgeStream
  <1>6. \A k \in Slots : ClientInStep(k) /\ CoreStream(k)
    BY <1>1, <1>3 DEF ClientInStep, CoreStream, Stage, Holding
  <1>7. ~AtBridge /\ ~AtPort /\ ~AtCore /\ Underway = {}
    BY <1>1, <1>2 DEF AtBridge, AtPort, AtCore, Underway
  <1>8. OneCommand
    BY <1>1, <1>2, <1>7 DEF OneCommand
  <1>9. CommandIsAwaited /\ DeviceAnswers /\ HelloFirst /\ ReplayFirst
    BY <1>1, <1>2, <1>7 DEF CommandIsAwaited, DeviceAnswers, HelloFirst, ReplayFirst
  <1>10. DeliveryInStep
    BY <1>2 DEF DeliveryInStep, ReaderBusy
  <1>11. SpoolOrder /\ BatchOrder
    BY <1>1, <1>2 DEF SpoolOrder, BatchOrder
  <1>12. QED
    BY <1>4, <1>5, <1>6, <1>8, <1>9, <1>10, <1>11

\* A step of the core.
LEMMA ClientFrames ==
    ASSUME FrameInv, NEW k \in Slots, Client(k) \/ Request(k)
    PROVE  FrameRest'
  <1>1. CASE Commit(k)
    <2>1. /\ cpc[k] = "accepted" /\ UNCHANGED <<devVars, spoolVars, bridgeVars>>
          /\ Decide(k) \/ RefuseReplay(k)
      BY <1>1 DEF Commit
    <2>2. QED
      BY <1>1, <2>1, DecideFrames, LossFrames
  <1>2. CASE Accept(k) \/ HelloDone(k) \/ CapsDone(k) \/ Publish(k) \/ Replied(k)
    BY <1>2, AcceptFrames, HelloFrames, CapsFrames, PublishFrames, ReplyFrames
  <1>3. CASE \/ AcceptDelivery(k) \/ Decline(k) \/ SendReceipt(k) \/ Confirmed(k) \/ Orphaned(k)
             \/ ClientEof(k)
    BY <1>3, AcceptDeliveryFrames, DeclineFrames, ReceiptFrames, ConfirmFrames, LossFrames
  <1>4. CASE Request(k)
    BY <1>4, RequestSends, SendFrames
  <1>5. QED
    BY <1>1, <1>2, <1>3, <1>4 DEF Client

\* Every step keeps the frames in step.
LEMMA StepFrames ==
    ASSUME FrameInv, [Next]_vars
    PROVE  FrameRest'
  <1>1. CASE UNCHANGED vars
    <2>1. UNCHANGED <<devVars, spoolVars, bridgeVars, toCore, broken, ccmd, cret, cpc, cpend, toBridge>>
      BY <1>1 DEF vars, wireVars, clientVars
    <2>2. QED
      BY <2>1, ClientsGo
  <1> HIDE DEF FrameInv, FrameRest
  <1>2. ASSUME NEW k \in Slots, Open(k) PROVE FrameRest'
    BY <1>2, OpenFrames
  <1>3. CASE Bridge
    BY <1>3, ForwardFrames, StoreFrames, ReplayFrames, DeliverFrames, WakeFrames, EndFrames
       DEF Bridge
  <1>4. CASE Reader
    BY <1>4, ReadFrames, SignalFrames, MarkFrames, RespondFrames DEF Reader
  <1>5. ASSUME NEW z \in zombies, ZombieMark(z) PROVE FrameRest'
    BY <1>5, ZombieFrames
  <1>6. CASE Device
    BY <1>6, AnswerFrames, ScheduleFrames DEF Device
  <1>7. ASSUME NEW k \in Slots, Client(k) \/ Request(k) PROVE FrameRest'
    BY <1>7, ClientFrames
  <1>8. CASE Bookkeeping
    BY <1>8, BookkeepingFrames
  <1>9. CASE Faults
    BY <1>9, EndFrames, LossFrames, BreakFrames DEF Faults
  <1>10. QED
    BY <1>1, <1>2, <1>3, <1>4, <1>5, <1>6, <1>7, <1>8, <1>9 DEF Next

\* One command and one delivery of a session are under way at a time, each in
\* one place, and the spool is emptied in the order of its records, whatever
\* crashes, breaks or times out.
THEOREM FrameInvariant == Spec => []FrameInv
  <1>1. PathInv /\ FrameRest /\ [Next]_vars => FrameRest'
    BY StepFrames
  <1>2. PathInv /\ FrameRest <=> FrameInv
    OBVIOUS
  <1> HIDE DEF FrameInv, FrameRest, PathInv
  <1>3. QED
    BY <1>1, <1>2, InitFrames, PathInvariant, PTL DEF Spec

\* The reader thread of the bridge meets nothing it takes for a protocol
\* violation: no receipt for an unknown record or a delivery that is not in
\* flight, no command that finds the queue full, for every queue length, every
\* tombstone limit and every number of captures, connections and faults.
THEOREM ReaderNeverErrsAlways == Spec => []ReaderNeverErrs
  <1>1. FrameInv => ReaderNeverErrs
    BY DEF DeliveryInStep, ReaderNeverErrs
  <1> HIDE DEF FrameInv
  <1>2. QED
    BY <1>1, FrameInvariant, PTL

\* No client of the core ever reads a frame out of step with what it waits for.
THEOREM NeverOutOfStepAlways == Spec => []NeverOutOfStep
  <1>1. FrameInv => NeverOutOfStep
    BY DEF ClientInStep, NeverOutOfStep
  <1> HIDE DEF FrameInv
  <1>2. QED
    BY <1>1, FrameInvariant, PTL

\* Only Publish publishes a client.
LEMMA OnlyPublish ==
    ASSUME FrameInv, [Next]_vars, pub' # pub, pub' # 0
    PROVE  cpc[pub'] = "ready" /\ pub' \in Slots
  <1> HIDE DEF FrameInv
  <1>1. ASSUME UNCHANGED coreVars \/ UNCHANGED pub PROVE FALSE
    BY <1>1 DEF coreVars
  <1>2. ~ UNCHANGED vars
    BY <1>1 DEF vars
  <1>3. ASSUME NEW k \in Slots, Open(k) PROVE FALSE
    BY <1>1, <1>3 DEF Open
  <1>4. CASE Bridge
    BY <1>1, <1>4
       DEF Bridge, Forward, Store, Replay, Deliver, Wake, CommitTimeout, Stopped, EndSession
  <1>5. CASE Reader
    BY <1>1, <1>5 DEF Reader, Read, ReadEof, Mark, Respond, Signal
  <1>6. ASSUME NEW z \in zombies, ZombieMark(z) PROVE FALSE
    BY <1>1, <1>6 DEF ZombieMark
  <1>7. CASE Device
    BY <1>1, <1>7 DEF Device, Answer, PeriodicFrame, ScheduleEnds
  <1>8. ASSUME NEW k \in Slots, Client(k) PROVE cpc[pub'] = "ready" /\ pub' \in Slots
    <2>1. CASE Publish(k)
      BY <2>1 DEF Publish
    <2>2. CASE ClientEof(k)
      BY <2>2 DEF ClientEof, LoseClient
    <2>3. CASE \/ Accept(k) \/ HelloDone(k) \/ CapsDone(k) \/ Replied(k) \/ AcceptDelivery(k)
               \/ Decline(k) \/ Commit(k) \/ SendReceipt(k) \/ Orphaned(k) \/ Confirmed(k)
      BY <1>1, <2>3 DEF Accept, HelloDone, CapsDone, Replied, AcceptDelivery, Decline, Commit,
                        Decide, RefuseReplay, SendReceipt, Orphaned, Confirmed
    <2>4. QED
      BY <1>8, <2>1, <2>2, <2>3 DEF Client
  <1>9. ASSUME NEW k \in Slots, Request(k) PROVE FALSE
    BY <1>1, <1>9, RequestSends DEF Send
  <1>10. CASE Bookkeeping
    BY <1>1, <1>10 DEF Bookkeeping, Register, RunFails, SessionFails, StartCleanup
  <1>11. CASE Faults
    BY <1>1, <1>11 DEF Faults, SerialLost, BridgeCrash, EndSession, CoreCrash, LinkBreak,
                       ClientTimeout, LoseClient
  <1>12. QED
    BY <1>2, <1>3, <1>4, <1>5, <1>6, <1>7, <1>8, <1>9, <1>10, <1>11 DEF Next

\* A client is published only when the spool was drained on its connection.
THEOREM PublishedDrainedAlways == Spec => PublishedDrained
  <1>1. ASSUME FrameInv, [Next]_vars, pub' # pub, pub' # 0, Up(pub')
        PROVE  pending = {}
    <2>1. cpc[pub'] = "ready" /\ bconn = pub' /\ bconn # 0
      BY <1>1, OnlyPublish DEF Up
    <2>2. Starting(bconn)
      BY <2>1 DEF Starting, Stage, Holding
    <2>3. forwarding /\ bpc = "serving"
      BY <1>1, <2>1, <2>2 DEF ReplayFirst
    <2>4. batch = <<>> /\ pending \subseteq InTransit(batch)
      BY <1>1, <2>3 DEF BatchOrder
    <2>5. QED
      BY <2>4 DEF InTransit
  <1> HIDE DEF FrameInv
  <1>2. FrameInv /\ [Next]_vars => [pub' # pub /\ pub' # 0 /\ Up(pub') => pending = {}]_vars
    BY <1>1
  <1>3. QED
    BY <1>2, FrameInvariant, PTL DEF Spec, PublishedDrained

-----------------------------------------------------------------------------
(***************************************************************************)
(* A capture in the spool can be replayed, for every number of captures,    *)
(* connections and faults: the policy the core needs to decide it is        *)
(* withdrawn only when nothing is under way that could lead to a capture    *)
(* and nothing in the spool is undecided. The exceptions are the two ways   *)
(* that stranded records: the cleanup of a START refused over a declined    *)
(* delivery, and a run that is sent although it lost its row.               *)
(***************************************************************************)

USE DEF FrameInv, FrameRest, PathInv, DeliveryInv, TypeOK, bridgeVars

-----------------------------------------------------------------------------
(* The invariant, and what leads to captures. *)

\* The invariant beyond FrameInv.
PolicyRest ==
    /\ OneInitialised /\ OnlyPublished /\ OthersBlocked /\ CapturesArePublished
    /\ WithdrawnIsQuiet /\ CleanupIsSafe /\ OneStart /\ ScheduleIsKnown /\ PolicyKept

\* Nothing leads to a capture without a session.
LEMMA CapturingHasSession ==
    ASSUME FrameInv
    PROVE  /\ Capturing => bconn # 0
           /\ "START" \in Unanswered => Capturing
           /\ sched => Capturing
  <1>1. ASSUME bconn = 0 PROVE ~Capturing
    <2>1. ~sched /\ deferred = <<>> /\ toDev = <<>> /\ fromDev = <<>>
      BY <1>1 DEF SessionIsOver
    <2>2. InTransit(deferred) = {} /\ InTransit(toDev) = {} /\ InTransit(fromDev) = {}
      BY <2>1 DEF InTransit
    <2>3. QED
      BY <1>1, <2>1, <2>2 DEF Capturing, Unanswered
  <1>2. QED
    BY <1>1 DEF Capturing

\* Commands that lead to captures come from the stream to the bridge.
LEMMA CapturingFrom ==
    ASSUME UNCHANGED <<sched, fromDev, deferred, toDev, bconn>>,
           bconn # 0 => \A f \in InTransit(toBridge'[bconn]) :
             f.type = "CMD" /\ f.cmd \in {"ONCE", "START"} => f \in InTransit(toBridge[bconn])
    PROVE  (Capturing' => Capturing) /\ ("START" \in Unanswered' => "START" \in Unanswered)
  <1>1. \A c \in {"ONCE", "START"} : c \in Unanswered' => c \in Unanswered
    BY DEF Unanswered
  <1>2. QED
    BY <1>1 DEF Capturing

\* Writing to the bridge adds one frame to one stream, if the link is up.
LEMMA BridgeStreamGains ==
    ASSUME FrameInv, NEW k \in Slots, NEW f \in Frames, toBridge' = ToBridgeWith(k, f)
    PROVE  \A j \in Slots : \A g \in InTransit(toBridge'[j]) :
             g \in InTransit(toBridge[j]) \/ (g = f /\ j = k /\ Up(k))
  <1> DEFINE a == Append(toBridge[k], f)
  <1>1. toBridge \in [Slots -> Seq(Frames)] /\ toBridge[k] \in Seq(Frames)
    BY DEF WireTypes
  <1>2. InTransit(a) = InTransit(toBridge[k]) \cup {f}
    BY <1>1, TransitAppend
  <1>3. toBridge' = IF Up(k) THEN [toBridge EXCEPT ![k] = a] ELSE toBridge
    BY DEF ToBridgeWith
  <1> HIDE DEF a
  <1>4. \A j \in Slots : toBridge'[j] = IF j = k /\ Up(k) THEN a ELSE toBridge[j]
    BY <1>1, <1>3
  <1>5. ASSUME NEW j \in Slots
        PROVE  InTransit(toBridge'[j]) \subseteq
                 InTransit(toBridge[j]) \cup (IF j = k /\ Up(k) THEN {f} ELSE {})
    BY <1>2, <1>4, Zenon
  <1>6. QED
    BY <1>5

\* Other frames lead to no captures.
LEMMA NoCaptureSent ==
    ASSUME FrameInv, NEW k \in Slots, NEW f \in Frames, toBridge' = ToBridgeWith(k, f),
           f.type = "CMD" => f.cmd \notin {"ONCE", "START"}
    PROVE  bconn # 0 => \A g \in InTransit(toBridge'[bconn]) :
             g.type = "CMD" /\ g.cmd \in {"ONCE", "START"} => g \in InTransit(toBridge[bconn])
  <1>1. bconn \in Slots \cup {0}
    BY DEF MainTypes
  <1>2. \A j \in Slots : \A g \in InTransit(toBridge'[j]) :
          g \in InTransit(toBridge[j]) \/ (g = f /\ j = k /\ Up(k))
    BY BridgeStreamGains
  <1> HIDE DEF FrameInv
  <1>3. QED
    BY <1>1, <1>2

\* A client that is being initialised is one the acceptor works on.
LEMMA StartingClients ==
    ASSUME FrameInv, NEW k \in Slots
    PROVE  /\ Starting(k) <=> Initialising(k) \/ cpc[k] = "backlog"
           /\ Initialising(k) <=> Stage(k) \in {"hello", "caps", "ready"}
           /\ Stage(k) = "ready" <=> cpc[k] = "ready"
           /\ cpc[k] = "free" => Stage(k) = "free"
  <1>1. cret[k] \in {"free", "hello", "caps", "await", "idle"}
    BY DEF ClientTypes, ReturnPcs
  <1>2. QED
    BY <1>1 DEF Starting, Initialising, Stage, Holding

\* A step of the core that sends nothing that leads to a capture, makes no
\* client ready without its answer, and withdraws a policy only as CleanupIsSafe
\* allows.
LEMMA CoreKeeps ==
    ASSUME PolicyInv, UNCHANGED <<sched, fromDev, deferred, toDev, bconn, pending>>,
           resolved \subseteq resolved',
           bconn # 0 => \A f \in InTransit(toBridge'[bconn]) :
             f.type = "CMD" /\ f.cmd \in {"ONCE", "START"} => f \in InTransit(toBridge[bconn]),
           \A j \in Slots : cpc'[j] # "free" =>
             /\ cpc[j] # "free"
             /\ InTransit(toCore'[j]) \subseteq InTransit(toCore[j])
             /\ Stage(j)' \in {"backlog", "hello", "caps", "ready"} =>
                  \/ Stage(j)' = Stage(j) \/ Stage(j)' \in {"backlog", "hello"}
                  \/ \E f \in InTransit(toCore[j]) : f.type = "RESP"
             /\ Stage(j)' \in {"backlog", "hello", "caps", "ready"} => Starting(j)
             /\ cpc'[j] = "ready" => cpc[j] = "ready" \/ Resp("CAPS") \in InTransit(toCore[j]),
           \A j \in Slots : cpc'[j] = "free" => Stage(j)' = "free",
           \/ pub' = pub
           \/ pub' = 0 /\ (pub # 0 => cpc'[pub] = "free"),
           undo' /\ pub' # 0 /\ context' = "schedule" => Quiet \/ OverDeclined' \/ stranded',
           context # "none" \/ stranded => context' # "none" \/ stranded' \/ Quiet,
           pub' = bconn /\ sched /\ ~running'
             => (Stage(bconn)' = "await" /\ ccmd'[bconn] = "START") \/ cpc'[bconn] = "declined"
    PROVE  /\ OthersBlocked' /\ CapturesArePublished' /\ WithdrawnIsQuiet' /\ CleanupIsSafe'
           /\ ScheduleIsKnown' /\ PolicyKept'
  <1> USE DEF PolicyInv
  <1>1. (Capturing' => Capturing) /\ ("START" \in Unanswered' => "START" \in Unanswered)
    BY CapturingFrom
  <1>2. Undecided' \subseteq Undecided
    BY DEF Undecided
  <1>3. Quiet => Quiet'
    BY <1>1, <1>2 DEF Quiet
  <1>4. bconn \in Slots \cup {0} /\ (Capturing => bconn # 0) /\ (sched => Capturing)
    BY CapturingHasSession DEF MainTypes
  <1>5. OthersBlocked'
    <2>1. bconn # 0 /\ (pub' = bconn \/ Capturing') => bconn # 0 /\ (pub = bconn \/ Capturing)
      BY <1>1
    <2>2. ASSUME NEW k \in Slots \ {bconn}, Starting(k)', bconn # 0, pub = bconn \/ Capturing
          PROVE  /\ Stage(k)' \in {"backlog", "hello"}
                 /\ \A f \in InTransit(toCore'[k]) : f.type # "RESP"
      <3>1. Stage(k)' \in {"backlog", "hello", "caps", "ready"} /\ cpc'[k] # "free"
        BY <2>2 DEF Starting
      <3>2. Starting(k)
        BY <3>1
      <3>3. Stage(k) \in {"backlog", "hello"} /\ \A f \in InTransit(toCore[k]) : f.type # "RESP"
        BY <2>2, <3>2 DEF OthersBlocked
      <3>4. QED
        BY <3>1, <3>3
    <2>3. QED
      BY <2>1, <2>2 DEF OthersBlocked
  <1>6. CapturesArePublished'
    BY <1>1, <1>4 DEF CapturesArePublished
  <1>7. WithdrawnIsQuiet' /\ CleanupIsSafe'
    <2>1. CleanupIsSafe'
      BY <1>3 DEF CleanupIsSafe
    <2>2. ASSUME NEW k \in Slots, cpc'[k] # "free"
          PROVE  /\ cpc'[k] = "ready" \/ Resp("CAPS") \in InTransit(toCore'[k]) => Quiet'
                 /\ Err("START") \in InTransit(toCore'[k]) => Quiet'
      BY <1>3, <2>2 DEF WithdrawnIsQuiet
    <2>3. QED
      BY <2>1, <2>2 DEF WithdrawnIsQuiet
  <1>8. ScheduleIsKnown'
    BY <1>1 DEF ScheduleIsKnown
  <1>9. PolicyKept'
    BY <1>1, <1>2, <1>3 DEF PolicyKept, Quiet
  <1>10. QED
    BY <1>5, <1>6, <1>7, <1>8, <1>9

\* A step of the bridge or the device that leads to captures only if some were
\* to come already, and passes an answer on only when what it tells is so.
LEMMA BridgeKeeps ==
    ASSUME PolicyInv,
           UNCHANGED <<cpc, ccmd, cret, acceptor, pub,
                       running, undo, early, resolved, context, stranded>>,
           bconn' = bconn \/ (bconn' = 0 /\ ~Capturing'),
           Capturing' => Capturing, Undecided' \subseteq Undecided \/ Capturing,
           \A k \in Slots : \A f \in InTransit(toCore'[k]) : f.type \in {"RESP", "ERROR"} =>
             \/ f \in InTransit(toCore[k])
             \/ k = bconn /\ (f \in {Resp("CAPS"), Err("START")} => Quiet),
           ScheduleIsKnown'
    PROVE  PolicyRest'
  <1> USE DEF PolicyInv
  <1>1. OneInitialised'
    BY DEF OneInitialised, Initialising
  <1>2. OnlyPublished'
    BY DEF OnlyPublished, Initialising, Stage
  <1>3. Quiet => Quiet'
    BY DEF Quiet
  <1>4. OthersBlocked'
    <2>1. ASSUME bconn' # 0, pub' = bconn' \/ Capturing', NEW k \in Slots \ {bconn'}, Starting(k)'
          PROVE  /\ Stage(k)' \in {"backlog", "hello"}
                 /\ \A f \in InTransit(toCore'[k]) : f.type # "RESP"
      <3>1. bconn' = bconn /\ Starting(k) /\ k # bconn /\ Stage(k)' = Stage(k) /\ k \in Slots
        BY <2>1 DEF Starting, Stage
      <3>2. Stage(k) \in {"backlog", "hello"} /\ \A f \in InTransit(toCore[k]) : f.type # "RESP"
        BY <2>1, <3>1 DEF OthersBlocked
      <3>3. \A f \in InTransit(toCore'[k]) : f.type = "RESP" => f \in InTransit(toCore[k])
        BY <3>1
      <3>4. QED
        BY <3>1, <3>2, <3>3
    <2>2. QED
      BY <2>1 DEF OthersBlocked
  <1>5. CapturesArePublished'
    BY DEF CapturesArePublished
  <1>6. WithdrawnIsQuiet' /\ CleanupIsSafe' /\ OneStart'
    <2>1. CleanupIsSafe' /\ OneStart'
      BY <1>3 DEF CleanupIsSafe, OverDeclined, OneStart, InCall
    <2>2. Resp("CAPS").type = "RESP" /\ Err("START").type = "ERROR"
      BY DEF Resp, Err
    <2>3. ASSUME NEW k \in Slots, cpc'[k] # "free"
          PROVE  /\ cpc'[k] = "ready" \/ Resp("CAPS") \in InTransit(toCore'[k]) => Quiet'
                 /\ Err("START") \in InTransit(toCore'[k]) => Quiet'
      <3>1. cpc'[k] = "ready" => Quiet'
        BY <1>3, <2>3 DEF WithdrawnIsQuiet
      <3>2. Resp("CAPS") \in InTransit(toCore'[k]) => Quiet'
        BY <1>3, <2>2, <2>3 DEF WithdrawnIsQuiet
      <3>3. Err("START") \in InTransit(toCore'[k]) => Quiet'
        BY <1>3, <2>2, <2>3 DEF WithdrawnIsQuiet
      <3>4. QED
        BY <3>1, <3>2, <3>3
    <2>4. QED
      BY <2>1, <2>3 DEF WithdrawnIsQuiet
  <1>7. PolicyKept'
    BY DEF PolicyKept
  <1>8. QED
    BY <1>1, <1>2, <1>4, <1>5, <1>6, <1>7 DEF PolicyRest

\* A step that adds nothing anywhere: the commands and captures under way at
\* most move on, the spool gets no record, and no answer is passed on.
LEMMA NothingAdded ==
    ASSUME PolicyInv,
           UNCHANGED <<fromDev, bconn, cpc, ccmd, cret, acceptor, pub,
                       running, undo, early, resolved, context, stranded>>,
           sched' => sched, Unanswered' \subseteq Unanswered, pending' \subseteq pending,
           \A k \in Slots : \A f \in InTransit(toCore'[k]) :
             f.type \in {"RESP", "ERROR"} => f \in InTransit(toCore[k])
    PROVE  PolicyRest'
  <1> USE DEF PolicyInv
  <1>1. (Capturing' => Capturing) /\ Undecided' \subseteq Undecided
    BY DEF Capturing, Undecided
  <1>2. Resp("STOP").type = "RESP"
    BY DEF Resp
  <1>3. ScheduleIsKnown'
    <2>1. "START" \in Unanswered' => ~sched'
      BY DEF ScheduleIsKnown
    <2>2. \A i \in 1 .. Len(fromDev') :
            /\ fromDev'[i] = Resp("STOP") => ~sched'
            /\ fromDev'[i] = Err("START")
                 => ~sched' /\ \A j \in 1 .. Len(fromDev') : i < j => fromDev'[j].type # "DATA"
      BY DEF ScheduleIsKnown
    <2>3. \A k \in Slots : cpc'[k] # "free" /\ Resp("STOP") \in InTransit(toCore'[k]) => ~sched'
      BY <1>2 DEF ScheduleIsKnown
    <2>4. pub' = bconn' /\ sched' /\ ~running'
            => (Stage(bconn)' = "await" /\ ccmd'[bconn'] = "START") \/ cpc'[bconn'] = "declined"
      BY DEF ScheduleIsKnown, Stage
    <2>5. QED
      BY <2>1, <2>2, <2>3, <2>4 DEF ScheduleIsKnown
  <1> HIDE DEF PolicyInv
  <1>4. QED
    BY <1>1, <1>3, BridgeKeeps

\* The steps of the delivery and of the reader thread.
LEMMA DeliveryPolicy ==
    ASSUME PolicyInv,
           \/ Deliver \/ Wake \/ ReadEof \/ Mark \/ Respond \/ Signal \/ ScheduleEnds
           \/ \E z \in zombies : ZombieMark(z)
    PROVE  PolicyRest'
  <1>1. /\ UNCHANGED <<fromDev, bconn, cpc, ccmd, cret, acceptor, pub,
                       running, undo, early, resolved, context, stranded>>
        /\ UNCHANGED <<toBridge, deferred, toDev>> /\ (sched' => sched)
    BY
       DEF Deliver, Wake, ReadEof, Mark, Respond, Signal, ScheduleEnds, ZombieMark, devVars,
           mainVars,
           fwdVars, wireVars, clientVars, coreVars, storeVars
  <1>2. Unanswered' \subseteq Unanswered
    BY <1>1 DEF Unanswered
  <1>3. pending' \subseteq pending
    BY DEF Deliver, Wake, ReadEof, Mark, Respond, Signal, ScheduleEnds, ZombieMark, spoolVars,
           MarkCommitted
  <1>4. ASSUME NEW k \in Slots, NEW f \in InTransit(toCore'[k]), f.type \in {"RESP", "ERROR"}
        PROVE  f \in InTransit(toCore[k])
    <2>1. CASE toCore' = toCore
      BY <1>4, <2>1
    <2>2. ASSUME NEW g \in Frames, g.type \notin {"RESP", "ERROR"}, bconn # 0,
                 toCore' = ToCoreWith(bconn, g)
          PROVE  f \in InTransit(toCore[k])
      BY <1>4, <2>2, StreamWritten DEF PolicyInv
    <2>3. CASE Deliver
      <3>1. bconn # 0 /\ batch # <<>> /\ batch \in Seq(Records)
        BY <2>3 DEF PolicyInv, Deliver, SessionHasConnection, MainTypes
      <3>2. Head(batch) \in AnyRecord
        BY <3>1, SeqTypes DEF Records, AnyRecord
      <3>3. Delivery(Head(batch)) \in Frames /\ Delivery(Head(batch)).type = "DELIVERY"
        BY <3>2, MadeFrames DEF Delivery
      <3>4. QED
        BY <2>2, <2>3, <3>1, <3>3 DEF Deliver
    <2>4. CASE Respond
      <3>1. bconn # 0 /\ receipt \in AnyRecord
        BY <2>4 DEF PolicyInv, Respond, SessionHasConnection, ReaderTypes
      <3>2. CommitAck(receipt) \in Frames /\ CommitAck(receipt).type = "COMMITTED"
        BY <3>1, MadeFrames DEF CommitAck
      <3>3. QED
        BY <2>1, <2>2, <2>4, <3>1, <3>2 DEF Respond
    <2>5. QED
      BY <2>1, <2>3, <2>4 DEF Wake, ReadEof, Mark, Signal, ScheduleEnds, ZombieMark, wireVars
  <1>5. QED
    BY <1>1, <1>2, <1>3, <1>4, NothingAdded

\* A command moves on, or a link breaks.
LEMMA MovePolicy ==
    ASSUME PolicyInv, Read \/ Replay \/ \E k \in Slots : LinkBreak(k)
    PROVE  PolicyRest'
  <1>1. /\ UNCHANGED <<sched, fromDev, bconn, cpc, ccmd, cret, acceptor, pub, running, undo, early>>
        /\ UNCHANGED <<resolved, context, stranded, pending>>
    BY DEF Read, Replay, LinkBreak, devVars, mainVars, spoolVars, bridgeVars, clientVars, coreVars,
           storeVars
  <1>2. InTransit(<<>>) = {}
    BY DEF InTransit
  <1>3. deferred \in Seq(Commands) /\ toDev \in Seq(Commands) /\ toBridge \in [Slots -> Seq(Frames)]
        /\ toCore \in [Slots -> Seq(Frames)] /\ bconn \in Slots \cup {0}
    BY DEF PolicyInv, QueueTypes, DeviceTypes, WireTypes, MainTypes
  <1>4. ASSUME NEW k \in Slots, NEW f \in InTransit(toCore'[k])
        PROVE  f \in InTransit(toCore[k])
    <2>1. toCore'[k] = toCore[k] \/ toCore'[k] = <<>>
      BY <1>3 DEF Read, Replay, LinkBreak, wireVars
    <2>2. QED
      BY <1>2, <1>4, <2>1
  <1>5. CASE Replay
    <2>1. toBridge' = toBridge
      BY <1>5 DEF Replay, wireVars
    <2>2. InTransit(deferred') \cup InTransit(toDev') \subseteq InTransit(deferred) \cup InTransit(toDev)
      <3>1. CASE deferred' = deferred /\ toDev' = toDev
        BY <3>1
      <3>2. CASE deferred' = <<>> /\ toDev' = toDev \o deferred
        <4>1. deferred # <<>> => toDev = <<>>
          BY DEF PolicyInv, OneCommand
        <4>2. deferred = <<>> => toDev \o deferred = toDev
          BY <1>3
        <4>3. toDev = <<>> => toDev \o deferred = deferred
          BY <1>3
        <4>4. QED
          BY <1>2, <3>2, <4>1, <4>2, <4>3
      <3>3. QED
        BY <1>5, <3>1, <3>2 DEF Replay, fwdVars
    <2>3. Unanswered' \subseteq Unanswered
      BY <1>1, <2>1, <2>2 DEF Unanswered
    <2>4. QED
      BY <1>1, <1>4, <2>3, NothingAdded
  <1>6. ASSUME NEW k \in Slots, LinkBreak(k) PROVE PolicyRest'
    <2>1. UNCHANGED <<deferred, toDev>>
      BY <1>6 DEF LinkBreak, devVars, fwdVars
    <2>2. \A j \in Slots : InTransit(toBridge'[j]) \subseteq InTransit(toBridge[j])
      BY <1>2, <1>3, <1>6 DEF LinkBreak
    <2>3. Unanswered' \subseteq Unanswered
      BY <1>1, <1>3, <2>1, <2>2 DEF Unanswered
    <2>4. QED
      BY <1>1, <1>4, <2>3, NothingAdded
  <1>7. CASE Read
    <2> DEFINE f == Head(toBridge[bconn])
    <2>1. /\ bconn # 0 /\ bconn \in Slots /\ f \in Frames
          /\ InTransit(toBridge[bconn]) = {f} \cup InTransit(toBridge'[bconn])
      BY <1>7, BridgeRead DEF PolicyInv
    <2>2. \/ UNCHANGED <<toDev, deferred>>
          \/ f.type = "CMD" /\ toDev' = Append(toDev, f.cmd) /\ UNCHANGED deferred
          \/ f.type = "CMD" /\ deferred' = Append(deferred, f.cmd) /\ UNCHANGED toDev
      BY <1>7 DEF Read
    <2>3. f.type = "CMD" => f.cmd \in Commands
      BY <2>1, FrameFields
    <2> HIDE DEF f
    <2>4. f.type = "CMD" => /\ InTransit(Append(toDev, f.cmd)) = InTransit(toDev) \cup {f.cmd}
                            /\ InTransit(Append(deferred, f.cmd)) = InTransit(deferred) \cup {f.cmd}
      BY <1>3, <2>3, TransitAppend
    <2>5. InTransit(deferred') \cup InTransit(toDev') \subseteq
            InTransit(deferred) \cup InTransit(toDev) \cup (IF f.type = "CMD" THEN {f.cmd} ELSE {})
      <3>1. CASE UNCHANGED <<toDev, deferred>>
        BY <3>1
      <3>2. CASE f.type = "CMD" /\ toDev' = Append(toDev, f.cmd) /\ UNCHANGED deferred
        BY <2>4, <3>2, Zenon
      <3>3. CASE f.type = "CMD" /\ deferred' = Append(deferred, f.cmd) /\ UNCHANGED toDev
        BY <2>4, <3>3, Zenon
      <3>4. QED
        BY <2>2, <3>1, <3>2, <3>3
    <2>6. Unanswered' \subseteq Unanswered
      BY <1>1, <2>1, <2>5 DEF Unanswered
    <2>7. QED
      BY <1>1, <1>4, <2>6, NothingAdded
  <1>8. QED
    BY <1>5, <1>6, <1>7

\* A capture comes off the serial port: its policy is there, as it was for the
\* frame.
LEMMA StorePolicy ==
    ASSUME PolicyInv, Store
    PROVE  PolicyRest'
  <1>1. /\ fromDev # <<>> /\ Head(fromDev).type = "DATA" /\ fromDev' = Tail(fromDev)
        /\ UNCHANGED <<cpc, ccmd, cret, acceptor, pub,
                       running, undo, early, resolved, context, stranded>>
        /\ UNCHANGED <<sched, toDev, bconn, deferred, toBridge, toCore>>
    BY DEF Store, fwdVars, wireVars, clientVars, coreVars, storeVars
  <1>2. InTransit(fromDev) = {Head(fromDev)} \cup InTransit(fromDev')
    BY <1>1, PortRead DEF PolicyInv
  <1>3. UNCHANGED Unanswered
    BY <1>1 DEF Unanswered
  <1>4. Capturing /\ (Capturing' => Capturing)
    BY <1>1, <1>2, <1>3 DEF Capturing
  <1>5. \A i \in 1 .. Len(fromDev') : i + 1 \in 1 .. Len(fromDev) /\ fromDev'[i] = fromDev[i + 1]
    <2>1. fromDev \in Seq(Frames)
      BY DEF PolicyInv, DeviceTypes
    <2>2. QED
      BY <1>1, <2>1, TailElements
  <1>6. ASSUME NEW i \in 1 .. Len(fromDev')
        PROVE  /\ fromDev'[i] = Resp("STOP") => ~sched
               /\ fromDev'[i] = Err("START")
                    => ~sched /\ \A j \in 1 .. Len(fromDev') : i < j => fromDev'[j].type # "DATA"
    <2>1. i + 1 \in 1 .. Len(fromDev) /\ fromDev'[i] = fromDev[i + 1]
      BY <1>5
    <2>2. /\ fromDev[i + 1] = Resp("STOP") => ~sched
          /\ fromDev[i + 1] = Err("START")
               => ~sched /\ \A j \in 1 .. Len(fromDev) : i + 1 < j => fromDev[j].type # "DATA"
      BY <2>1 DEF PolicyInv, ScheduleIsKnown
    <2>3. \A j \in 1 .. Len(fromDev') : i < j => i + 1 < j + 1
      OBVIOUS
    <2>4. QED
      BY <1>5, <2>1, <2>2, <2>3
  <1>7. ScheduleIsKnown'
    BY <1>1, <1>3, <1>6 DEF PolicyInv, ScheduleIsKnown, Stage
  <1>8. \A k \in Slots : \A f \in InTransit(toCore'[k]) : f \in InTransit(toCore[k])
    BY <1>1
  <1>9. QED
    BY <1>1, <1>4, <1>7, <1>8, BridgeKeeps

\* With a session everything that leads to captures ends.
LEMMA EndPolicy ==
    ASSUME PolicyInv, CommitTimeout \/ Stopped \/ SerialLost \/ BridgeCrash
    PROVE  PolicyRest'
  <1>1. PICK pc, survivors : EndSession(pc, survivors)
    BY DEF CommitTimeout, Stopped, SerialLost, BridgeCrash
  <1>2. /\ bconn' = 0 /\ ~sched' /\ deferred' = <<>> /\ toDev' = <<>> /\ fromDev' = <<>>
        /\ toCore' \in {toCore, [toCore EXCEPT ![bconn] = <<>>]}
        /\ UNCHANGED <<cpc, ccmd, cret, acceptor, pub,
                       running, undo, early, resolved, context, stranded, pending>>
    BY <1>1 DEF EndSession, spoolVars, clientVars, coreVars, storeVars
  <1>3. InTransit(<<>>) = {} /\ Len(<<>>) = 0
    BY DEF InTransit
  <1>4. Unanswered' = {}
    BY <1>2, <1>3 DEF Unanswered
  <1>5. ~Capturing' /\ Undecided' = Undecided
    BY <1>2, <1>3, <1>4 DEF Capturing, Undecided
  <1>6. ASSUME NEW k \in Slots, NEW f \in InTransit(toCore'[k])
        PROVE  f \in InTransit(toCore[k])
    <2>1. toCore'[k] = toCore[k] \/ toCore'[k] = <<>>
      BY <1>2 DEF PolicyInv, WireTypes
    <2>2. QED
      BY <1>3, <1>6, <2>1
  <1>7. ScheduleIsKnown'
    BY <1>2, <1>3, <1>4 DEF ScheduleIsKnown
  <1>8. QED
    BY <1>2, <1>5, <1>6, <1>7, BridgeKeeps

\* A new session starts with nothing under way.
LEMMA OpenPolicy ==
    ASSUME PolicyInv, NEW k \in Slots, Open(k)
    PROVE  PolicyRest'
  <1>1. /\ bpc = "down" /\ cpc[k] = "free" /\ bconn' = k
        /\ toCore' = [toCore EXCEPT ![k] = <<>>] /\ toBridge' = [toBridge EXCEPT ![k] = <<>>]
        /\ cpc' = [cpc EXCEPT ![k] = "backlog"]
        /\ UNCHANGED <<sched, toDev, fromDev, pending, deferred, ccmd, cret>>
        /\ UNCHANGED <<acceptor, pub, running, undo, early, resolved, context, stranded>>
    BY DEF Open, devVars, spoolVars, fwdVars, coreVars, storeVars
  <1>2. bconn = 0 /\ k # 0 /\ ~sched /\ deferred = <<>> /\ toDev = <<>> /\ fromDev = <<>>
    BY <1>1, DeliveryConstants DEF PolicyInv, SessionIsOver
  <1>3. InTransit(<<>>) = {} /\ Len(<<>>) = 0
    BY DEF InTransit
  <1>4. /\ toCore'[k] = <<>> /\ toBridge'[k] = <<>> /\ cpc'[k] = "backlog"
        /\ \A j \in Slots : j # k => toCore'[j] = toCore[j] /\ cpc'[j] = cpc[j]
    BY <1>1 DEF PolicyInv, WireTypes, ClientTypes
  <1>5. Unanswered' = {}
    BY <1>1, <1>2, <1>3, <1>4 DEF Unanswered
  <1>6. ~Capturing' /\ Undecided' = Undecided /\ (Quiet => Quiet')
    BY <1>1, <1>2, <1>3, <1>5 DEF Capturing, Undecided, Quiet
  <1>7. Stage(k)' = "backlog" /\ \A j \in Slots : j # k => Stage(j)' = Stage(j)
    BY <1>1, <1>4 DEF Stage, Holding
  <1>8. ~Initialising(k)' /\ \A j \in Slots : j # k => Initialising(j)' = Initialising(j)
    BY <1>1, <1>4 DEF Initialising
  <1>9. pub \in Slots \cup {0} /\ pub # k
    BY <1>1, <1>2 DEF PolicyInv, CoreTypes, OnlyPublished, Stage, Holding
  <1>10. OneInitialised'
    BY <1>1, <1>8 DEF PolicyInv, OneInitialised
  <1>11. OnlyPublished'
    BY <1>1, <1>4, <1>7, <1>8, <1>9 DEF PolicyInv, OnlyPublished
  <1>12. OthersBlocked' /\ CapturesArePublished'
    BY <1>1, <1>6, <1>9 DEF OthersBlocked, CapturesArePublished
  <1>13. WithdrawnIsQuiet' /\ CleanupIsSafe' /\ OneStart'
    <2>1. CleanupIsSafe' /\ OneStart'
      BY <1>1, <1>4, <1>6, <1>9 DEF PolicyInv, CleanupIsSafe, OverDeclined, OneStart, InCall
    <2>2. ASSUME NEW j \in Slots, cpc'[j] # "free"
          PROVE  /\ cpc'[j] = "ready" \/ Resp("CAPS") \in InTransit(toCore'[j]) => Quiet'
                 /\ Err("START") \in InTransit(toCore'[j]) => Quiet'
      <3>1. CASE j = k
        BY <1>3, <1>4, <3>1
      <3>2. CASE j # k
        BY <1>4, <1>6, <2>2, <3>2 DEF PolicyInv, WithdrawnIsQuiet
      <3>3. QED
        BY <3>1, <3>2
    <2>3. QED
      BY <2>1, <2>2 DEF WithdrawnIsQuiet
  <1>14. ScheduleIsKnown'
    BY <1>1, <1>2, <1>3, <1>5 DEF ScheduleIsKnown
  <1>15. PolicyKept'
    BY <1>1, <1>6 DEF PolicyInv, PolicyKept
  <1>16. QED
    BY <1>10, <1>11, <1>12, <1>13, <1>14, <1>15 DEF PolicyRest

\* The answers that tell the core it may withdraw a policy, and that a schedule
\* is over, are true when they are passed on.
LEMMA ForwardPolicy ==
    ASSUME PolicyInv, Forward
    PROVE  PolicyRest'
  <1> DEFINE f == Head(fromDev)
  <1>1. /\ bpc = "serving" /\ fromDev # <<>> /\ f.type # "DATA" /\ fromDev' = Tail(fromDev)
        /\ toCore' = ToCoreWith(bconn, f)
        /\ UNCHANGED <<sched, toDev, pending, bconn, deferred, toBridge>>
        /\ UNCHANGED <<cpc, ccmd, cret, acceptor, pub,
                       running, undo, early, resolved, context, stranded>>
    BY DEF Forward, spoolVars, fwdVars, clientVars, coreVars, storeVars
  <1>2. bconn # 0 /\ bconn \in Slots /\ batch = <<>> /\ (forwarding => pending = {})
    <2>1. InTransit(<<>>) = {}
      BY DEF InTransit
    <2>2. QED
      BY <1>1, <2>1 DEF PolicyInv, SessionHasConnection, MainTypes, BatchOrder
  <1>3. /\ f \in Frames /\ f.type \in {"RESP", "ERROR"}
        /\ InTransit(fromDev) = {f} \cup InTransit(fromDev')
        /\ \A g \in InTransit(fromDev') : g.type = "DATA"
    BY <1>1, PortRead DEF PolicyInv
  <1>4. fromDev \in Seq(Frames) /\ Len(fromDev) \in Nat /\ 1 \in 1 .. Len(fromDev) /\ f = fromDev[1]
    BY <1>1 DEF PolicyInv, DeviceTypes
  <1>5. /\ f = Resp("STOP") => ~sched
        /\ f = Err("START") => ~sched /\ \A j \in 1 .. Len(fromDev) : 1 < j => fromDev[j].type # "DATA"
    BY <1>4 DEF PolicyInv, ScheduleIsKnown
  <1>6. f = Err("START") => \A g \in InTransit(fromDev) : g.type # "DATA"
    <2>1. \A j \in 1 .. Len(fromDev) : j = 1 \/ 1 < j
      BY <1>4
    <2>2. QED
      BY <1>1, <1>4, <1>5, <2>1 DEF InTransit
  <1> HIDE DEF f
  <1>7. /\ ~AtBridge /\ deferred = <<>> /\ toDev = <<>> /\ f.cmd \in Underway
        /\ f \in InTransit(fromDev)
    <2>1. AtPort /\ f.cmd \in Underway
      BY <1>1, <1>3 DEF AtPort, Underway
    <2>2. QED
      BY <1>3, <2>1 DEF PolicyInv, OneCommand
  <1>8. Unanswered = {} /\ Unanswered' = {}
    <2>1. InTransit(<<>>) = {}
      BY DEF InTransit
    <2>2. QED
      BY <1>1, <1>7, <2>1 DEF Unanswered, AtBridge
  <1>9. f # Resp("HELLO") => forwarding
    BY <1>7 DEF PolicyInv, HelloFirst
  <1>10. Capturing' => Capturing
    BY <1>1, <1>3, <1>8 DEF Capturing
  <1>11. f = Err("START") => Quiet
    <2>1. Err("START") # Resp("HELLO")
      BY DEF Err, Resp
    <2>2. QED
      BY <1>2, <1>5, <1>6, <1>8, <1>9, <2>1 DEF Quiet, Capturing, Undecided
  <1>12. f = Resp("CAPS") /\ Up(bconn) => Quiet
    <2>1. Resp("CAPS") # Resp("HELLO") /\ Resp("CAPS").cmd = "CAPS"
      BY DEF Resp
    <2>2. ASSUME f = Resp("CAPS"), Up(bconn) PROVE Starting(bconn)
      <3>1. cpc[bconn] # "free" /\ Awaiting(bconn) /\ ccmd[bconn] = "CAPS"
        BY <1>2, <1>7, <2>1, <2>2 DEF PolicyInv, CommandIsAwaited, Up
      <3>2. Stage(bconn) # "await"
        BY <1>2, <3>1 DEF PolicyInv, OnlyPublished
      <3>3. QED
        BY <3>1, <3>2 DEF Awaiting, Starting
    <2>3. Starting(bconn) => ~sched /\ \A g \in InTransit(fromDev) : g.type # "DATA"
      BY <1>2 DEF PolicyInv, ReplayFirst
    <2>4. QED
      BY <1>2, <1>8, <1>9, <2>1, <2>2, <2>3 DEF Quiet, Capturing, Undecided
  <1>13. ASSUME NEW k \in Slots, NEW g \in InTransit(toCore'[k])
         PROVE  g \in InTransit(toCore[k]) \/ (k = bconn /\ g = f /\ Up(bconn))
    BY <1>1, <1>2, <1>3, <1>13, StreamWritten DEF PolicyInv
  <1>14. ScheduleIsKnown'
    <2>1. \A i \in 1 .. Len(fromDev') : fromDev'[i].type = "DATA"
      BY <1>3 DEF InTransit
    <2>2. Resp("STOP").type = "RESP" /\ Err("START").type = "ERROR"
      BY DEF Resp, Err
    <2>3. \A k \in Slots : cpc'[k] # "free" /\ Resp("STOP") \in InTransit(toCore'[k]) => ~sched'
      BY <1>1, <1>5, <1>13 DEF PolicyInv, ScheduleIsKnown
    <2>4. pub' = bconn' /\ sched' /\ ~running'
            => (Stage(bconn)' = "await" /\ ccmd'[bconn'] = "START") \/ cpc'[bconn'] = "declined"
      BY <1>1 DEF PolicyInv, ScheduleIsKnown, Stage
    <2>5. QED
      BY <1>8, <2>1, <2>2, <2>3, <2>4 DEF ScheduleIsKnown
  <1>15. \A k \in Slots : \A g \in InTransit(toCore'[k]) :
           \/ g \in InTransit(toCore[k])
           \/ k = bconn /\ (g \in {Resp("CAPS"), Err("START")} => Quiet)
    BY <1>11, <1>12, <1>13
  <1>16. Undecided' \subseteq Undecided
    BY <1>1 DEF Undecided
  <1>17. QED
    BY <1>1, <1>10, <1>14, <1>15, <1>16, BridgeKeeps

\* A schedule adds a capture while its policy is there.
LEMMA PeriodicPolicy ==
    ASSUME PolicyInv, PeriodicFrame
    PROVE  PolicyRest'
  <1> DEFINE d == Data(taken + 1)
  <1>1. /\ sched /\ fromDev' = Append(fromDev, d)
        /\ UNCHANGED <<sched, toDev, pending, bconn, deferred, toBridge, toCore>>
        /\ UNCHANGED <<cpc, ccmd, cret, acceptor, pub,
                       running, undo, early, resolved, context, stranded>>
    BY
       DEF PeriodicFrame, spoolVars, bridgeVars, mainVars, fwdVars, wireVars, clientVars,
           coreVars, storeVars
  <1>2. UNCHANGED Unanswered
    BY <1>1 DEF Unanswered
  <1>3. Capturing /\ UNCHANGED Undecided
    BY <1>1 DEF Capturing, Undecided
  <1>4. d # Resp("STOP") /\ d # Err("START")
    BY DEF Data, Resp, Err
  <1>5. \A i \in 1 .. Len(fromDev) : fromDev[i] # Resp("STOP") /\ fromDev[i] # Err("START")
    BY <1>1 DEF PolicyInv, ScheduleIsKnown
  <1>6. \A i \in 1 .. Len(fromDev') : fromDev'[i] # Resp("STOP") /\ fromDev'[i] # Err("START")
    <2>1. fromDev \in Seq(Frames)
      BY DEF PolicyInv, DeviceTypes
    <2> HIDE DEF d
    <2>2. \A i \in 1 .. Len(fromDev') : \/ i \in 1 .. Len(fromDev) /\ fromDev'[i] = fromDev[i]
                                        \/ fromDev'[i] = d
      BY <1>1, <2>1
    <2>3. QED
      BY <1>4, <1>5, <2>2
  <1>7. ScheduleIsKnown'
    BY <1>1, <1>2, <1>6 DEF PolicyInv, ScheduleIsKnown, Stage
  <1>8. \A k \in Slots : \A g \in InTransit(toCore'[k]) : g \in InTransit(toCore[k])
    BY <1>1
  <1>9. QED
    BY <1>1, <1>3, <1>7, <1>8, BridgeKeeps

\* The device answers: a START that is accepted is one the published client
\* waits for, and one that is refused leaves no schedule.
LEMMA AnswerPolicy ==
    ASSUME PolicyInv, Answer
    PROVE  PolicyRest'
  <1> DEFINE c == Head(toDev)
  <1>1. /\ toDev # <<>> /\ UNCHANGED <<pending, bconn, deferred, toBridge, toCore>>
        /\ UNCHANGED <<cpc, ccmd, cret, acceptor, pub,
                       running, undo, early, resolved, context, stranded>>
    BY
       DEF Answer, spoolVars, bridgeVars, mainVars, fwdVars, wireVars, clientVars, coreVars,
           storeVars
  <1>2. /\ InTransit(toDev) = {c} /\ toDev' = <<>> /\ c \in Commands
        /\ \A g \in InTransit(fromDev') :
             g \in InTransit(fromDev) \/ g.type # "DATA" \/ c = "ONCE"
    <2>1. Resp(c).type # "DATA" /\ Err(c).type # "DATA"
      BY DEF Resp, Err
    <2>2. QED
      BY <2>1, AnswerWritten DEF PolicyInv
  <1>3. ~AtPort /\ ~AtBridge /\ ~AtCore /\ deferred = <<>> /\ bconn # 0 /\ bconn \in Slots
    <2>1. bconn # 0 /\ bconn \in Slots
      BY <1>1 DEF PolicyInv, SessionIsOver, MainTypes
    <2>2. QED
      BY <1>1, <2>1 DEF PolicyInv, OneCommand
  <1>4. /\ sched' => sched \/ c = "START"
        /\ c = "STOP" => ~sched'
    <2>1. \/ c \in {"HELLO", "CAPS", "QUERY", "ONCE", "START"} /\ UNCHANGED sched
          \/ c \in {"START", "STOP"} /\ sched' = (c = "START")
      <3> HIDE DEF PolicyInv
      <3>1. QED
        BY Zenon DEF Answer
    <2> HIDE DEF c
    <2>2. c # "START" => (c = "START") = FALSE
      OBVIOUS
    <2>3. c = "STOP" => sched' = FALSE
      BY <2>1, <2>2
    <2>4. c # "START" /\ c # "STOP" => sched' = sched
      BY <2>1
    <2>5. QED
      BY <2>3, <2>4
  <1>5. \/ fromDev' = Append(fromDev, Resp(c))
        \/ fromDev' = Append(fromDev, Err(c)) /\ sched' = sched
        \/ fromDev' = fromDev \o <<Resp(c), Data(taken + 1)>> /\ c = "ONCE"
    BY DEF Answer
  <1> HIDE DEF c
  <1>6. Unanswered' = {} /\ c \in Unanswered
    <2>1. InTransit(<<>>) = {}
      BY DEF InTransit
    <2>2. QED
      BY <1>1, <1>2, <1>3, <2>1 DEF Unanswered, AtBridge
  <1>7. c \in {"ONCE", "START"} => Capturing
    BY <1>6 DEF Capturing
  <1>8. (Capturing' => Capturing) /\ Undecided' = Undecided
    BY <1>1, <1>2, <1>4, <1>6, <1>7 DEF Capturing, Undecided
  <1>9. c = "START" => ~sched
    BY <1>6 DEF PolicyInv, ScheduleIsKnown
  <1>10. \A i \in 1 .. Len(fromDev') :
           /\ fromDev'[i] = Resp("STOP") => ~sched'
           /\ fromDev'[i] = Err("START")
                => ~sched' /\ \A j \in 1 .. Len(fromDev') : i < j => fromDev'[j].type # "DATA"
    <2>1. fromDev \in Seq(Frames)
      BY DEF PolicyInv, DeviceTypes
    <2>2. \A i \in 1 .. Len(fromDev) : fromDev[i].type = "DATA"
      BY <1>3 DEF AtPort, InTransit
    <2> DEFINE d == Data(taken + 1)
    <2>3. /\ Resp(c) = Resp("STOP") => c = "STOP"
          /\ Err(c) = Err("START") => c = "START"
          /\ Resp(c) # Err("START") /\ Err(c) # Resp("STOP") /\ d # Resp("STOP") /\ d # Err("START")
          /\ Resp("STOP").type # "DATA" /\ Err("START").type # "DATA"
      BY DEF Resp, Err, Data
    <2>4. ASSUME NEW f \in {Resp(c), Err(c)}, fromDev' = Append(fromDev, f),
                 f = Err(c) => sched' = sched
          PROVE  \A i \in 1 .. Len(fromDev') :
                   /\ fromDev'[i] = Resp("STOP") => ~sched'
                   /\ fromDev'[i] = Err("START")
                        => ~sched' /\ \A j \in 1 .. Len(fromDev') : i < j => fromDev'[j].type # "DATA"
      <3>1. /\ Len(fromDev') = Len(fromDev) + 1 /\ Len(fromDev) \in Nat
            /\ \A i \in 1 .. Len(fromDev') : \/ i \in 1 .. Len(fromDev) /\ fromDev'[i] = fromDev[i]
                                             \/ i = Len(fromDev') /\ fromDev'[i] = f
        BY <2>1, <2>4
      <3>2. \A i \in 1 .. Len(fromDev') : fromDev'[i].type = "DATA" \/ (i = Len(fromDev') /\ fromDev'[i] = f)
        BY <2>2, <3>1
      <3>3. \A j \in 1 .. Len(fromDev') : ~(Len(fromDev') < j)
        BY <3>1
      <3>4. f = Resp("STOP") => ~sched'
        BY <1>4, <2>3, <2>4
      <3>5. f = Err("START") => ~sched'
        BY <1>9, <2>3, <2>4
      <3>6. QED
        BY <2>3, <3>2, <3>3, <3>4, <3>5
    <2>5. ASSUME c = "ONCE", fromDev' = fromDev \o <<Resp(c), d>>
          PROVE  \A i \in 1 .. Len(fromDev') : fromDev'[i] # Resp("STOP") /\ fromDev'[i] # Err("START")
      <3> DEFINE r == Resp(c)
      <3>1. r # Resp("STOP") /\ r # Err("START")
        BY <2>3, <2>5
      <3> HIDE DEF d, r
      <3>2. \A i \in 1 .. Len(fromDev') : \/ i \in 1 .. Len(fromDev) /\ fromDev'[i] = fromDev[i]
                                          \/ fromDev'[i] = r \/ fromDev'[i] = d
        <4>1. fromDev' = fromDev \o <<r, d>>
          BY <2>5 DEF r
        <4>2. QED
          BY <2>1, <4>1
      <3>3. QED
        BY <2>2, <2>3, <3>1, <3>2
    <2> HIDE DEF d
    <2>6. CASE fromDev' = Append(fromDev, Resp(c))
      <3>1. Resp(c) # Err(c)
        BY DEF Resp, Err
      <3>2. QED
        BY <2>4, <2>6, <3>1
    <2>7. CASE fromDev' = Append(fromDev, Err(c)) /\ sched' = sched
      BY <2>4, <2>7
    <2>8. CASE fromDev' = fromDev \o <<Resp(c), d>> /\ c = "ONCE"
      BY <2>5, <2>8
    <2>9. QED
      BY <1>5, <2>6, <2>7, <2>8 DEF d
  <1>11. ASSUME c = "START", pub = bconn PROVE Stage(bconn) = "await" /\ ccmd[bconn] = "START"
    <2>1. cpc[bconn] # "free"
      BY <1>3, <1>11 DEF PolicyInv, OnlyPublished, Stage, Holding
    <2>2. c \in Underway
      BY <1>2 DEF Underway
    <2>3. Awaiting(bconn) /\ ccmd[bconn] = "START"
      BY <1>3, <1>11, <2>1, <2>2 DEF PolicyInv, CommandIsAwaited
    <2>4. ClientInStep(bconn)
      BY <1>3 DEF PolicyInv
    <2>5. QED
      BY <2>3, <2>4 DEF Awaiting, ClientInStep
  <1>12. ASSUME c = "START", NEW k \in Slots, cpc[k] # "free"
         PROVE  Resp("STOP") \notin InTransit(toCore[k])
    <2>1. SUFFICES ASSUME Resp("STOP") \in InTransit(toCore[k]) PROVE FALSE
      OBVIOUS
    <2>2. Resp("STOP").type = "RESP" /\ Resp("STOP").cmd = "STOP"
      BY DEF Resp
    <2>3. CoreStream(k) /\ ClientInStep(k)
      BY DEF PolicyInv
    <2>4. Awaiting(k) /\ ccmd[k] = "STOP"
      BY <1>12, <2>1, <2>2, <2>3 DEF CoreStream
    <2>5. Stage(k) = "await"
      BY <2>3, <2>4 DEF ClientInStep, Awaiting
    <2>6. pub = k /\ k # 0
      BY <2>5, DeliveryConstants DEF PolicyInv, OnlyPublished
    <2>7. k = bconn
      BY <1>7, <1>12, <2>6 DEF PolicyInv, CapturesArePublished
    <2>8. QED
      BY <1>3, <2>1, <2>2, <2>7 DEF AtCore
  <1>13. ScheduleIsKnown'
    <2>1. \A k \in Slots : cpc'[k] # "free" /\ Resp("STOP") \in InTransit(toCore'[k]) => ~sched'
      BY <1>1, <1>4, <1>12 DEF PolicyInv, ScheduleIsKnown
    <2>2. pub' = bconn' /\ sched' /\ ~running'
            => (Stage(bconn)' = "await" /\ ccmd'[bconn'] = "START") \/ cpc'[bconn'] = "declined"
      <3>1. Stage(bconn)' = Stage(bconn)
        BY <1>1 DEF Stage
      <3>2. QED
        BY <1>1, <1>4, <1>11, <3>1 DEF PolicyInv, ScheduleIsKnown
    <2>3. QED
      BY <1>6, <1>10, <2>1, <2>2 DEF ScheduleIsKnown
  <1>14. \A k \in Slots : \A g \in InTransit(toCore'[k]) : g \in InTransit(toCore[k])
    BY <1>1
  <1>15. QED
    BY <1>1, <1>8, <1>13, <1>14, BridgeKeeps

-----------------------------------------------------------------------------
(* Steps of the core. *)

\* No step of the core starts a schedule while a registered START waits to be
\* sent.
LEMMA OneStartKept ==
    ASSUME PolicyInv,
           \/ \E k \in Slots : Client(k) \/ Request(k) \/ ClientTimeout(k)
           \/ Bookkeeping \/ CoreCrash
    PROVE  OneStart'
  <1>1. /\ cpc \in [Slots -> ClientPcs] /\ ccmd \in [Slots -> Commands]
        /\ cret \in [Slots -> ReturnPcs] /\ running \in BOOLEAN
        /\ "schedule" \in early => ~running /\ \A j \in Slots : ~(InCall(j) /\ ccmd[j] = "START")
    BY DEF PolicyInv, ClientTypes, CoreTypes, OneStart
  <1> HIDE DEF PolicyInv
  <1>2. ASSUME "schedule" \in early' => "schedule" \in early, running' => running,
               \A j \in Slots : InCall(j)' /\ ccmd'[j] = "START" => InCall(j) /\ ccmd[j] = "START"
        PROVE  OneStart'
    BY <1>1, <1>2 DEF OneStart
  <1>3. ASSUME NEW k \in Slots, UNCHANGED early, running' => running,
               \A j \in Slots : j # k => cpc'[j] = cpc[j] /\ cret'[j] = cret[j] /\ ccmd'[j] = ccmd[j],
               InCall(k)' => (InCall(k) /\ ccmd'[k] = ccmd[k]) \/ ccmd'[k] # "START"
        PROVE  OneStart'
    BY <1>2, <1>3 DEF InCall
  <1>4. ASSUME NEW k \in Slots, LoseClient(k) PROVE OneStart'
    BY <1>1, <1>3, <1>4 DEF LoseClient, CloseSlot, InCall
  <1>5. ASSUME NEW k \in Slots, Accept(k) \/ HelloDone(k) \/ CapsDone(k) \/ Orphaned(k)
        PROVE  OneStart'
    BY <1>1, <1>3, <1>5
       DEF Accept, HelloDone, CapsDone, Orphaned, Receive, CloseSlot, coreVars, InCall
  <1>6. ASSUME NEW k \in Slots, Publish(k) PROVE OneStart'
    BY <1>1, <1>2, <1>6 DEF Publish, InCall
  <1>7. ASSUME NEW k \in Slots, Replied(k) PROVE OneStart'
    <2>1. /\ UNCHANGED <<early, ccmd, cret>> /\ \A j \in Slots : j # k => cpc'[j] = cpc[j]
          /\ InCall(k) /\ ~InCall(k)'
      BY <1>1, <1>7 DEF Replied, Receive, InCall
    <2>2. "schedule" \in early => ~running'
      BY <1>1, <1>7, <2>1 DEF Replied
    <2>3. QED
      BY <1>1, <2>1, <2>2 DEF OneStart, InCall
  <1>8. ASSUME NEW k \in Slots, AcceptDelivery(k) \/ Decline(k) \/ SendReceipt(k) \/ Confirmed(k)
        PROVE  OneStart'
    BY <1>1, <1>3, <1>8
       DEF AcceptDelivery, Decline, SendReceipt, Confirmed, Receive, coreVars, InCall,
                            ReturnPcs
  <1>9. ASSUME NEW k \in Slots, Commit(k) PROVE OneStart'
    BY <1>1, <1>3, <1>9 DEF Commit, Decide, RefuseReplay, CloseSlot, coreVars, InCall
  <1>10. ASSUME NEW k \in Slots, Client(k) PROVE OneStart'
    BY <1>4, <1>5, <1>6, <1>7, <1>8, <1>9, <1>10 DEF Client, ClientEof
  <1>11. ASSUME NEW k \in Slots, NEW r \in Runs, SendRun(k, r) PROVE OneStart'
    <2>1. CASE r = "schedule"
      BY <1>11, <2>1 DEF SendRun, OneStart
    <2>2. CASE r = "single"
      <3>1. /\ "schedule" \in early' => "schedule" \in early
            /\ UNCHANGED <<running, cret>> /\ ccmd'[k] = "ONCE"
            /\ \A j \in Slots : j # k => cpc'[j] = cpc[j] /\ ccmd'[j] = ccmd[j]
        BY <1>1, <1>11, <2>2 DEF SendRun, Send, Commands
      <3>2. QED
        BY <1>2, <3>1 DEF InCall
    <2>3. QED
      BY <2>1, <2>2 DEF Runs
  <1>12. ASSUME NEW k \in Slots, NEW c \in {"QUERY", "STOP"}, Command(k, c) PROVE OneStart'
    BY <1>1, <1>3, <1>12 DEF Command, Send, InCall, Commands
  <1>13. CASE Bookkeeping
    BY <1>1, <1>2, <1>13
       DEF Bookkeeping, Register, RunFails, SessionFails, StartCleanup, StartInProgress,
                             OneStart, InCall, clientVars, Runs
  <1>14. CASE CoreCrash
    BY <1>14 DEF CoreCrash, OneStart
  <1>15. QED
    BY <1>4, <1>10, <1>11, <1>12, <1>13, <1>14 DEF Request, ClientTimeout

\* One client moves on between two of its own reads, or starts to be
\* initialised; the application's side of the core stays as it is.
LEMMA ClientMoves ==
    ASSUME PolicyInv, NEW k \in Slots, OneStart',
           UNCHANGED <<sched, fromDev, deferred, toDev, bconn, pending, pub, running, undo, context>>,
           UNCHANGED stranded,
           resolved \subseteq resolved',
           bconn # 0 => \A f \in InTransit(toBridge'[bconn]) :
             f.type = "CMD" /\ f.cmd \in {"ONCE", "START"} => f \in InTransit(toBridge[bconn]),
           \A j \in Slots \ {k} : UNCHANGED <<cpc[j], ccmd[j], cret[j], toCore[j]>>,
           cpc[k] \notin {"free", "declined"}, InTransit(toCore'[k]) \subseteq InTransit(toCore[k]),
           \/ /\ Stage(k)' = Stage(k) /\ cpc'[k] # "ready" /\ ccmd'[k] = ccmd[k]
              /\ acceptor' = acceptor
           \/ /\ Stage(k) = "awaitCap" /\ Stage(k)' = "idle" /\ cpc'[k] \in Holding
              /\ acceptor' = acceptor
           \/ /\ cpc[k] = "idle" /\ cpc'[k] = "declined" /\ Stage(k)' = "declined"
              /\ acceptor' = acceptor
           \/ /\ cpc[k] = "backlog" /\ cpc'[k] = "hello" /\ acceptor = "ready" /\ acceptor' = "busy"
           \/ /\ cpc[k] = "hello" /\ cpc'[k] = "caps" /\ acceptor' = acceptor
              /\ \E f \in InTransit(toCore[k]) : f.type = "RESP"
           \/ /\ cpc[k] = "caps" /\ cpc'[k] = "ready" /\ acceptor' = acceptor
              /\ Resp("CAPS") \in InTransit(toCore[k]),
           cpc'[k] = "free" => Stage(k)' = "free", cpc'[k] = "awaitCap" => cpc[k] = "awaitCap",
           Initialising(k)' <=> Stage(k)' \in {"hello", "caps", "ready"}
    PROVE  PolicyRest'
  <1>1. /\ Starting(k) <=> Initialising(k) \/ cpc[k] = "backlog"
        /\ Initialising(k) <=> Stage(k) \in {"hello", "caps", "ready"}
        /\ cpc[k] = "backlog" => Stage(k) = "backlog"
        /\ cpc[k] = "hello" => Stage(k) = "hello"
        /\ cpc[k] = "caps" => Stage(k) = "caps"
    BY StartingClients DEF PolicyInv, Stage, Holding
  <1>2. /\ cpc'[k] = "hello" => Stage(k)' = "hello"
        /\ cpc'[k] = "caps" => Stage(k)' = "caps"
        /\ cpc'[k] = "ready" => Stage(k)' = "ready"
        /\ cpc'[k] = "awaitCap" => Stage(k)' = "awaitCap"
    BY DEF Stage, Holding
  <1>3. \A j \in Slots \ {k} : Stage(j)' = Stage(j) /\ Initialising(j)' = Initialising(j)
    BY DEF Stage, Initialising, Holding
  <1>4. Initialising(k)' => \/ Initialising(k)
                            \/ cpc[k] = "backlog" /\ acceptor = "ready" /\ acceptor' = "busy"
    BY <1>1, <1>2
  <1>5. acceptor' = acceptor \/ (acceptor = "ready" /\ acceptor' = "busy")
    OBVIOUS
  <1>6. OneInitialised'
    <2>1. \A j \in Slots : Initialising(j)' => acceptor' = "busy"
      BY <1>3, <1>4, <1>5 DEF PolicyInv, OneInitialised
    <2>2. \A i, j \in Slots : Initialising(i)' /\ Initialising(j)' => i = j
      BY <1>3, <1>4 DEF PolicyInv, OneInitialised
    <2>3. QED
      BY <2>1, <2>2 DEF OneInitialised
  <1>7. pub = k => ~Initialising(k) /\ Stage(k) \notin {"free", "backlog"}
    BY DeliveryConstants DEF PolicyInv, OnlyPublished
  <1>8. OnlyPublished'
    <2>1. pub' # 0 => Stage(pub)' \notin {"free", "backlog"} /\ ~Initialising(pub)'
      <3>1. CASE pub = k
        BY <1>1, <1>2, <1>4, <1>7, <3>1
      <3>2. CASE pub # k
        BY <1>3, <3>2 DEF PolicyInv, OnlyPublished, CoreTypes
      <3>3. QED
        BY <3>1, <3>2
    <2>2. ASSUME NEW j \in Slots
          PROVE  /\ Stage(j)' \in {"await", "awaitCap"} => pub' = j /\ ccmd'[j] \notin {"HELLO", "CAPS"}
                 /\ cpc'[j] = "awaitCap" => ccmd'[j] = "ONCE"
      <3>1. CASE j = k
        BY <1>2, <3>1 DEF PolicyInv, OnlyPublished
      <3>2. CASE j # k
        BY <1>3, <3>2 DEF PolicyInv, OnlyPublished
      <3>3. QED
        BY <3>1, <3>2
    <2>3. QED
      BY <2>1, <2>2 DEF OnlyPublished
  <1>9. ASSUME NEW j \in Slots, cpc'[j] # "free"
        PROVE  /\ cpc[j] # "free"
               /\ InTransit(toCore'[j]) \subseteq InTransit(toCore[j])
               /\ Stage(j)' \in {"backlog", "hello", "caps", "ready"} =>
                    \/ Stage(j)' = Stage(j) \/ Stage(j)' \in {"backlog", "hello"}
                    \/ \E f \in InTransit(toCore[j]) : f.type = "RESP"
               /\ Stage(j)' \in {"backlog", "hello", "caps", "ready"} => Starting(j)
               /\ cpc'[j] = "ready" => cpc[j] = "ready" \/ Resp("CAPS") \in InTransit(toCore[j])
    <2>1. CASE j = k
      <3>1. Resp("CAPS").type = "RESP"
        BY DEF Resp
      <3>2. QED
        BY <1>1, <1>2, <2>1, <3>1 DEF Starting
    <2>2. CASE j # k
      BY <1>3, <1>9, <2>2 DEF Starting
    <2>3. QED
      BY <2>1, <2>2
  <1>10. \A j \in Slots : cpc'[j] = "free" => Stage(j)' = "free"
    BY <1>3, StartingClients DEF PolicyInv
  <1>11. pub' = bconn /\ sched /\ ~running'
           => (Stage(bconn)' = "await" /\ ccmd'[bconn] = "START") \/ cpc'[bconn] = "declined"
    <2>1. pub = bconn /\ sched /\ ~running
            => /\ (Stage(bconn) = "await" /\ ccmd[bconn] = "START") \/ cpc[bconn] = "declined"
               /\ bconn \in Slots
      BY CapturingHasSession DEF PolicyInv, ScheduleIsKnown, MainTypes
    <2>2. cpc[k] = "idle" => Stage(k) = "idle"
      BY DEF Stage, Holding
    <2>3. QED
      BY <1>1, <1>3, <2>1, <2>2
  <1>12. undo' /\ pub' # 0 /\ context' = "schedule" => Quiet \/ OverDeclined' \/ stranded'
    <2>1. OverDeclined => OverDeclined'
      BY DEF OverDeclined, PolicyInv, CoreTypes
    <2>2. QED
      BY <2>1 DEF PolicyInv, CleanupIsSafe
  <1> HIDE DEF PolicyInv
  <1>13. /\ OthersBlocked' /\ CapturesArePublished' /\ WithdrawnIsQuiet' /\ CleanupIsSafe'
         /\ ScheduleIsKnown' /\ PolicyKept'
    BY <1>9, <1>10, <1>11, <1>12, CoreKeeps
  <1>14. QED
    BY <1>6, <1>8, <1>13 DEF PolicyRest

\* The acceptor initialises a client.
LEMMA InitialisePolicy ==
    ASSUME PolicyInv, NEW k \in Slots, Accept(k) \/ HelloDone(k) \/ CapsDone(k)
    PROVE  PolicyRest'
  <1>0. OneStart'
    BY OneStartKept DEF Client
  <1>1. /\ UNCHANGED <<sched, fromDev, deferred, toDev, bconn, pending, pub, running, undo, context>>
        /\ UNCHANGED <<stranded, resolved, cret>>
    BY DEF Accept, HelloDone, CapsDone, devVars, spoolVars, bridgeVars, mainVars, fwdVars, coreVars,
           storeVars
  <1>2. cpc \in [Slots -> ClientPcs] /\ ccmd \in [Slots -> Commands] /\ toCore \in [Slots -> Seq(Frames)]
        /\ bconn \in Slots \cup {0} /\ cret[k] \in ReturnPcs
    BY DEF PolicyInv, ClientTypes, WireTypes, MainTypes
  <1>3. ASSUME NEW c \in {"HELLO", "CAPS"}, toBridge' = ToBridgeWith(k, Cmd(c))
        PROVE  bconn # 0 => \A f \in InTransit(toBridge'[bconn]) :
                 f.type = "CMD" /\ f.cmd \in {"ONCE", "START"} => f \in InTransit(toBridge[bconn])
    <2>1. Cmd(c) \in Frames /\ Cmd(c).cmd = c
      BY MadeFrames DEF Cmd, Commands
    <2>2. QED
      BY <1>3, <2>1, NoCaptureSent DEF PolicyInv
  <1>4. CASE Accept(k)
    <2>1. /\ acceptor = "ready" /\ acceptor' = "busy" /\ cpc[k] = "backlog" /\ toCore' = toCore
          /\ cpc' = [cpc EXCEPT ![k] = "hello"] /\ ccmd' = [ccmd EXCEPT ![k] = "HELLO"]
          /\ toBridge' = ToBridgeWith(k, Cmd("HELLO"))
      BY <1>4 DEF Accept
    <2>2. cpc'[k] = "hello" /\ \A j \in Slots \ {k} : UNCHANGED <<cpc[j], ccmd[j], cret[j], toCore[j]>>
      BY <1>1, <1>2, <2>1
    <2>3. Initialising(k)' <=> Stage(k)' \in {"hello", "caps", "ready"}
      BY <2>2 DEF Initialising, Stage, Holding
    <2>4. bconn # 0 => \A f \in InTransit(toBridge'[bconn]) :
            f.type = "CMD" /\ f.cmd \in {"ONCE", "START"} => f \in InTransit(toBridge[bconn])
      BY <1>3, <2>1
    <2>5. QED
      BY <1>0, <1>1, <2>1, <2>2, <2>3, <2>4, ClientMoves
  <1>5. ASSUME cpc[k] \in {"hello", "caps"}, Answered(k), NEW ok, NEW pc,
               Receive(k, ok, pc), HelloDone(k) \/ CapsDone(k)
        PROVE  /\ Head(toCore[k]) = Resp(ccmd[k]) /\ Resp(ccmd[k]) \in InTransit(toCore[k])
               /\ InTransit(toCore'[k]) \subseteq InTransit(toCore[k])
               /\ cpc' = [cpc EXCEPT ![k] = pc]
               /\ \A j \in Slots : j # k => toCore'[j] = toCore[j]
    <2>1. toCore' = [toCore EXCEPT ![k] = Tail(@)] /\ cpc' = [cpc EXCEPT ![k] = IF ok THEN pc ELSE "stuck"]
      BY <1>5 DEF Receive
    <2>2. ccmd[k] \in {"HELLO", "CAPS"}
      <3>1. ClientInStep(k)
        BY DEF PolicyInv
      <3>2. QED
        BY <1>5, <3>1 DEF ClientInStep, Stage, Holding
    <2>3. /\ Head(toCore[k]) = Resp(ccmd[k]) /\ Head(toCore[k]) \in InTransit(toCore[k])
          /\ InTransit(toCore'[k]) \subseteq InTransit(toCore[k])
          /\ \A j \in Slots : j # k => toCore'[j] = toCore[j]
      BY <1>5, <2>1, <2>2, AnswerRead DEF PolicyInv
    <2>4. cpc'[k] # "stuck"
      <3>1. FrameRest'
        BY <1>5, HelloFrames, CapsFrames DEF PolicyInv
      <3>2. QED
        BY <3>1 DEF ClientInStep
    <2>5. cpc' = [cpc EXCEPT ![k] = pc]
      BY <1>2, <2>1, <2>4
    <2>6. QED
      BY <2>3, <2>5
  <1>6. CASE HelloDone(k)
    <2>1. /\ cpc[k] = "hello" /\ Answered(k) /\ Receive(k, Head(toCore[k]) = Resp("HELLO"), "caps")
          /\ acceptor' = acceptor /\ ccmd' = [ccmd EXCEPT ![k] = "CAPS"]
          /\ toBridge' = ToBridgeWith(k, Cmd("CAPS"))
      BY <1>6 DEF HelloDone, coreVars
    <2>2. /\ Resp(ccmd[k]) \in InTransit(toCore[k]) /\ InTransit(toCore'[k]) \subseteq InTransit(toCore[k])
          /\ cpc' = [cpc EXCEPT ![k] = "caps"] /\ \A j \in Slots : j # k => toCore'[j] = toCore[j]
      BY <1>5, <1>6, <2>1
    <2>3. cpc'[k] = "caps" /\ \A j \in Slots \ {k} : UNCHANGED <<cpc[j], ccmd[j], cret[j], toCore[j]>>
      BY <1>1, <1>2, <2>1, <2>2
    <2>4. Initialising(k)' <=> Stage(k)' \in {"hello", "caps", "ready"}
      BY <2>3 DEF Initialising, Stage, Holding
    <2>5. bconn # 0 => \A f \in InTransit(toBridge'[bconn]) :
            f.type = "CMD" /\ f.cmd \in {"ONCE", "START"} => f \in InTransit(toBridge[bconn])
      BY <1>3, <2>1
    <2>6. \E f \in InTransit(toCore[k]) : f.type = "RESP"
      BY <2>2 DEF Resp
    <2>7. QED
      BY <1>0, <1>1, <2>1, <2>2, <2>3, <2>4, <2>5, <2>6, ClientMoves
  <1>7. CASE CapsDone(k)
    <2>1. /\ cpc[k] = "caps" /\ Answered(k) /\ Receive(k, Head(toCore[k]) = Resp("CAPS"), "ready")
          /\ acceptor' = acceptor /\ ccmd' = ccmd /\ toBridge' = toBridge
      BY <1>7 DEF CapsDone, coreVars
    <2>2. /\ Resp(ccmd[k]) \in InTransit(toCore[k]) /\ InTransit(toCore'[k]) \subseteq InTransit(toCore[k])
          /\ cpc' = [cpc EXCEPT ![k] = "ready"] /\ \A j \in Slots : j # k => toCore'[j] = toCore[j]
      BY <1>5, <1>7, <2>1
    <2>3. cpc'[k] = "ready" /\ \A j \in Slots \ {k} : UNCHANGED <<cpc[j], ccmd[j], cret[j], toCore[j]>>
      BY <1>1, <1>2, <2>1, <2>2
    <2>4. Initialising(k)' <=> Stage(k)' \in {"hello", "caps", "ready"}
      BY <2>3 DEF Initialising, Stage, Holding
    <2>5. ccmd[k] = "CAPS"
      <3>1. ClientInStep(k)
        BY DEF PolicyInv
      <3>2. QED
        BY <2>1, <3>1 DEF ClientInStep, Stage, Holding
    <2>6. QED
      BY <1>0, <1>1, <2>1, <2>2, <2>3, <2>4, <2>5, ClientMoves
  <1>8. QED
    BY <1>4, <1>6, <1>7

\* A client takes a delivery, decides it and confirms it: it goes on where it
\* was.
LEMMA TakePolicy ==
    ASSUME PolicyInv, NEW k \in Slots, AcceptDelivery(k)
    PROVE  PolicyRest'
  <1>0. OneStart'
    BY OneStartKept DEF Client
  <1>1. /\ UNCHANGED <<sched, fromDev, deferred, toDev, bconn, pending, pub, running, undo, context>>
        /\ UNCHANGED <<stranded, resolved, ccmd, acceptor, toBridge>>
        /\ cpc[k] \in {"hello", "caps", "await", "awaitCap", "idle"}
        /\ cpc' = [cpc EXCEPT ![k] = IF Head(toCore[k]).type = "DELIVERY" /\ cpend[k] = NoRecord
                                     THEN "accepted" ELSE "stuck"]
        /\ cret' = [cret EXCEPT ![k] = IF cpc[k] = "awaitCap" THEN "idle" ELSE cpc[k]]
    BY
       DEF AcceptDelivery, Receive, devVars, spoolVars, bridgeVars, mainVars, fwdVars, coreVars,
           storeVars
  <1>2. cpc \in [Slots -> ClientPcs] /\ cret \in [Slots -> ReturnPcs]
    BY DEF PolicyInv, ClientTypes
  <1>3. /\ Head(toCore[k]).type = "DELIVERY" /\ cpend[k] = NoRecord
        /\ toCore'[k] = <<>> /\ \A j \in Slots : j # k => toCore'[j] = toCore[j]
    BY DeliveryRead DEF PolicyInv
  <1>4. /\ cpc'[k] = "accepted" /\ cret'[k] = (IF cpc[k] = "awaitCap" THEN "idle" ELSE cpc[k])
        /\ \A j \in Slots \ {k} : UNCHANGED <<cpc[j], ccmd[j], cret[j], toCore[j]>>
    BY <1>1, <1>2, <1>3
  <1>5. InTransit(toCore'[k]) \subseteq InTransit(toCore[k])
    BY <1>3 DEF InTransit
  <1>6. /\ Stage(k) = cpc[k] /\ Stage(k)' = (IF cpc[k] = "awaitCap" THEN "idle" ELSE cpc[k])
        /\ Initialising(k)' <=> Stage(k)' \in {"hello", "caps", "ready"}
    BY <1>1, <1>4 DEF Stage, Holding, Initialising
  <1>7. cpc'[k] \in Holding /\ cpc[k] # "free"
    BY <1>1, <1>4 DEF Holding
  <1>8. bconn # 0 => \A f \in InTransit(toBridge'[bconn]) : f \in InTransit(toBridge[bconn])
    BY <1>1
  <1>9. QED
    BY <1>0, <1>1, <1>4, <1>5, <1>6, <1>7, <1>8, ClientMoves

\* A client that declines a delivery is in no call, and a schedule runs.
LEMMA DeclinePolicy ==
    ASSUME PolicyInv, NEW k \in Slots, Decline(k)
    PROVE  PolicyRest'
  <1>0. OneStart'
    BY OneStartKept DEF Client
  <1>1. /\ UNCHANGED <<sched, fromDev, deferred, toDev, bconn, pending, pub, running, undo, context>>
        /\ UNCHANGED <<stranded, resolved, ccmd, cret, acceptor, toBridge>>
        /\ cpc[k] = "idle" /\ cpc' = [cpc EXCEPT ![k] = "declined"]
    BY DEF Decline, Receive, devVars, spoolVars, bridgeVars, mainVars, fwdVars, coreVars, storeVars
  <1>2. toCore'[k] = <<>> /\ \A j \in Slots : j # k => toCore'[j] = toCore[j]
    BY DeliveryRead DEF PolicyInv
  <1>3. /\ cpc'[k] = "declined"
        /\ \A j \in Slots \ {k} : UNCHANGED <<cpc[j], ccmd[j], cret[j], toCore[j]>>
    BY <1>1, <1>2 DEF PolicyInv, ClientTypes
  <1>4. InTransit(toCore'[k]) \subseteq InTransit(toCore[k])
    BY <1>2 DEF InTransit
  <1>5. Stage(k)' = "declined" /\ ~Initialising(k)'
    BY <1>3 DEF Stage, Holding, Initialising
  <1>6. bconn # 0 => \A f \in InTransit(toBridge'[bconn]) : f \in InTransit(toBridge[bconn])
    BY <1>1
  <1>7. QED
    BY <1>0, <1>1, <1>3, <1>4, <1>5, <1>6, ClientMoves

\* What it took is decided, its receipt sent, the answer awaited.
LEMMA ConfirmPolicy ==
    ASSUME PolicyInv, NEW k \in Slots,
           (Commit(k) /\ Decide(k)) \/ SendReceipt(k) \/ Confirmed(k)
    PROVE  PolicyRest'
  <1>0. OneStart'
    BY OneStartKept DEF Client
  <1>1. /\ UNCHANGED <<sched, fromDev, deferred, toDev, bconn, pending, pub, running, undo, context>>
        /\ UNCHANGED <<stranded, ccmd, cret, acceptor>> /\ resolved \subseteq resolved'
        /\ cpc[k] \in Holding
    BY
       DEF Commit, Decide, SendReceipt, Confirmed, devVars, spoolVars, bridgeVars, mainVars,
           fwdVars,
           coreVars, storeVars, Holding
  <1>2. /\ cpc \in [Slots -> ClientPcs] /\ cret[k] \in ReturnPcs /\ toCore \in [Slots -> Seq(Frames)]
        /\ cpend[k] \in AnyRecord
    BY DEF PolicyInv, ClientTypes, WireTypes
  <1>3. /\ cpc'[k] \in Holding \/ cpc'[k] = cret[k]
        /\ \A j \in Slots \ {k} : cpc'[j] = cpc[j]
    <2>1. CASE Commit(k) /\ Decide(k)
      BY <1>2, <2>1 DEF Decide, Holding
    <2>2. CASE SendReceipt(k)
      BY <1>2, <2>2 DEF SendReceipt, Holding
    <2>3. CASE Confirmed(k)
      <3>1. cpc'[k] # "stuck"
        <4>1. FrameRest'
          BY <2>3, ConfirmFrames DEF PolicyInv
        <4>2. QED
          BY <4>1 DEF ClientInStep
      <3>2. QED
        BY <1>2, <2>3, <3>1 DEF Confirmed, Receive
    <2>4. QED
      BY <2>1, <2>2, <2>3
  <1>4. InTransit(toCore'[k]) \subseteq InTransit(toCore[k]) /\ \A j \in Slots \ {k} : toCore'[j] = toCore[j]
    <2>1. CASE toCore' = toCore
      BY <2>1
    <2>2. CASE Confirmed(k)
      BY <2>2, StreamRead DEF PolicyInv, Confirmed, Receive
    <2>3. QED
      BY <2>1, <2>2 DEF Commit, Decide, SendReceipt, wireVars
  <1>5. bconn # 0 => \A f \in InTransit(toBridge'[bconn]) :
          f.type = "CMD" /\ f.cmd \in {"ONCE", "START"} => f \in InTransit(toBridge[bconn])
    <2>1. CASE toBridge' = toBridge
      BY <1>1, <2>1
    <2>2. CASE SendReceipt(k)
      <3>1. Receipt(cpend[k]) \in Frames /\ Receipt(cpend[k]).type = "RECEIPT"
        BY <1>2, MadeFrames DEF Receipt
      <3>2. toBridge' = ToBridgeWith(k, Receipt(cpend[k]))
        BY <2>2 DEF SendReceipt
      <3>3. QED
        BY <3>1, <3>2, NoCaptureSent DEF PolicyInv
    <2>3. QED
      BY <2>1, <2>2 DEF Commit, Decide, Confirmed, wireVars
  <1>6. /\ Stage(k)' = Stage(k) /\ cpc'[k] # "ready" /\ cpc'[k] # "awaitCap"
        /\ cpc'[k] = "free" => Stage(k)' = "free"
        /\ Initialising(k)' <=> Stage(k)' \in {"hello", "caps", "ready"}
    BY <1>1, <1>2, <1>3 DEF Stage, Holding, ReturnPcs, Initialising
  <1>7. /\ cpc[k] \notin {"free", "declined"}
        /\ \A j \in Slots \ {k} : UNCHANGED <<cpc[j], ccmd[j], cret[j], toCore[j]>>
    BY <1>1, <1>3, <1>4 DEF Holding
  <1>8. QED
    BY <1>0, <1>1, <1>4, <1>5, <1>6, <1>7, ClientMoves

\* Clients go away, the published one with everything the application knew of
\* its session.
LEMMA ClientsLeave ==
    ASSUME PolicyInv, OneStart',
           UNCHANGED <<sched, fromDev, deferred, toDev, bconn, pending, resolved, context, ccmd, cret>>,
           UNCHANGED <<stranded, toCore>>,
           \A j \in Slots : /\ cpc'[j] = cpc[j] \/ cpc'[j] = "free"
                            /\ toBridge'[j] = toBridge[j] \/ toBridge'[j] = <<>>
                            /\ Initialising(j)' => acceptor' = "busy",
           \/ pub' = pub /\ (pub # 0 => cpc'[pub] = cpc[pub])
           \/ pub' = 0 /\ (pub # 0 => cpc'[pub] = "free"),
           undo' => undo \/ pub' = 0, running' = running \/ pub' = 0
    PROVE  PolicyRest'
  <1>1. /\ pub \in Slots \cup {0} /\ bconn \in Slots \cup {0} /\ (sched => bconn # 0)
    BY CapturingHasSession DEF PolicyInv, CoreTypes, MainTypes
  <1>2. \A j \in Slots : /\ cpc'[j] = cpc[j] => Stage(j)' = Stage(j) /\ Initialising(j)' = Initialising(j)
                         /\ cpc'[j] = "free" => Stage(j)' = "free" /\ ~Initialising(j)'
    BY DEF Stage, Holding, Initialising
  <1>3. OneInitialised'
    BY <1>2 DEF PolicyInv, OneInitialised
  <1>4. OnlyPublished'
    <2>1. pub' # 0 => Stage(pub)' \notin {"free", "backlog"} /\ ~Initialising(pub)'
      BY <1>1, <1>2 DEF PolicyInv, OnlyPublished
    <2>2. ASSUME NEW j \in Slots
          PROVE  /\ Stage(j)' \in {"await", "awaitCap"} => pub' = j /\ ccmd'[j] \notin {"HELLO", "CAPS"}
                 /\ cpc'[j] = "awaitCap" => ccmd'[j] = "ONCE"
      <3>1. CASE cpc'[j] = "free"
        BY <1>2, <3>1
      <3>2. CASE cpc'[j] = cpc[j] /\ cpc'[j] # "free"
        <4>1. j # 0
          BY DeliveryConstants
        <4>2. Stage(j)' \in {"await", "awaitCap"} => pub = j /\ ccmd[j] \notin {"HELLO", "CAPS"}
          BY <1>2, <3>2 DEF PolicyInv, OnlyPublished
        <4>3. cpc'[j] = "awaitCap" => ccmd'[j] = "ONCE"
          BY <3>2 DEF PolicyInv, OnlyPublished
        <4>4. QED
          BY <3>2, <4>1, <4>2, <4>3
      <3>3. QED
        BY <3>1, <3>2
    <2>3. QED
      BY <2>1, <2>2 DEF OnlyPublished
  <1>5. \A j \in Slots : cpc'[j] # "free" =>
          /\ cpc[j] # "free"
          /\ InTransit(toCore'[j]) \subseteq InTransit(toCore[j])
          /\ Stage(j)' = Stage(j)
          /\ Stage(j)' \in {"backlog", "hello", "caps", "ready"} => Starting(j)
          /\ cpc'[j] = "ready" => cpc[j] = "ready"
    BY <1>2 DEF Starting
  <1>6. \A j \in Slots : cpc'[j] = "free" => Stage(j)' = "free"
    BY <1>2
  <1>7. bconn # 0 => \A f \in InTransit(toBridge'[bconn]) : f \in InTransit(toBridge[bconn])
    <2>1. InTransit(<<>>) = {}
      BY DEF InTransit
    <2>2. QED
      BY <1>1, <2>1
  <1>8. pub' = bconn /\ sched /\ ~running'
          => (Stage(bconn)' = "await" /\ ccmd'[bconn] = "START") \/ cpc'[bconn] = "declined"
    BY <1>1, <1>2 DEF PolicyInv, ScheduleIsKnown
  <1>9. pub' = pub \/ (pub' = 0 /\ (pub # 0 => cpc'[pub] = "free"))
    OBVIOUS
  <1>10. undo' /\ pub' # 0 /\ context' = "schedule" => Quiet \/ OverDeclined' \/ stranded'
    <2>1. pub' # 0 => (OverDeclined => OverDeclined')
      BY DEF OverDeclined
    <2>2. QED
      BY <2>1 DEF PolicyInv, CleanupIsSafe
  <1> HIDE DEF PolicyInv
  <1>11. /\ OthersBlocked' /\ CapturesArePublished' /\ WithdrawnIsQuiet' /\ CleanupIsSafe'
         /\ ScheduleIsKnown' /\ PolicyKept'
    BY <1>5, <1>6, <1>7, <1>8, <1>9, <1>10, CoreKeeps
  <1>12. QED
    BY <1>3, <1>4, <1>11 DEF PolicyRest

\* The ways a client goes away.
LEMMA LossPolicy ==
    ASSUME PolicyInv,
           \/ CoreCrash
           \/ \E k \in Slots : \/ Orphaned(k) \/ ClientEof(k) \/ ClientTimeout(k)
                               \/ Commit(k) /\ ~Decide(k)
    PROVE  PolicyRest'
  <1>0. OneStart'
    BY OneStartKept DEF Client
  <1>1. /\ cpc \in [Slots -> ClientPcs] /\ toBridge \in [Slots -> Seq(Frames)]
        /\ pub \in Slots \cup {0} /\ acceptor \in {"ready", "busy", "gone"}
    BY DEF PolicyInv, ClientTypes, WireTypes, CoreTypes
  <1>2. CASE CoreCrash
    <2>1. /\ UNCHANGED <<sched, fromDev, deferred, toDev, bconn, pending, resolved, context, ccmd, cret>>
          /\ UNCHANGED <<stranded, toCore>> /\ pub' = 0 /\ undo' = FALSE
          /\ \A j \in Slots : cpc'[j] = "free" /\ (toBridge'[j] = toBridge[j] \/ toBridge'[j] = <<>>)
      BY <1>2 DEF CoreCrash, devVars, spoolVars, bridgeVars, mainVars, fwdVars, storeVars
    <2>2. \A j \in Slots : ~Initialising(j)'
      BY <2>1 DEF Initialising
    <2>3. QED
      BY <1>0, <1>1, <2>1, <2>2, ClientsLeave
  <1>3. ASSUME NEW k \in Slots, CloseSlot(k), UNCHANGED <<devVars, spoolVars, bridgeVars, storeVars>>
        PROVE  /\ UNCHANGED <<sched, fromDev, deferred, toDev, bconn, pending, resolved, context>>
               /\ UNCHANGED <<ccmd, cret, stranded, toCore>>
               /\ cpc'[k] = "free" /\ \A j \in Slots : j # k => cpc'[j] = cpc[j]
               /\ \A j \in Slots : toBridge'[j] = toBridge[j] \/ toBridge'[j] = <<>>
               /\ \A j \in Slots : Initialising(j)' => j # k /\ Initialising(j)
    <2>1. /\ UNCHANGED <<sched, fromDev, deferred, toDev, bconn, pending, resolved, context>>
          /\ UNCHANGED <<ccmd, cret, stranded, toCore>>
      BY <1>3 DEF CloseSlot, devVars, spoolVars, bridgeVars, mainVars, fwdVars, storeVars
    <2>2. cpc'[k] = "free" /\ \A j \in Slots : j # k => cpc'[j] = cpc[j]
      BY <1>1, <1>3 DEF CloseSlot
    <2>3. \A j \in Slots : toBridge'[j] = toBridge[j] \/ toBridge'[j] = <<>>
      BY <1>1, <1>3 DEF CloseSlot
    <2>4. \A j \in Slots : Initialising(j)' => j # k /\ Initialising(j)
      BY <2>1, <2>2 DEF Initialising
    <2>5. QED
      BY <2>1, <2>2, <2>3, <2>4
  <1>4. ASSUME NEW k \in Slots, Orphaned(k) PROVE PolicyRest'
    <2>1. /\ CloseSlot(k) /\ UNCHANGED <<devVars, spoolVars, bridgeVars, storeVars>>
          /\ UNCHANGED <<acceptor, pub, running, undo>> /\ pub # k
      BY <1>4 DEF Orphaned, coreVars
    <2>2. \A j \in Slots : Initialising(j)' => acceptor' = "busy"
      BY <1>3, <2>1 DEF PolicyInv, OneInitialised
    <2>3. QED
      BY <1>0, <1>1, <1>3, <2>1, <2>2, ClientsLeave
  <1>5. ASSUME NEW k \in Slots, Commit(k), ~Decide(k) PROVE PolicyRest'
    <2>1. /\ CloseSlot(k) /\ UNCHANGED <<devVars, spoolVars, bridgeVars, storeVars>>
          /\ UNCHANGED <<pub, running, undo>> /\ Initialising(k)
      BY <1>5 DEF Commit, RefuseReplay
    <2>2. \A j \in Slots : ~Initialising(j)'
      BY <1>3, <2>1 DEF PolicyInv, OneInitialised
    <2>3. pub # k
      BY <2>1, DeliveryConstants DEF PolicyInv, OnlyPublished
    <2>4. QED
      BY <1>0, <1>1, <1>3, <2>1, <2>2, <2>3, ClientsLeave
  <1>6. ASSUME NEW k \in Slots, ClientEof(k) \/ ClientTimeout(k) PROVE PolicyRest'
    <2>1. /\ LoseClient(k) /\ cpc[k] \in Waiting \cup {"idle"}
      BY <1>6 DEF ClientEof, ClientTimeout
    <2>2. /\ CloseSlot(k) /\ UNCHANGED <<devVars, spoolVars, bridgeVars, storeVars>>
          /\ acceptor' = (IF Initialising(k) THEN "gone" ELSE acceptor)
          /\ pub' = (IF pub = k THEN 0 ELSE pub)
      BY <2>1 DEF LoseClient
    <2>3. \A j \in Slots : Initialising(j)' => acceptor' = "busy"
      BY <1>3, <2>2 DEF PolicyInv, OneInitialised
    <2>4. undo' => undo \/ pub' = 0
      <3>1. ASSUME InCall(k) PROVE pub = k
        <4>1. Stage(k) = "await"
          BY <3>1 DEF InCall, Stage, Holding
        <4>2. QED
          BY <4>1 DEF PolicyInv, OnlyPublished
      <3>2. QED
        BY <2>1, <2>2, <3>1 DEF LoseClient
    <2>5. running' = running \/ pub' = 0
      <3>1. pub # k => running' = running
        <4>1. running' = (running /\ pub # k) /\ running \in BOOLEAN
          BY <2>1 DEF LoseClient, PolicyInv, CoreTypes
        <4>2. QED
          BY <4>1
      <3>2. QED
        BY <2>2, <3>1
    <2>6. QED
      BY <1>0, <1>1, <1>3, <2>2, <2>3, <2>4, <2>5, ClientsLeave
  <1>7. QED
    BY <1>2, <1>4, <1>5, <1>6

\* An answer is taken: a policy is withdrawn only when nothing needs it.
LEMMA ReplyPolicy ==
    ASSUME PolicyInv, NEW k \in Slots, Replied(k)
    PROVE  PolicyRest'
  <1>0. OneStart'
    BY OneStartKept DEF Client
  <1> DEFINE f == Head(toCore[k])
  <1>1. /\ UNCHANGED <<sched, fromDev, deferred, toDev, bconn, pending, pub, context, stranded, resolved>>
        /\ UNCHANGED <<ccmd, cret, acceptor, toBridge>> /\ cpc[k] = "await" /\ Answered(k)
        /\ toCore' = [toCore EXCEPT ![k] = Tail(@)]
        /\ cpc' = [cpc EXCEPT ![k] = IF f \in {Resp(ccmd[k]), Err(ccmd[k])}
                                     THEN IF f.type = "RESP" /\ ccmd[k] = "ONCE" THEN "awaitCap" ELSE "idle"
                                     ELSE "stuck"]
    BY DEF Replied, Receive, devVars, spoolVars, bridgeVars, mainVars, fwdVars, storeVars
  <1>2. /\ running' = (IF ccmd[k] \in {"START", "STOP"} THEN f.type = "RESP" /\ ccmd[k] = "START"
                       ELSE running)
        /\ undo' = (undo \/ (f.type # "RESP" /\ ccmd[k] = "START"))
    BY DEF Replied
  <1>3. /\ f = Resp(ccmd[k]) \/ (f = Err(ccmd[k]) /\ ccmd[k] \in {"QUERY", "ONCE", "START"})
        /\ f \in InTransit(toCore[k]) /\ InTransit(toCore'[k]) \subseteq InTransit(toCore[k])
        /\ \A j \in Slots : j # k => toCore'[j] = toCore[j]
    BY <1>1, AnswerRead DEF PolicyInv
  <1> HIDE DEF f
  <1>4. /\ f = Resp(ccmd[k]) => f.type = "RESP"
        /\ f = Err(ccmd[k]) => f.type = "ERROR"
    BY DEF Resp, Err
  <1>5. /\ cpc'[k] = (IF f.type = "RESP" /\ ccmd[k] = "ONCE" THEN "awaitCap" ELSE "idle")
        /\ \A j \in Slots : j # k => cpc'[j] = cpc[j]
    BY <1>1, <1>3 DEF PolicyInv, ClientTypes
  <1>6. /\ Stage(k) = "await" /\ Stage(k)' = cpc'[k] /\ ~Initialising(k)'
        /\ \A j \in Slots : j # k => Stage(j)' = Stage(j) /\ Initialising(j)' = Initialising(j)
    BY <1>1, <1>5 DEF Stage, Holding, Initialising
  <1>7. pub = k /\ k # 0 /\ ccmd[k] \notin {"HELLO", "CAPS"}
    BY <1>6, DeliveryConstants DEF PolicyInv, OnlyPublished
  <1>8. f = Err(ccmd[k]) /\ ccmd[k] = "START" => Quiet
    BY <1>1, <1>3 DEF PolicyInv, WithdrawnIsQuiet
  <1>9. f = Resp(ccmd[k]) /\ ccmd[k] = "STOP" => ~sched
    BY <1>1, <1>3 DEF PolicyInv, ScheduleIsKnown
  <1>10. OneInitialised'
    BY <1>1, <1>6 DEF PolicyInv, OneInitialised
  <1>11. OnlyPublished'
    BY <1>1, <1>5, <1>6, <1>7 DEF PolicyInv, OnlyPublished
  <1>12. \A j \in Slots : cpc'[j] # "free" =>
           /\ cpc[j] # "free"
           /\ InTransit(toCore'[j]) \subseteq InTransit(toCore[j])
           /\ Stage(j)' \in {"backlog", "hello", "caps", "ready"} => Stage(j)' = Stage(j) /\ Starting(j)
           /\ cpc'[j] = "ready" => cpc[j] = "ready"
    BY <1>1, <1>3, <1>5, <1>6 DEF Starting
  <1>13. \A j \in Slots : cpc'[j] = "free" => Stage(j)' = "free"
    BY <1>5, <1>6, StartingClients DEF PolicyInv
  <1>14. undo' /\ pub' # 0 /\ context' = "schedule" => Quiet \/ OverDeclined' \/ stranded'
    <2>1. f.type = "RESP" \/ ccmd[k] # "START" \/ Quiet
      BY <1>3, <1>4, <1>8
    <2>2. ~OverDeclined
      BY <1>1, <1>7 DEF OverDeclined
    <2>3. QED
      BY <1>1, <1>2, <2>1, <2>2 DEF PolicyInv, CleanupIsSafe
  <1>15. pub' = bconn /\ sched /\ ~running'
           => (Stage(bconn)' = "await" /\ ccmd'[bconn] = "START") \/ cpc'[bconn] = "declined"
    <2>1. SUFFICES ASSUME pub = bconn, sched, ~running' PROVE FALSE
      BY <1>1
    <2>2. bconn = k
      BY <1>7, <2>1
    <2>3. ccmd[k] \notin {"START", "STOP"} => FALSE
      <3>1. ccmd[k] \notin {"START", "STOP"} => running' = running
        BY <1>2
      <3>2. QED
        BY <1>1, <1>7, <2>1, <2>2, <3>1 DEF PolicyInv, ScheduleIsKnown
    <2>4. ccmd[k] = "START" => f.type # "RESP"
      BY <1>2, <2>1
    <2>5. ccmd[k] = "START" => FALSE
      BY <1>3, <1>4, <1>8, <2>1, <2>4 DEF Quiet, Capturing
    <2>6. ccmd[k] = "STOP" => FALSE
      BY <1>3, <1>9, <2>1
    <2>7. QED
      BY <2>3, <2>5, <2>6
  <1>16. bconn # 0 => \A g \in InTransit(toBridge'[bconn]) : g \in InTransit(toBridge[bconn])
    BY <1>1
  <1>17. /\ OthersBlocked' /\ CapturesArePublished' /\ WithdrawnIsQuiet' /\ CleanupIsSafe'
         /\ ScheduleIsKnown' /\ PolicyKept'
    BY <1>1, <1>12, <1>13, <1>14, <1>15, <1>16, CoreKeeps
  <1>18. QED
    BY <1>0, <1>10, <1>11, <1>17 DEF PolicyRest

\* The application registers a run, or ends one that failed: a policy is
\* withdrawn only when nothing needs it, or over a declined delivery.
LEMMA BookkeepingPolicy ==
    ASSUME PolicyInv, Bookkeeping
    PROVE  PolicyRest'
  <1>0. OneStart'
    BY OneStartKept
  <1>1. /\ UNCHANGED <<sched, fromDev, deferred, toDev, bconn, pending, pub, resolved>>
        /\ UNCHANGED <<cpc, ccmd, cret, acceptor, toBridge, toCore>>
    BY
       DEF Bookkeeping, Register, RunFails, SessionFails, StartCleanup, devVars, spoolVars,
           bridgeVars,
           mainVars, fwdVars, wireVars, clientVars, storeVars
  <1>2. OneInitialised' /\ OnlyPublished' /\ (OverDeclined' <=> OverDeclined)
    BY <1>1 DEF PolicyInv, OneInitialised, OnlyPublished, Initialising, Stage, OverDeclined
  <1>3. undo /\ pub # 0 /\ context = "schedule" => Quiet \/ OverDeclined \/ stranded
    BY DEF PolicyInv, CleanupIsSafe
  <1>4. /\ undo' /\ pub' # 0 /\ context' = "schedule" => Quiet \/ OverDeclined' \/ stranded'
        /\ context # "none" \/ stranded => context' # "none" \/ stranded' \/ Quiet
        /\ running' = running \/ OverDeclined
    <2>1. ASSUME NEW r \in Runs, Register(r)
          PROVE  context' = r /\ undo' = undo /\ (r = "schedule" => ~undo) /\ running' = running
      BY <2>1 DEF Register, StartInProgress
    <2>2. CASE \E r \in Runs : Register(r)
      BY <2>1, <2>2 DEF Runs
    <2>3. CASE \E r \in Runs : RunFails(r)
      <3>1. UNCHANGED <<context, stranded, running>> /\ (undo' /\ pub # 0 => undo \/ OverDeclined)
        BY <2>3 DEF RunFails, storeVars, OverDeclined
      <3>2. QED
        BY <1>1, <1>2, <1>3, <3>1
    <2>4. CASE SessionFails
      <3>1. UNCHANGED <<context, stranded, undo>> /\ OverDeclined
        BY <2>4 DEF SessionFails, storeVars, OverDeclined
      <3>2. QED
        BY <1>1, <1>2, <1>3, <3>1
    <2>5. CASE StartCleanup
      BY <1>3, <2>5 DEF StartCleanup, Withdraw
    <2>6. QED
      BY <2>2, <2>3, <2>4, <2>5 DEF Bookkeeping
  <1>5. \A j \in Slots : Stage(j)' = Stage(j) /\ (cpc[j] = "free" => Stage(j) = "free")
    BY <1>1, StartingClients DEF PolicyInv, Stage
  <1>6. pub' = bconn /\ sched /\ ~running'
          => (Stage(bconn)' = "await" /\ ccmd'[bconn] = "START") \/ cpc'[bconn] = "declined"
    BY <1>1, <1>4 DEF PolicyInv, ScheduleIsKnown, Stage, OverDeclined
  <1>7. \A j \in Slots : Stage(j) \in {"backlog", "hello", "caps", "ready"} => Starting(j)
    BY DEF Starting
  <1> HIDE DEF PolicyInv
  <1>8. /\ OthersBlocked' /\ CapturesArePublished' /\ WithdrawnIsQuiet' /\ CleanupIsSafe'
        /\ ScheduleIsKnown' /\ PolicyKept'
    BY <1>1, <1>4, <1>5, <1>6, <1>7, CoreKeeps
  <1>9. QED
    BY <1>0, <1>2, <1>8 DEF PolicyRest

\* The application sends a command: one that leads to captures has its policy.
LEMMA RequestPolicy ==
    ASSUME PolicyInv, NEW k \in Slots, Request(k)
    PROVE  PolicyRest'
  <1>0. OneStart'
    BY OneStartKept
  <1> PICK c \in {"QUERY", "ONCE", "START", "STOP"} :
           /\ Send(k, c)
           /\ \/ c \in {"QUERY", "STOP"} /\ UNCHANGED stranded
              \/ /\ c \in {"ONCE", "START"} /\ (c = "START" => "schedule" \in early)
                 /\ stranded' = (stranded \/ context = "none" \/ (context = "schedule" /\ undo))
    BY DEF Request, SendRun, Command, Runs
  <1>1. /\ UNCHANGED <<sched, fromDev, deferred, toDev, bconn, pending, pub, running, undo, context>>
        /\ UNCHANGED resolved
        /\ UNCHANGED <<cret, acceptor, toCore>> /\ pub = k /\ cpc[k] = "idle"
        /\ cpc' = [cpc EXCEPT ![k] = "await"] /\ ccmd' = [ccmd EXCEPT ![k] = c]
        /\ toBridge' = ToBridgeWith(k, Cmd(c))
    BY DEF Send, devVars, spoolVars, bridgeVars, mainVars, fwdVars
  <1>2. c = "START" => ~running
    BY DEF PolicyInv, OneStart
  <1>3. /\ bconn \in Slots \cup {0} /\ k # 0
        /\ Cmd(c) \in Frames /\ Cmd(c).type = "CMD" /\ Cmd(c).cmd = c
    BY MadeFrames, DeliveryConstants DEF PolicyInv, MainTypes, Cmd, Commands
  <1>4. /\ cpc'[k] = "await" /\ ccmd'[k] = c
        /\ \A j \in Slots : j # k => cpc'[j] = cpc[j] /\ ccmd'[j] = ccmd[j]
    BY <1>1 DEF PolicyInv, ClientTypes
  <1>5. /\ Stage(k) = "idle" /\ Stage(k)' = "await" /\ ~Initialising(k)'
        /\ \A j \in Slots : j # k => Stage(j)' = Stage(j) /\ Initialising(j)' = Initialising(j)
    BY <1>1, <1>4 DEF Stage, Holding, Initialising
  <1>6. OneInitialised'
    BY <1>1, <1>5 DEF PolicyInv, OneInitialised
  <1>7. OnlyPublished'
    BY <1>1, <1>4, <1>5 DEF PolicyInv, OnlyPublished
  <1>8. ~(pub = bconn /\ sched /\ ~running)
    BY <1>1, <1>5 DEF PolicyInv, ScheduleIsKnown
  <1>9. CASE c \in {"QUERY", "STOP"}
    <2>1. bconn # 0 => \A g \in InTransit(toBridge'[bconn]) :
            g.type = "CMD" /\ g.cmd \in {"ONCE", "START"} => g \in InTransit(toBridge[bconn])
      BY <1>1, <1>3, <1>9, NoCaptureSent DEF PolicyInv
    <2>2. \A j \in Slots : cpc'[j] # "free" =>
            /\ cpc[j] # "free"
            /\ InTransit(toCore'[j]) \subseteq InTransit(toCore[j])
            /\ Stage(j)' \in {"backlog", "hello", "caps", "ready"} => Stage(j)' = Stage(j) /\ Starting(j)
            /\ cpc'[j] = "ready" => cpc[j] = "ready"
      BY <1>1, <1>4, <1>5 DEF Starting
    <2>3. \A j \in Slots : cpc'[j] = "free" => Stage(j)' = "free"
      BY <1>4, <1>5, StartingClients DEF PolicyInv
    <2>4. undo' /\ pub' # 0 /\ context' = "schedule" => Quiet \/ OverDeclined' \/ stranded'
      BY <1>1, <1>9 DEF PolicyInv, CleanupIsSafe, OverDeclined
    <2>5. ~(pub' = bconn /\ sched /\ ~running') /\ UNCHANGED stranded
      BY <1>1, <1>8, <1>9
    <2>6. /\ OthersBlocked' /\ CapturesArePublished' /\ WithdrawnIsQuiet' /\ CleanupIsSafe'
          /\ ScheduleIsKnown' /\ PolicyKept'
      BY <1>1, <2>1, <2>2, <2>3, <2>4, <2>5, CoreKeeps
    <2>7. QED
      BY <1>0, <1>6, <1>7, <2>6 DEF PolicyRest
  <1>10. CASE c \in {"ONCE", "START"}
    <2>1. stranded' = (stranded \/ context = "none" \/ (context = "schedule" /\ undo))
      BY <1>10
    <2>2. Unanswered' \subseteq Unanswered \/ bconn = k
      <3>1. \A j \in Slots : \A g \in InTransit(toBridge'[j]) :
              g \in InTransit(toBridge[j]) \/ (g = Cmd(c) /\ j = k /\ Up(k))
        BY <1>1, <1>3, BridgeStreamGains DEF PolicyInv
      <3>2. QED
        BY <1>1, <1>3, <3>1 DEF Unanswered
    <2>3. (Capturing' => Capturing) \/ bconn = k
      BY <1>1, <2>2 DEF Capturing
    <2>4. OthersBlocked'
      <3>1. bconn # 0 /\ (pub' = bconn \/ Capturing') => bconn # 0 /\ (pub = bconn \/ Capturing)
        BY <1>1, <2>3
      <3>2. \A j \in Slots : Starting(j)' => Starting(j) /\ Stage(j)' = Stage(j)
        BY <1>5 DEF Starting
      <3>3. QED
        BY <1>1, <3>1, <3>2 DEF PolicyInv, OthersBlocked
    <2>5. CapturesArePublished'
      BY <1>1, <1>3, <2>3 DEF PolicyInv, CapturesArePublished
    <2>6. ASSUME NEW j \in Slots, cpc'[j] # "free",
                 \/ cpc'[j] = "ready" \/ Resp("CAPS") \in InTransit(toCore'[j])
                 \/ Err("START") \in InTransit(toCore'[j])
          PROVE  Quiet'
      <3>1. j # k /\ cpc[j] # "free" /\ Starting(j) /\ Stage(j) \in {"caps", "ready"}
        <4>1. CoreStream(j) /\ ClientInStep(j) /\ cpc[j] # "free"
          BY <1>1, <1>4, <2>6 DEF PolicyInv
        <4>2. /\ Resp("CAPS").type = "RESP" /\ Resp("CAPS").cmd = "CAPS"
              /\ Err("START").type = "ERROR" /\ Err("START").cmd = "START"
          BY DEF Resp, Err
        <4>3. /\ Resp("CAPS") \in InTransit(toCore[j]) => Awaiting(j) /\ ccmd[j] = "CAPS"
              /\ Err("START") \in InTransit(toCore[j]) => Awaiting(j) /\ ccmd[j] = "START"
          BY <4>1, <4>2 DEF CoreStream
        <4>4. Stage(j) = "await" => j = k /\ ccmd[j] # "CAPS"
          BY <1>1 DEF PolicyInv, OnlyPublished
        <4>5. Err("START") \notin InTransit(toCore[j])
          BY <1>5, <4>1, <4>3, <4>4 DEF Awaiting, ClientInStep
        <4>6. Resp("CAPS") \in InTransit(toCore[j]) => Stage(j) = "caps"
          BY <4>1, <4>3, <4>4 DEF Awaiting, ClientInStep
        <4>7. cpc'[j] = "ready" => j # k /\ Stage(j) = "ready"
          BY <1>4 DEF Stage, Holding
        <4>8. QED
          BY <1>1, <1>5, <2>6, <4>1, <4>5, <4>6, <4>7 DEF Starting
      <3>2. bconn # k
        BY <1>1, <1>3, <3>1 DEF PolicyInv, OthersBlocked
      <3>3. Quiet
        BY <1>1, <1>4, <2>6, <3>1 DEF PolicyInv, WithdrawnIsQuiet, Stage, Holding
      <3>4. QED
        BY <1>1, <2>3, <3>2, <3>3 DEF Quiet, Undecided
    <2>7. WithdrawnIsQuiet' /\ CleanupIsSafe'
      BY <1>1, <2>1, <2>6 DEF WithdrawnIsQuiet, CleanupIsSafe
    <2>8. ScheduleIsKnown'
      <3>1. "START" \in Unanswered' => ~sched'
        <4>1. Unanswered' \subseteq Unanswered \cup (IF bconn = k THEN {c} ELSE {})
          BY <1>1, <1>3, BridgeStreamGains DEF PolicyInv, Unanswered
        <4>2. QED
          BY <1>1, <1>2, <1>8, <4>1 DEF PolicyInv, ScheduleIsKnown
      <3>2. \A j \in Slots : cpc'[j] # "free" /\ Resp("STOP") \in InTransit(toCore'[j]) => ~sched'
        BY <1>1, <1>4 DEF PolicyInv, ScheduleIsKnown
      <3>3. \A i \in 1 .. Len(fromDev') :
              /\ fromDev'[i] = Resp("STOP") => ~sched'
              /\ fromDev'[i] = Err("START")
                   => ~sched' /\ \A j \in 1 .. Len(fromDev') : i < j => fromDev'[j].type # "DATA"
        BY <1>1 DEF PolicyInv, ScheduleIsKnown
      <3>4. ~(pub' = bconn' /\ sched' /\ ~running')
        BY <1>1, <1>8
      <3>5. QED
        BY <3>1, <3>2, <3>3, <3>4 DEF ScheduleIsKnown
    <2>9. PolicyKept'
      BY <1>1, <2>1 DEF PolicyKept
    <2>10. QED
      BY <1>0, <1>6, <1>7, <2>4, <2>5, <2>7, <2>8, <2>9 DEF PolicyRest
  <1>11. QED
    BY <1>9, <1>10

\* A client is published when nothing is under way, on its connection or on
\* another one.
LEMMA PublishPolicy ==
    ASSUME PolicyInv, NEW k \in Slots, Publish(k)
    PROVE  PolicyRest'
  <1>0. OneStart'
    BY OneStartKept DEF Client
  <1>1. /\ UNCHANGED <<sched, fromDev, deferred, toDev, bconn, pending, undo, resolved>>
        /\ UNCHANGED <<ccmd, cret, toBridge, toCore>>
        /\ cpc[k] = "ready" /\ (pub # 0 => ~Locked(pub)) /\ pub' = k
        /\ cpc'[k] = "idle" /\ context' = "none"
        /\ \A j \in Slots : j # k => cpc'[j] = cpc[j] \/ cpc'[j] = "free"
    BY DEF Publish, devVars, spoolVars, bridgeVars, mainVars, fwdVars, wireVars, storeVars
  <1>2. Quiet /\ k # 0
    BY <1>1, DeliveryConstants DEF PolicyInv, WithdrawnIsQuiet
  <1>3. Quiet'
    <2>1. UNCHANGED Unanswered
      BY <1>1 DEF Unanswered
    <2>2. QED
      BY <1>1, <1>2, <2>1 DEF Quiet, Capturing, Undecided
  <1>4. /\ Stage(k)' = "idle" /\ ~Initialising(k)'
        /\ \A j \in Slots : j # k => /\ Initialising(j)' => Initialising(j)
                                     /\ Stage(j)' = Stage(j) \/ (Stage(j)' = "free" /\ cpc'[j] = "free")
    BY <1>1 DEF Stage, Holding, Initialising
  <1>5. Initialising(k)
    BY <1>1 DEF Initialising
  <1>6. \A j \in Slots : ~Initialising(j)'
    BY <1>4, <1>5 DEF PolicyInv, OneInitialised
  <1>7. OneInitialised'
    BY <1>6 DEF OneInitialised
  <1>8. OnlyPublished'
    <2>1. ASSUME NEW j \in Slots, Stage(j)' \in {"await", "awaitCap"} PROVE FALSE
      <3>1. Stage(j) \in {"await", "awaitCap"} /\ j # 0
        BY <1>4, <2>1, DeliveryConstants
      <3>2. pub = j
        BY <3>1 DEF PolicyInv, OnlyPublished
      <3>3. Locked(j)
        BY <3>1 DEF Locked, InCall, Stage, Holding, PolicyInv, ClientTypes, ReturnPcs
      <3>4. QED
        BY <1>1, <3>1, <3>2, <3>3
    <2>2. \A j \in Slots : cpc'[j] = "awaitCap" => Stage(j)' = "awaitCap"
      BY DEF Stage, Holding
    <2>3. QED
      BY <1>1, <1>4, <2>1, <2>2 DEF OnlyPublished
  <1>9. OthersBlocked'
    <2>1. ~Capturing'
      BY <1>3 DEF Quiet
    <2>2. ASSUME NEW j \in Slots, Starting(j)'
          PROVE  Stage(j)' = "backlog" /\ \A f \in InTransit(toCore'[j]) : f.type # "RESP"
      <3>1. j # k /\ Stage(j)' = Stage(j) /\ cret[j] \in ReturnPcs
        BY <1>4, <2>2 DEF Starting, PolicyInv, ClientTypes
      <3>2. cpc'[j] = "backlog"
        BY <1>1, <1>6, <2>2, <3>1 DEF Starting, Stage, Holding, Initialising, ReturnPcs
      <3>3. cpc[j] = "backlog"
        BY <1>1, <3>1, <3>2
      <3>4. CoreStream(j)
        BY DEF PolicyInv
      <3>5. QED
        BY <1>1, <3>2, <3>3, <3>4 DEF CoreStream, Awaiting, Stage, Holding
    <2>3. QED
      BY <2>1, <2>2 DEF OthersBlocked
  <1>10. CapturesArePublished' /\ WithdrawnIsQuiet' /\ CleanupIsSafe' /\ PolicyKept'
    BY <1>3 DEF Quiet, CapturesArePublished, WithdrawnIsQuiet, CleanupIsSafe, PolicyKept
  <1>11. ScheduleIsKnown'
    <2>1. ~sched'
      BY <1>3 DEF Quiet, Capturing
    <2>2. \A i \in 1 .. Len(fromDev') : fromDev'[i] = Err("START")
            => \A j \in 1 .. Len(fromDev') : i < j => fromDev'[j].type # "DATA"
      BY <1>1 DEF PolicyInv, ScheduleIsKnown
    <2>3. QED
      BY <2>1, <2>2 DEF ScheduleIsKnown
  <1>12. QED
    BY <1>0, <1>7, <1>8, <1>9, <1>10, <1>11 DEF PolicyRest

-----------------------------------------------------------------------------
(* Together. *)

\* Nothing is under way at first.
LEMMA InitPolicy == Init => PolicyRest
  <1>1. SUFFICES ASSUME Init PROVE PolicyRest
    OBVIOUS
  <1>2. /\ \A k \in Slots : /\ cpc[k] = "free" /\ toCore[k] = <<>>
                            /\ Stage(k) = "free" /\ ~Initialising(k) /\ ~Starting(k)
        /\ pub = 0 /\ bconn = 0 /\ ~undo /\ ~sched /\ fromDev = <<>> /\ pending = {}
        /\ deferred = <<>> /\ toDev = <<>> /\ early = {}
    BY <1>1 DEF Init, Stage, Holding, Initialising, Starting
  <1>3. InTransit(<<>>) = {} /\ Len(<<>>) = 0
    BY DEF InTransit
  <1>4. Unanswered = {} /\ ~Capturing /\ Undecided = {}
    BY <1>2, <1>3 DEF Unanswered, Capturing, Undecided
  <1>5. OneInitialised /\ OnlyPublished /\ OthersBlocked /\ CapturesArePublished /\ WithdrawnIsQuiet
    BY <1>2, <1>4
       DEF OneInitialised, OnlyPublished, OthersBlocked, CapturesArePublished, WithdrawnIsQuiet
  <1>6. CleanupIsSafe /\ OneStart /\ ScheduleIsKnown /\ PolicyKept
    BY <1>2, <1>3, <1>4 DEF CleanupIsSafe, OneStart, ScheduleIsKnown, PolicyKept
  <1>7. QED
    BY <1>5, <1>6 DEF PolicyRest

\* Every step keeps the policy of what it may lead to.
LEMMA StepPolicy ==
    ASSUME PolicyInv, [Next]_vars
    PROVE  PolicyRest'
  <1>1. CASE UNCHANGED vars
    <2>1. /\ UNCHANGED <<fromDev, bconn, cpc, ccmd, cret, acceptor, pub,
                         running, undo, early, resolved, context, stranded>>
          /\ UNCHANGED <<sched, toDev, deferred, toBridge, toCore, pending>>
      BY <1>1
         DEF vars, devVars, spoolVars, bridgeVars, mainVars, fwdVars, wireVars, clientVars,
             coreVars,
                  storeVars
    <2>2. Unanswered' \subseteq Unanswered
      BY <2>1 DEF Unanswered
    <2>3. \A k \in Slots : \A f \in InTransit(toCore'[k]) : f \in InTransit(toCore[k])
      BY <2>1
    <2>4. QED
      BY <2>1, <2>2, <2>3, NothingAdded
  <1>2. ASSUME NEW k \in Slots, Open(k) PROVE PolicyRest'
    BY <1>2, OpenPolicy
  <1>3. CASE Bridge
    BY <1>3, ForwardPolicy, StorePolicy, MovePolicy, DeliveryPolicy, EndPolicy DEF Bridge
  <1>4. CASE Reader
    BY <1>4, MovePolicy, DeliveryPolicy DEF Reader
  <1>5. ASSUME NEW z \in zombies, ZombieMark(z) PROVE PolicyRest'
    BY <1>5, DeliveryPolicy
  <1>6. CASE Device
    BY <1>6, AnswerPolicy, PeriodicPolicy, DeliveryPolicy DEF Device
  <1>7. ASSUME NEW k \in Slots, Client(k) PROVE PolicyRest'
    <2>1. CASE Commit(k)
      <3>1. Decide(k) \/ ~Decide(k)
        OBVIOUS
      <3>2. QED
        BY <2>1, <3>1, ConfirmPolicy, LossPolicy
    <2>2. CASE Accept(k) \/ HelloDone(k) \/ CapsDone(k) \/ Publish(k) \/ Replied(k)
      BY <2>2, InitialisePolicy, PublishPolicy, ReplyPolicy
    <2>3. CASE \/ AcceptDelivery(k) \/ Decline(k) \/ SendReceipt(k) \/ Confirmed(k)
               \/ Orphaned(k) \/ ClientEof(k)
      BY <2>3, TakePolicy, DeclinePolicy, ConfirmPolicy, LossPolicy
    <2>4. QED
      BY <1>7, <2>1, <2>2, <2>3 DEF Client
  <1>8. ASSUME NEW k \in Slots, Request(k) PROVE PolicyRest'
    BY <1>8, RequestPolicy
  <1>9. CASE Bookkeeping
    BY <1>9, BookkeepingPolicy
  <1>10. CASE Faults
    BY <1>10, EndPolicy, LossPolicy, MovePolicy DEF Faults
  <1>11. QED
    BY <1>1, <1>2, <1>3, <1>4, <1>5, <1>6, <1>7, <1>8, <1>9, <1>10 DEF Next

\* The policy is there as long as a command, schedule or frame on any connection
\* can still lead to a capture or the spool holds one that is undecided, whatever
\* crashes, breaks or times out, and whatever the late worker declines; except
\* after a START refused over a declined delivery, or a run sent although it had
\* lost its row.
THEOREM PolicyInvariant == Spec => []PolicyInv
  <1>1. FrameInv /\ PolicyRest <=> PolicyInv
    BY DEF PolicyInv, PolicyRest
  <1>2. FrameInv /\ PolicyRest /\ [Next]_vars => PolicyRest'
    BY <1>1, StepPolicy
  <1> HIDE DEF FrameInv
  <1>3. QED
    BY <1>1, <1>2, InitPolicy, FrameInvariant, PTL DEF Spec

\* A capture in the spool can be replayed: it is decided already, or the policy
\* that lets the core decide it is there, although the core cannot tell a START
\* that was lost from one whose acknowledgement was; but for the two cases that
\* stranded records.
THEOREM SpooledHasPolicyAlways == Spec => []SpooledHasPolicy
  <1>1. PolicyInv => SpooledHasPolicy
    BY DEF PolicyInv, PolicyKept, Undecided, SpooledHasPolicy, CapsOf
  <1> HIDE DEF FrameInv
  <1>2. QED
    BY <1>1, PolicyInvariant, PTL
=============================================================================
