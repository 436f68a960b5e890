------------------------ MODULE NmeaBridgeQueueProofs -----------------------
(***************************************************************************)
(* Proofs that the queues of NmeaBridge lose nothing uncounted and keep    *)
(* the order of the frames, for every number of sinks and sessions and     *)
(* every queue depth, and that the bridge implements LossyFanOut.          *)
(***************************************************************************)
EXTENDS NmeaBridgeProofs, FiniteSetTheorems, SequenceTheorems

(* The newest frame that has gone through put_drop_oldest: during a        *)
(* publication that found the queue full, the frame before it.             *)
Settled == IF prodPc = "idle" THEN bridge_stats.frames_in ELSE bridge_stats.frames_in - 1

InHand == IF dispPc = "lock" THEN 1 ELSE 0

(* The ingest queue at every point of a publication.  The producer has the *)
(* highest priority, so between its failed put and its second one nobody   *)
(* takes from the queue: the drop is of a real frame, and the second put   *)
(* finds room.                                                             *)
IngestInv ==
  /\ Settled = Len(log) + InHand + Len(ingest) + bridge_stats.ingest_dropped_oldest
  /\ \A k \in 1..Len(ingest) : ingest[k] = Settled - Len(ingest) + k
  /\ dispPc = "wait" => ingest = <<>>
  /\ prodPc = "drop" => ingest # <<>>
  /\ prodPc = "retry" => HasRoom(ingest, IngestDepth)

-----------------------------------------------------------------------------
(* While a publication is in progress only the producer runs.              *)
LEMMA ProducerFirst ==
  ASSUME prodPc # "idle"
  PROVE  ~CanRun(DispatcherPrio) /\ ~CanRun(SessionPrio)
  BY DEF CanRun, UartPrio, DispatcherPrio, SessionPrio

(* Queues that hold consecutive numbers up to n.                           *)
LEMMA AppendNext ==
  ASSUME NEW q \in Seq(Nat), NEW n \in Int,
         \A k \in 1..Len(q) : q[k] = n - Len(q) + k
  PROVE  \A k \in 1..Len(Append(q, n + 1)) :
           Append(q, n + 1)[k] = (n + 1) - Len(Append(q, n + 1)) + k
  OBVIOUS

LEMMA TailConsecutive ==
  ASSUME NEW q \in Seq(Nat), NEW n \in Int, q # <<>>,
         \A k \in 1..Len(q) : q[k] = n - Len(q) + k
  PROVE  /\ Len(Tail(q)) = Len(q) - 1
         /\ \A k \in 1..Len(Tail(q)) : Tail(q)[k] = n - Len(Tail(q)) + k
  OBVIOUS

(* A put of the frame after the settled one, where there is room.          *)
LEMMA PutIngestStep ==
  ASSUME QueuesOK, CountersOK, IngestInv, NEW f, f = Settled + 1, PutIngest(f), prodPc' = "idle",
         bridge_stats'.frames_in = f, UNCHANGED log,
         bridge_stats'.ingest_dropped_oldest = bridge_stats.ingest_dropped_oldest
  PROVE  IngestInv'
<1>0. Settled \in Int /\ bridge_stats.ingest_dropped_oldest \in Nat /\ Len(log) \in Nat
  BY DEF Settled, CountersOK, BridgeCounters, QueuesOK
<1>1. CASE dispPc = "wait"
  BY <1>0, <1>1 DEF PutIngest, IngestInv, Settled, InHand
<1>2. CASE dispPc # "wait"
  <2>1. ingest' = Append(ingest, f) /\ UNCHANGED dispPc
    BY <1>2 DEF PutIngest
  <2>2. Len(ingest') = Len(ingest) + 1
    BY <2>1 DEF QueuesOK
  <2>3. \A k \in 1..Len(ingest') : ingest'[k] = f - Len(ingest') + k
    BY <1>0, <2>1, AppendNext, SMTT(30) DEF IngestInv, QueuesOK
  <2>4. Settled' = f /\ InHand' = InHand /\ InHand \in Nat
    BY <2>1 DEF Settled, InHand
  <2>5. Settled' = Len(log') + InHand' + Len(ingest') + bridge_stats'.ingest_dropped_oldest
    BY <1>0, <2>2, <2>4 DEF IngestInv, QueuesOK
  <2> QED BY <1>2, <2>1, <2>3, <2>4, <2>5 DEF IngestInv
<1> QED BY <1>1, <1>2

LEMMA IngestStep == ASSUME TypeInv, IngestInv, Next PROVE IngestInv'
<1> USE SizesAssumption DEF TypeInv
<1>1. ASSUME NEW len \in Lens, PublishRejected(len) PROVE IngestInv'
  BY <1>1 DEF PublishRejected, IngestInv, Settled, InHand, CountersOK, BridgeCounters, prodVars, dispVars,
     HasRoom
<1>2. ASSUME NEW len \in Lens, Publish(len) PROVE IngestInv'
  <2>1. /\ bridge_stats.frames_in \in Nat /\ Settled = bridge_stats.frames_in
        /\ bridge_stats'.frames_in = bridge_stats.frames_in + 1
        /\ bridge_stats'.ingest_dropped_oldest = bridge_stats.ingest_dropped_oldest
        /\ UNCHANGED log
    BY <1>2 DEF Publish, CountersOK, BridgeCounters, Settled
  <2>2. CASE HasRoom(ingest, IngestDepth)
    BY <1>2, <2>1, <2>2, PutIngestStep DEF Publish
  <2>3. CASE ~HasRoom(ingest, IngestDepth)
    <3>1. prodPc' = "drop" /\ UNCHANGED <<ingest, dispPc>>
      BY <1>2, <2>3 DEF Publish
    <3>2. ingest # <<>>
      BY <2>3 DEF HasRoom
    <3> QED BY <2>1, <3>1, <3>2 DEF IngestInv, Settled, InHand
  <2> QED BY <2>2, <2>3
<1>3. CASE PublishDropOldest
  <2>1. /\ bridge_stats.frames_in \in Nat /\ bridge_stats.ingest_dropped_oldest \in Nat
        /\ UNCHANGED <<dispPc, log>> /\ Settled' = Settled /\ Settled \in Int
        /\ bridge_stats'.ingest_dropped_oldest = bridge_stats.ingest_dropped_oldest + 1
    BY <1>3 DEF PublishDropOldest, CountersOK, BridgeCounters, dispVars, Settled
  <2>2. ingest # <<>> /\ ingest' = Tail(ingest) /\ prodPc' = "retry"
    BY <1>3 DEF PublishDropOldest, DropOldest, IngestInv
  <2>3. /\ Len(ingest') = Len(ingest) - 1
        /\ \A k \in 1..Len(ingest') : ingest'[k] = Settled - Len(ingest') + k
    BY <2>1, <2>2, TailConsecutive DEF IngestInv, QueuesOK
  <2>4. HasRoom(ingest', IngestDepth)
    BY <2>3 DEF HasRoom, QueuesOK
  <2>5. dispPc' # "wait"
    BY <2>1, <2>2 DEF IngestInv
  <2> QED BY <2>1, <2>2, <2>3, <2>4, <2>5, SMTT(30) DEF IngestInv, InHand, QueuesOK
<1>4. CASE PublishRetry
  <2>1. HasRoom(ingest, IngestDepth) /\ UNCHANGED <<bridge_stats, log>> /\ prodPc' = "idle"
        /\ PutIngest(bridge_stats.frames_in)
    BY <1>4 DEF PublishRetry, IngestInv
  <2>2. bridge_stats.frames_in = Settled + 1
    BY <1>4 DEF PublishRetry, Settled, CountersOK, BridgeCounters
  <2> QED BY <2>1, <2>2, PutIngestStep
<1>5. CASE DispGet
  <2>1. prodPc = "idle" /\ prodPc' = "idle" /\ UNCHANGED <<bridge_stats, log>> /\ dispPc = "get"
    BY <1>5, ProducerFirst DEF DispGet, prodVars, ThreadsOK
  <2>2. CASE ingest = <<>>
    BY <1>5, <2>1, <2>2 DEF DispGet, IngestInv, Settled, InHand
  <2>3. CASE ingest # <<>>
    <3>1. ingest' = Tail(ingest) /\ dispPc' = "lock"
      BY <1>5, <2>3 DEF DispGet
    <3>2. bridge_stats.frames_in \in Nat /\ bridge_stats.ingest_dropped_oldest \in Nat
      BY DEF CountersOK, BridgeCounters
    <3>3. Settled' = Settled /\ Settled \in Int /\ InHand = 0 /\ InHand' = 1
      BY <2>1, <3>1, <3>2 DEF Settled, InHand
    <3>4. ingest \in Seq(Nat) /\ Len(log) \in Nat
      BY DEF QueuesOK
    <3>5. /\ Len(ingest') = Len(ingest) - 1
          /\ \A k \in 1..Len(ingest') : ingest'[k] = Settled - Len(ingest') + k
      BY <2>3, <3>1, <3>3, <3>4, TailConsecutive DEF IngestInv
    <3>6. Settled' = Len(log') + InHand' + Len(ingest') + bridge_stats'.ingest_dropped_oldest
      BY <2>1, <3>2, <3>3, <3>4, <3>5 DEF IngestInv
    <3> QED BY <2>1, <3>1, <3>3, <3>5, <3>6 DEF IngestInv
  <2> QED BY <2>2, <2>3
<1>6. CASE DispLock
  <2>1. /\ UNCHANGED <<bridge_stats, ingest, prodPc>> /\ dispPc = "lock" /\ dispPc' = "scan"
        /\ log' = Append(log, dispFrame) /\ prodPc = "idle"
    BY <1>6, ProducerFirst DEF DispLock, prodVars
  <2>2. Len(log') = Len(log) + 1
    BY <2>1 DEF QueuesOK, ThreadsOK
  <2>3. bridge_stats.frames_in \in Nat /\ bridge_stats.ingest_dropped_oldest \in Nat
    BY DEF CountersOK, BridgeCounters
  <2> QED BY <2>1, <2>2, <2>3 DEF IngestInv, Settled, InHand, QueuesOK
<1>7. CASE DispPut \/ DispDropOldest \/ DispRetry \/ DispCount \/ DispFinish
  <2>1. /\ UNCHANGED <<ingest, prodPc, log>>
        /\ dispPc \notin {"lock", "wait"} /\ dispPc' \notin {"lock", "wait"}
    BY <1>7 DEF DispPut, DispDropOldest, DispRetry, DispCount, DispFinish, prodVars
  <2>2. bridge_stats'.frames_in = bridge_stats.frames_in
        /\ bridge_stats'.ingest_dropped_oldest = bridge_stats.ingest_dropped_oldest
    BY <1>7 DEF DispPut, DispDropOldest, DispRetry, DispCount, DispFinish, CountersOK, BridgeCounters
  <2> QED BY <2>1, <2>2 DEF IngestInv, Settled, InHand, HasRoom
<1>8. ASSUME NEW s \in Sessions, Session(s) PROVE IngestInv'
  <2>1. UNCHANGED <<ingest, prodPc, log, dispPc, bridge_stats>>
    BY <1>8 DEF Session, OpenSearch, OpenCall, OpenLock, OpenFind, OpenFull, OpenPurge, TakeCheck, TakeGet,
       TakeTimeout, TakeCount, CloseCall, CloseLock, CloseClear, ClosePurge, LockSinks, dispVars, prodVars
  <2> QED BY <2>1 DEF IngestInv, Settled, InHand, HasRoom
<1> QED
  BY <1>1, <1>2, <1>3, <1>4, <1>5, <1>6, <1>7, <1>8 DEF Next, Producer, Dispatcher

LEMMA IngestInvStep == TypeInv /\ IngestInv /\ [Next]_vars => IngestInv'
<1>1. CASE UNCHANGED vars
  BY <1>1 DEF vars, prodVars, dispVars, IngestInv, Settled, InHand, HasRoom
<1> QED BY <1>1, IngestStep

LEMMA IngestInvInit == Init => IngestInv
  BY DEF Init, IngestInv, Settled, InHand, BridgeCounters

(* Whenever no publication is in progress, every accepted frame was        *)
(* dispatched, is in the dispatcher's hands, is queued or is counted in    *)
(* ingest_dropped_oldest, and the ingest queue holds the newest accepted   *)
(* frames in order: nmea_bridge_publish_frame and put_drop_oldest lose     *)
(* nothing uncounted.                                                      *)
THEOREM IngestCorrect == Spec => []IngestExact
<1>1. IngestInv => IngestExact
  BY DEF IngestInv, IngestExact, Settled, InHand
<1> QED BY <1>1, TypeInvInit, TypeInvStep, IngestInvInit, IngestInvStep, PTL DEF Spec
-----------------------------------------------------------------------------
(* The queues of the sinks.                                                *)

(* A session has the use of its slot.                                      *)
Member(s) == Owns(s) /\ sessPc[s] # "drain"

(* The frame dispatched last that sink i was given, by its place in log.   *)
Reached(i) == IF Behind(i) = 1 THEN Len(log) - 1 ELSE Len(log)

(* The frames sink i was given: the last one may not be counted yet.       *)
Given(i) == IF dispPc = "count" /\ dispIdx = i THEN stats[i].queued + 1 ELSE stats[i].queued

(* The frames s took from it: so may the last of these.                    *)
Taken(s, i) == IF sessPc[s] = "got" THEN stats[i].consumed + 1 ELSE stats[i].consumed

(* The frames dispatched since s opened sink i were all given to it; those *)
(* which it did not drop and s did not take are in its queue, in order.    *)
SlotOK(s, i) ==
  /\ Given(i) = Reached(i) - joined[s]
  /\ Given(i) = Len(msgq[i]) + stats[i].dropped_oldest + Taken(s, i)
  /\ \A k \in 1..Len(msgq[i]) : msgq[i][k] = log[Reached(i) - Len(msgq[i]) + k]
  /\ sessPc[s] \in {"purge", "wait"} => msgq[i] = <<>>

(* Slots without a session have empty queues, so that a claimed one starts *)
(* empty.  The dispatcher drops only from a full queue: it has a higher    *)
(* priority than the sessions, none of which takes from it meanwhile.      *)
SlotsInv ==
  /\ \A s \in Sessions : Member(s) => SlotOK(s, id[s])
  /\ \A s \in Sessions : ~Owns(s) => id[s] = -1
  /\ \A i \in Sinks \ active : (\A s \in Sessions : id[s] # i) => msgq[i] = <<>>
  /\ \A i \in active : \E s \in Sessions : Owns(s) /\ id[s] = i
  /\ Scanning => log # <<>> /\ dispFrame = log[Len(log)]
  /\ dispPc \in {"drop", "retry", "count"} => dispIdx \in active
  /\ dispPc = "drop" => msgq[dispIdx] # <<>>
  /\ dispPc = "retry" => HasRoom(msgq[dispIdx], SinkDepth)

(* A session runs only while the dispatcher is pended: no frame is half    *)
(* distributed.                                                            *)
LEMMA SessionRuns ==
  ASSUME ThreadsOK, CanRun(SessionPrio)
  PROVE  dispPc \in {"wait", "lock"} /\ ~Scanning
  BY DEF CanRun, DispReady, SessionPrio, DispatcherPrio, ThreadsOK, Scanning

LEMMA SlotTypes ==
  ASSUME TypeInv, NEW s \in Sessions, NEW i, Owns(s), id[s] = i
  PROVE  /\ i \in Sinks /\ i \in Int /\ msgq[i] \in Seq(Nat) /\ Len(msgq[i]) \in Nat
         /\ stats[i].queued \in Nat /\ stats[i].dropped_oldest \in Nat /\ stats[i].consumed \in Nat
         /\ joined[s] \in Nat /\ log \in Seq(Nat) /\ Len(log) \in Nat
         /\ Reached(i) \in Int /\ Given(i) \in Nat /\ Taken(s, i) \in Nat
<1>1. i \in Sinks /\ i \in Int
  BY DEF TypeInv, ThreadsOK, Sinks
<1>2. stats[i] \in [SinkCounters -> Nat]
  BY <1>1 DEF TypeInv, CountersOK
<1> QED BY <1>1, <1>2, SMTT(30) DEF TypeInv, QueuesOK, ThreadsOK, SinkCounters, Reached, Given, Taken

(* What the queue of a member holds is in the log, after the frames        *)
(* dispatched before the session opened the sink.                          *)
LEMMA SlotRange ==
  ASSUME TypeInv, NEW s \in Sessions, NEW i, Owns(s), id[s] = i, SlotOK(s, i)
  PROVE  /\ Reached(i) - Len(msgq[i]) = joined[s] + stats[i].dropped_oldest + Taken(s, i)
         /\ Reached(i) - Len(msgq[i]) \in Nat
<1>1. Reached(i) - joined[s] = Len(msgq[i]) + stats[i].dropped_oldest + Taken(s, i)
  BY DEF SlotOK
<1>2. /\ Len(msgq[i]) \in Nat /\ stats[i].dropped_oldest \in Nat /\ joined[s] \in Nat
      /\ Reached(i) \in Int /\ Taken(s, i) \in Nat
  BY SlotTypes
<1>3. Reached(i) - Len(msgq[i]) = joined[s] + stats[i].dropped_oldest + Taken(s, i)
  BY <1>1, <1>2, SMTT(30)
<1> QED BY <1>2, <1>3

LEMMA ReachedIs ==
  ASSUME NEW i, Len(log) \in Nat
  PROVE  Reached(i) = Len(log) - Behind(i) /\ Behind(i) \in {0, 1}
<1>1. Behind(i) \in {0, 1}
  BY DEF Behind
<1>2. PICK n \in Nat : n = Len(log)
  OBVIOUS
<1>3. CASE Behind(i) = 1
  BY <1>3 DEF Reached
<1>4. CASE Behind(i) = 0
  <2>1. Reached(i) = n /\ n - 0 = n
    BY <1>2, <1>4 DEF Reached
  <2> QED BY <1>2, <1>4, <2>1
<1> QED BY <1>1, <1>3, <1>4

(* A step that concerns another slot and moves the dispatcher nowhere.     *)
LEMMA OtherSlot ==
  ASSUME NEW t \in Sessions, NEW i, SlotOK(t, i),
         msgq'[i] = msgq[i], stats'[i] = stats[i], joined'[t] = joined[t], sessPc'[t] = sessPc[t],
         UNCHANGED log, Reached(i)' = Reached(i), Given(i)' = Given(i)
  PROVE  SlotOK(t, i)'
  BY DEF SlotOK, Taken

(* A frame put into the queue of a slot it has not been put into before.   *)
LEMMA PutSlot ==
  ASSUME TypeInv, NEW s \in Sessions, NEW i, Owns(s), id[s] = i, SlotOK(s, i),
         log # <<>>, Behind(i) = 1, Behind(i)' = 0, dispPc # "count", dispPc' = "count", dispIdx' = i,
         msgq'[i] = Append(msgq[i], log[Len(log)]),
         sessPc[s] \notin {"purge", "wait"},
         UNCHANGED <<stats, log, joined, sessPc>>
  PROVE  SlotOK(s, i)'
<1>1. Reached(i) = Len(log) - 1 /\ Reached(i)' = Len(log)
  BY DEF Reached
<1>2. Given(i) = stats[i].queued /\ Given(i)' = stats[i].queued + 1 /\ Taken(s, i)' = Taken(s, i)
  BY DEF Given, Taken
<1>3. /\ Len(log) \in Nat /\ joined[s] \in Nat /\ stats[i].queued \in Nat /\ Taken(s, i) \in Nat
      /\ stats[i].dropped_oldest \in Nat /\ msgq[i] \in Seq(Nat) /\ Len(msgq[i]) \in Nat
      /\ log[Len(log)] \in Nat
  BY SlotTypes
<1>4. Given(i)' = Reached(i)' - joined[s]
  <2>1. stats[i].queued = (Len(log) - 1) - joined[s]
    BY <1>1, <1>2 DEF SlotOK
  <2> QED BY <1>1, <1>2, <1>3, <2>1, SMTT(30)
<1>5. Len(msgq'[i]) = Len(msgq[i]) + 1
  BY <1>3
<1>6. Given(i)' = Len(msgq'[i]) + stats[i].dropped_oldest + Taken(s, i)
  <2>1. stats[i].queued = Len(msgq[i]) + stats[i].dropped_oldest + Taken(s, i)
    BY <1>2 DEF SlotOK
  <2>2. stats[i].queued + 1 = (Len(msgq[i]) + 1) + stats[i].dropped_oldest + Taken(s, i)
    BY <1>3, <2>1, SMTT(30)
  <2> QED BY <1>2, <1>5, <2>2
<1>7. ASSUME NEW k \in 1..Len(msgq'[i]) PROVE msgq'[i][k] = log[Len(log) - Len(msgq'[i]) + k]
  <2>1. CASE k = Len(msgq[i]) + 1
    BY <1>3, <1>5, <2>1
  <2>2. CASE k \in 1..Len(msgq[i])
    <3>1. msgq[i][k] = log[(Len(log) - 1) - Len(msgq[i]) + k]
      BY <1>1, <2>2 DEF SlotOK
    <3>2. (Len(log) - 1) - Len(msgq[i]) + k = Len(log) - Len(msgq'[i]) + k
      BY <1>3, <1>5, <2>2
    <3>3. msgq'[i][k] = msgq[i][k]
      BY <1>3, <2>2
    <3> QED BY <3>1, <3>2, <3>3
  <2>3. k = Len(msgq[i]) + 1 \/ k \in 1..Len(msgq[i])
    <3>1. Len(msgq[i]) \in Nat
      BY <1>3
    <3> QED BY <1>5, <3>1
  <2> QED BY <2>1, <2>2, <2>3
<1> QED BY <1>1, <1>2, <1>4, <1>6, <1>7 DEF SlotOK

(* A frame handed to the session that waits for it at an empty queue.      *)
LEMMA HandSlot ==
  ASSUME TypeInv, NEW s \in Sessions, NEW i, Owns(s), id[s] = i, SlotOK(s, i),
         Behind(i) = 1, Behind(i)' = 0, dispPc # "count", dispPc' = "count", dispIdx' = i,
         sessPc[s] = "wait", sessPc'[s] = "got",
         UNCHANGED <<stats, log, joined, msgq>>
  PROVE  SlotOK(s, i)'
<1>1. Reached(i) = Len(log) - 1 /\ Reached(i)' = Len(log)
  BY DEF Reached
<1>2. /\ Given(i) = stats[i].queued /\ Given(i)' = stats[i].queued + 1
      /\ Taken(s, i) = stats[i].consumed /\ Taken(s, i)' = stats[i].consumed + 1
  BY DEF Given, Taken
<1>3. /\ Len(log) \in Nat /\ joined[s] \in Nat /\ stats[i].queued \in Nat
      /\ stats[i].dropped_oldest \in Nat /\ stats[i].consumed \in Nat /\ Len(msgq[i]) \in Nat
  BY SlotTypes
<1>4. stats[i].queued + 1 = Len(log) - joined[s]
  <2>1. stats[i].queued = (Len(log) - 1) - joined[s]
    BY <1>1, <1>2 DEF SlotOK
  <2> QED BY <1>3, <2>1
<1>5. stats[i].queued + 1 = Len(msgq[i]) + stats[i].dropped_oldest + (stats[i].consumed + 1)
  <2>1. stats[i].queued = Len(msgq[i]) + stats[i].dropped_oldest + stats[i].consumed
    BY <1>2 DEF SlotOK
  <2> QED BY <1>3, <2>1, SMTT(30)
<1>6. msgq[i] = <<>>
  BY DEF SlotOK
<1> QED BY <1>1, <1>2, <1>4, <1>5, <1>6 DEF SlotOK

-----------------------------------------------------------------------------
(* The dispatcher's steps.                                                 *)

(* The frame goes into the queue of sink i, or to the session that waits   *)
(* for one.                                                                *)
LEMMA PutSinkSlots ==
  ASSUME TypeInv, ExclusiveSinks, SlotsInv, Scanning, NEW i \in active, PutSink(i),
         Behind(i) = 1, dispPc # "count", dispPc' = "count", dispIdx' = i,
         \A j \in active \ {i} : Behind(j)' = Behind(j),
         UNCHANGED <<active, stats, log, id, joined, dispFrame>>
  PROVE  SlotsInv'
<1>1. i \in Sinks /\ i \in Int
  BY DEF TypeInv, ThreadsOK, Sinks
<1>2. Behind(i)' = 0
  BY <1>1 DEF Behind
<1>3. \A j \in active \ {i} : Reached(j)' = Reached(j) /\ Given(j)' = Given(j)
  BY DEF Reached, Given
<1>4. log # <<>> /\ dispFrame = log[Len(log)]
  BY DEF SlotsInv
<1>5. \A s \in Sessions : sessPc[s] # "purge"
  BY SessionsAssumption DEF TypeInv, LockOK
<1>6. \A s \in Sessions : Member(s) => id[s] \in active
  BY DEF Member, ExclusiveSinks
<1>7. PICK w \in Sessions : Owns(w) /\ id[w] = i
  BY DEF SlotsInv
<1>8. Member(w) /\ \A t \in Sessions \ {w} : Owns(t) => id[t] # i
  BY <1>7 DEF ExclusiveSinks, Member
<1>9. SlotOK(w, i)
  BY <1>7, <1>8 DEF SlotsInv
<1>10. CASE Waiters(i) # {}
  <2>1. PICK s \in Waiters(i) : sessPc' = [sessPc EXCEPT ![s] = "got"]
    BY <1>10 DEF PutSink
  <2>2. s = w
    BY <1>8, <2>1 DEF Waiters, Owns
  <2>3. sessPc[w] = "wait" /\ UNCHANGED msgq
    BY <1>10, <2>1, <2>2 DEF Waiters, PutSink
  <2>4. sessPc'[w] = "got" /\ \A t \in Sessions \ {w} : sessPc'[t] = sessPc[t]
    BY <2>1, <2>2 DEF TypeInv, ThreadsOK
  <2>5. \A t \in Sessions : (Owns(t)' <=> Owns(t)) /\ (Member(t)' <=> Member(t))
    BY <2>3, <2>4 DEF Owns, Member
  <2>6. SlotOK(w, i)'
    BY <1>2, <1>7, <1>9, <2>3, <2>4, HandSlot
  <2>7. ASSUME NEW t \in Sessions, Member(t)' PROVE SlotOK(t, id[t])'
    <3>1. CASE t = w
      BY <1>7, <2>6, <3>1
    <3>2. CASE t # w
      <4>1. Member(t) /\ SlotOK(t, id[t]) /\ id[t] \in active \ {i}
        BY <1>6, <1>8, <2>5, <2>7, <3>2 DEF SlotsInv, Member
      <4> QED BY <1>3, <2>3, <2>4, <3>2, <4>1, OtherSlot
    <3> QED BY <3>1, <3>2
  <2> QED BY <1>4, <2>3, <2>5, <2>7 DEF SlotsInv, Scanning
<1>11. CASE Waiters(i) = {}
  <2>1. msgq' = [msgq EXCEPT ![i] = Append(msgq[i], dispFrame)] /\ UNCHANGED sessPc
    BY <1>11 DEF PutSink
  <2>2. /\ msgq'[i] = Append(msgq[i], dispFrame)
        /\ \A j \in Sinks \ {i} : msgq'[j] = msgq[j]
    BY <1>1, <2>1 DEF TypeInv, QueuesOK
  <2>3. \A t \in Sessions : (Owns(t)' <=> Owns(t)) /\ (Member(t)' <=> Member(t))
    BY <2>1 DEF Owns, Member
  <2>4. sessPc[w] \notin {"purge", "wait"}
    BY <1>5, <1>7, <1>11 DEF Waiters
  <2>5. SlotOK(w, i)'
    BY <1>2, <1>4, <1>7, <1>9, <2>1, <2>2, <2>4, PutSlot
  <2>6. ASSUME NEW t \in Sessions, Member(t)' PROVE SlotOK(t, id[t])'
    <3>1. CASE t = w
      BY <1>7, <2>5, <3>1
    <3>2. CASE t # w
      <4>1. Member(t) /\ SlotOK(t, id[t]) /\ id[t] \in active \ {i} /\ id[t] \in Sinks
        BY <1>6, <1>8, <2>3, <2>6, <3>2 DEF SlotsInv, Member, TypeInv, ThreadsOK
      <4> QED BY <1>3, <2>1, <2>2, <3>2, <4>1, OtherSlot
    <3> QED BY <3>1, <3>2
  <2>7. \A j \in Sinks \ active' : msgq'[j] = msgq[j]
    BY <2>2
  <2> QED BY <1>4, <2>1, <2>3, <2>6, <2>7 DEF SlotsInv, Scanning
<1> QED BY <1>10, <1>11

(* No slot changes and the dispatcher does not move among the sinks.       *)
LEMMA IdleStep ==
  ASSUME SlotsInv, UNCHANGED <<active, stats, msgq, log, id, joined, sessPc>>,
         UNCHANGED <<dispPc, dispIdx, dispFrame>> \/ (~Scanning /\ ~Scanning')
  PROVE  SlotsInv'
<1>1. \A i : Reached(i)' = Reached(i) /\ Given(i)' = Given(i)
  BY DEF Reached, Given, Behind, Scanning
<1>2. ASSUME NEW s \in Sessions, Member(s)' PROVE SlotOK(s, id[s])'
  <2>1. Member(s) /\ SlotOK(s, id[s])
    BY <1>2 DEF Member, Owns, SlotsInv
  <2> QED BY <1>1, <2>1, OtherSlot
<1> QED BY <1>2 DEF SlotsInv, Scanning, Owns, HasRoom

(* No slot changes and what each sink was given stays the same, wherever   *)
(* the dispatcher goes.                                                    *)
LEMMA SameSlots ==
  ASSUME SlotsInv, ExclusiveSinks, UNCHANGED <<active, stats, msgq, id, joined, sessPc, log>>,
         \A i \in active : Reached(i)' = Reached(i) /\ Given(i)' = Given(i)
  PROVE  \A s \in Sessions : Member(s)' => SlotOK(s, id[s])'
<1>1. TAKE s \in Sessions
<1>2. HAVE Member(s)'
<1>3. Member(s) /\ SlotOK(s, id[s]) /\ id[s] \in active
  BY <1>2 DEF Member, Owns, SlotsInv, ExclusiveSinks
<1> QED BY <1>3, OtherSlot

(* One more frame is dispatched, which no sink was given yet.              *)
LEMMA LockSlot ==
  ASSUME TypeInv, NEW s \in Sessions, NEW i, Owns(s), id[s] = i, SlotOK(s, i),
         dispPc = "lock", dispPc' = "scan", dispIdx' = 0, log' = Append(log, dispFrame),
         UNCHANGED <<stats, msgq, joined, sessPc>>
  PROVE  SlotOK(s, i)'
<1>1. log \in Seq(Nat) /\ dispFrame \in Nat /\ Len(log) \in Nat
  BY DEF TypeInv, QueuesOK, ThreadsOK
<1>2. Given(i)' = Given(i) /\ Taken(s, i)' = Taken(s, i)
  BY DEF Given, Taken
<1>3. Reached(i)' = Len(log) /\ Reached(i) = Len(log)
  <2>1. Behind(i) # 1 /\ Behind(i)' = 1
    BY SlotTypes DEF Behind, Sinks
  <2>2. Len(log') = Len(log) + 1
    BY <1>1
  <2> QED BY <1>1, <2>1, <2>2 DEF Reached
<1>4. Len(msgq[i]) \in Nat /\ Len(log) - Len(msgq[i]) \in Nat
  BY <1>3, SlotRange, SlotTypes
<1>5. ASSUME NEW k \in 1..Len(msgq[i]) PROVE msgq[i][k] = log'[Len(log) - Len(msgq[i]) + k]
  <2>1. Len(log) - Len(msgq[i]) + k \in 1..Len(log)
    BY <1>1, <1>4
  <2>2. \A n \in 1..Len(log) : log'[n] = log[n]
    BY <1>1
  <2>3. msgq[i][k] = log[Len(log) - Len(msgq[i]) + k]
    BY <1>3 DEF SlotOK
  <2> QED BY <2>1, <2>2, <2>3
<1> QED BY <1>2, <1>3, <1>5, ZenonT(30) DEF SlotOK

LEMMA DispLockSlots == ASSUME TypeInv, ExclusiveSinks, SlotsInv, DispLock PROVE SlotsInv'
<1>1. /\ log' = Append(log, dispFrame) /\ dispPc = "lock" /\ dispPc' = "scan" /\ dispIdx' = 0
      /\ UNCHANGED <<active, stats, msgq, id, joined, sessPc, dispFrame>>
  BY DEF DispLock, sinkVars, sessVars
<1>2. log' # <<>> /\ dispFrame' = log'[Len(log')]
  <2>1. log \in Seq(Nat) /\ dispFrame \in Nat
    BY DEF TypeInv, QueuesOK, ThreadsOK
  <2> QED BY <1>1, <2>1
<1>3. ASSUME NEW s \in Sessions, Member(s)' PROVE SlotOK(s, id[s])'
  <2>1. Member(s) /\ Owns(s) /\ SlotOK(s, id[s])
    BY <1>1, <1>3 DEF Member, Owns, SlotsInv
  <2> QED BY <1>1, <2>1, LockSlot
<1> QED BY <1>1, <1>2, <1>3 DEF SlotsInv, Scanning, Owns

LEMMA DispPutSlots == ASSUME TypeInv, ExclusiveSinks, SlotsInv, DispPut PROVE SlotsInv'
<1>1. PICK i \in ActiveAhead :
        /\ \A j \in ActiveAhead : i <= j
        /\ dispIdx' = i
        /\ IF HasRoom(msgq[i], SinkDepth)
           THEN PutSink(i) /\ dispPc' = "count"
           ELSE dispPc' = "drop" /\ UNCHANGED <<msgq, sessPc, frame>>
  BY DEF DispPut
<1>2. dispPc = "scan" /\ UNCHANGED <<active, stats, id, joined, log, dispFrame>>
  BY DEF DispPut
<1>3. i \in active /\ i \in Sinks /\ i >= dispIdx /\ dispIdx \in Int /\ \A j \in active : j \in Int
  BY DEF ActiveAhead, TypeInv, ThreadsOK, Sinks
<1>4. Scanning
  BY <1>2 DEF Scanning
<1>5. CASE HasRoom(msgq[i], SinkDepth)
  <2>1. dispPc' = "count" /\ PutSink(i)
    BY <1>1, <1>5
  <2>2. Behind(i) = 1
    BY <1>2, <1>3 DEF Behind
  <2>3. ASSUME NEW j \in active \ {i} PROVE Behind(j)' = Behind(j)
    <3>1. j \in Int /\ (j >= dispIdx => i <= j)
      BY <1>1, <1>3 DEF ActiveAhead
    <3>2. j > i <=> j >= dispIdx
      BY <1>3, <3>1 DEF Sinks
    <3> QED BY <1>1, <1>2, <2>1, <3>2 DEF Behind
  <2> QED BY <1>1, <1>2, <1>3, <1>4, <2>1, <2>2, <2>3, PutSinkSlots
<1>6. CASE ~HasRoom(msgq[i], SinkDepth)
  <2>1. dispPc' = "drop" /\ UNCHANGED <<msgq, sessPc>>
    BY <1>1, <1>6
  <2>2. ASSUME NEW j \in active PROVE Reached(j)' = Reached(j) /\ Given(j)' = Given(j)
    <3>1. j \in Int /\ (j >= dispIdx => i <= j)
      BY <1>1, <1>3, <2>2 DEF ActiveAhead
    <3>2. j >= i <=> j >= dispIdx
      BY <1>3, <3>1 DEF Sinks
    <3>3. Behind(j)' = Behind(j)
      BY <1>1, <1>2, <2>1, <3>2 DEF Behind
    <3> QED BY <1>2, <2>1, <3>3 DEF Reached, Given
  <2>3. \A s \in Sessions : Member(s)' => SlotOK(s, id[s])'
    BY <1>2, <2>1, <2>2, SameSlots
  <2>4. msgq[i] # <<>>
    BY <1>6, SizesAssumption DEF HasRoom
  <2> QED BY <1>1, <1>2, <1>3, <1>4, <2>1, <2>3, <2>4 DEF SlotsInv, Scanning, Owns
<1> QED BY <1>5, <1>6

(* The oldest frame leaves a full queue and is counted.                    *)
LEMMA DropSlot ==
  ASSUME TypeInv, NEW s \in Sessions, NEW i, Owns(s), id[s] = i, SlotOK(s, i), msgq[i] # <<>>,
         msgq'[i] = Tail(msgq[i]), stats'[i].queued = stats[i].queued,
         stats'[i].consumed = stats[i].consumed,
         stats'[i].dropped_oldest = stats[i].dropped_oldest + 1,
         dispPc = "drop", dispPc' = "retry", dispIdx = i,
         UNCHANGED <<log, joined, sessPc, dispIdx>>
  PROVE  SlotOK(s, i)'
<1>1. Reached(i)' = Reached(i) /\ Given(i)' = Given(i) /\ Taken(s, i)' = Taken(s, i)
  BY DEF Reached, Given, Taken, Behind
<1>2. /\ Reached(i) \in Int /\ Taken(s, i) \in Nat /\ stats[i].dropped_oldest \in Nat
      /\ msgq[i] \in Seq(Nat) /\ Len(msgq[i]) \in Nat \ {0}
  BY SlotTypes
<1>3. Len(msgq'[i]) = Len(msgq[i]) - 1 /\ \A k \in 1..Len(msgq'[i]) : msgq'[i][k] = msgq[i][k + 1]
  BY <1>2
<1>4. Len(msgq[i]) + stats[i].dropped_oldest + Taken(s, i) =
        Len(msgq'[i]) + stats'[i].dropped_oldest + Taken(s, i)
  <2>1. Len(msgq[i]) \in Nat
    BY <1>2
  <2> QED BY <1>2, <1>3, <2>1
<1>5. ASSUME NEW k \in 1..Len(msgq'[i])
      PROVE  msgq'[i][k] = log[Reached(i) - Len(msgq'[i]) + k]
  <2>1. k + 1 \in 1..Len(msgq[i])
    BY <1>2, <1>3
  <2>2. msgq[i][k + 1] = log[Reached(i) - Len(msgq[i]) + (k + 1)]
    BY <2>1 DEF SlotOK
  <2>3. Reached(i) - Len(msgq[i]) + (k + 1) = Reached(i) - Len(msgq'[i]) + k
    BY <1>2, <1>3
  <2> QED BY <1>3, <2>2, <2>3
<1>6. sessPc'[s] \notin {"purge", "wait"}
  BY DEF SlotOK
<1> QED BY <1>1, <1>4, <1>5, <1>6 DEF SlotOK

LEMMA DispDropSlots == ASSUME TypeInv, ExclusiveSinks, SlotsInv, DispDropOldest PROVE SlotsInv'
<1> DEFINE i == dispIdx
<1>1. /\ dispPc = "drop" /\ dispPc' = "retry"
      /\ UNCHANGED <<active, id, joined, log, dispFrame, dispIdx, sessPc>>
  BY DEF DispDropOldest, sessVars
<1>2. i \in active /\ i \in Sinks /\ msgq[i] # <<>> /\ msgq[i] \in Seq(Nat)
  BY <1>1 DEF SlotsInv, TypeInv, ThreadsOK, QueuesOK
<1>3. msgq'[i] = Tail(msgq[i]) /\ \A j \in Sinks \ {i} : msgq'[j] = msgq[j]
  BY <1>2 DEF DispDropOldest, DropOldest, TypeInv, QueuesOK
<1>4. /\ stats'[i].queued = stats[i].queued /\ stats'[i].consumed = stats[i].consumed
      /\ stats'[i].dropped_oldest = stats[i].dropped_oldest + 1
      /\ \A j \in Sinks \ {i} : stats'[j] = stats[j]
  <2>1. stats' = [stats EXCEPT ![i]["dropped_oldest"] = @ + 1]
    BY DEF DispDropOldest, CountDrop
  <2> QED BY <1>2, <2>1 DEF TypeInv, CountersOK, SinkCounters
<1>5. ASSUME NEW s \in Sessions, Member(s)' PROVE SlotOK(s, id[s])'
  <2>1. Member(s) /\ Owns(s) /\ SlotOK(s, id[s]) /\ id[s] \in Sinks
    BY <1>1, <1>5 DEF Member, Owns, SlotsInv, TypeInv, ThreadsOK
  <2>2. CASE id[s] = i
    BY <1>1, <1>2, <1>3, <1>4, <2>1, <2>2, DropSlot
  <2>3. CASE id[s] # i
    <3>1. Reached(id[s])' = Reached(id[s]) /\ Given(id[s])' = Given(id[s])
      BY <1>1, <1>4, <2>1, <2>3 DEF Reached, Given, Behind
    <3> QED BY <1>1, <1>3, <1>4, <2>1, <2>3, <3>1, OtherSlot
  <2> QED BY <2>2, <2>3
<1>6. Len(msgq'[i]) < SinkDepth
  <2>1. Len(msgq'[i]) = Len(msgq[i]) - 1 /\ Len(msgq[i]) \in Nat
    BY <1>2, <1>3
  <2>2. Len(msgq[i]) <= SinkDepth /\ SinkDepth \in Nat
    BY <1>2, SizesAssumption DEF TypeInv, QueuesOK
  <2> QED BY <2>1, <2>2
<1> QED BY <1>1, <1>2, <1>3, <1>5, <1>6 DEF SlotsInv, Scanning, Owns, HasRoom

LEMMA DispRetrySlots == ASSUME TypeInv, ExclusiveSinks, SlotsInv, DispRetry PROVE SlotsInv'
<1>1. /\ dispPc = "retry" /\ dispPc' = "count" /\ dispIdx \in active /\ PutSink(dispIdx)
      /\ UNCHANGED <<active, stats, id, joined, log, dispFrame, dispIdx>>
  BY DEF DispRetry, SlotsInv
<1>2. Scanning /\ dispIdx \in Int /\ \A j \in active : j \in Int
  BY <1>1 DEF Scanning, TypeInv, ThreadsOK, Sinks
<1>3. Behind(dispIdx) = 1
  BY <1>1, <1>2 DEF Behind
<1>4. ASSUME NEW j \in active \ {dispIdx} PROVE Behind(j)' = Behind(j)
  <2>1. j \in Int /\ (j >= dispIdx <=> j > dispIdx)
    BY <1>2
  <2> QED BY <1>1, <2>1 DEF Behind
<1> QED BY <1>1, <1>2, <1>3, <1>4, PutSinkSlots

LEMMA DispCountSlots == ASSUME TypeInv, ExclusiveSinks, SlotsInv, DispCount PROVE SlotsInv'
<1> DEFINE i == dispIdx
<1>1. /\ dispPc = "count" /\ dispPc' = "scan" /\ dispIdx' = i + 1
      /\ UNCHANGED <<active, id, joined, log, dispFrame, msgq, sessPc>>
  BY DEF DispCount, sessVars
<1>2. i \in Sinks /\ i \in Int
  BY <1>1 DEF TypeInv, ThreadsOK, Sinks
<1>3. /\ stats'[i].queued = stats[i].queued + 1 /\ stats'[i].consumed = stats[i].consumed
      /\ stats'[i].dropped_oldest = stats[i].dropped_oldest
      /\ \A j \in Sinks \ {i} : stats'[j] = stats[j]
  <2>1. stats' = [stats EXCEPT ![i]["queued"] = @ + 1]
    BY DEF DispCount
  <2> QED BY <1>2, <2>1 DEF TypeInv, CountersOK, SinkCounters
<1>4. \A j \in Sinks : Reached(j)' = Reached(j)
  <2>1. \A j \in Sinks : j > i <=> j >= i + 1
    BY <1>2 DEF Sinks
  <2> QED BY <1>1, <2>1 DEF Reached, Behind
<1>5. ASSUME NEW s \in Sessions, Member(s)' PROVE SlotOK(s, id[s])'
  <2>1. Member(s) /\ SlotOK(s, id[s]) /\ id[s] \in Sinks
    BY <1>1, <1>5 DEF Member, Owns, SlotsInv, TypeInv, ThreadsOK
  <2>2. CASE id[s] = i
    BY <1>1, <1>3, <1>4, <2>1, <2>2 DEF SlotOK, Given, Taken
  <2>3. CASE id[s] # i
    <3>1. Given(id[s])' = Given(id[s])
      BY <1>1, <1>3, <2>1, <2>3 DEF Given
    <3> QED BY <1>1, <1>3, <1>4, <2>1, <2>3, <3>1, OtherSlot
  <2> QED BY <2>2, <2>3
<1> QED BY <1>1, <1>5 DEF SlotsInv, Scanning, Owns

LEMMA DispFinishSlots == ASSUME TypeInv, ExclusiveSinks, SlotsInv, DispFinish PROVE SlotsInv'
<1>1. /\ dispPc = "scan" /\ dispPc' = "get" /\ ActiveAhead = {}
      /\ UNCHANGED <<active, stats, id, joined, log, msgq, sessPc>>
  BY DEF DispFinish, sinkVars, sessVars
<1>2. \A i \in active : Reached(i)' = Reached(i) /\ Given(i)' = Given(i)
  BY <1>1 DEF Reached, Given, Behind, ActiveAhead
<1>3. \A s \in Sessions : Member(s)' => SlotOK(s, id[s])'
  BY <1>1, <1>2, SameSlots
<1> QED BY <1>1, <1>3 DEF SlotsInv, Scanning, Owns

-----------------------------------------------------------------------------
(* The sessions' steps, each of which concerns the session's own slot.     *)

(* A session goes on and changes no slot.                                  *)
LEMMA GoOn ==
  ASSUME TypeInv, SlotsInv, NEW s \in Sessions, NEW pc, sessPc' = [sessPc EXCEPT ![s] = pc],
         Owns(s)' <=> Owns(s), Member(s)' <=> Member(s),
         pc = "got" <=> sessPc[s] = "got", pc \notin {"purge", "wait"},
         UNCHANGED <<active, stats, msgq, id, joined, log, dispPc, dispIdx, dispFrame>>
  PROVE  SlotsInv'
<1>1. sessPc'[s] = pc /\ \A t \in Sessions \ {s} : sessPc'[t] = sessPc[t]
  BY DEF TypeInv, ThreadsOK
<1>2. \A t \in Sessions : (Owns(t)' <=> Owns(t)) /\ (Member(t)' <=> Member(t))
  BY <1>1 DEF Owns, Member
<1>3. \A i : Reached(i)' = Reached(i) /\ Given(i)' = Given(i)
  BY DEF Reached, Given, Behind
<1>4. ASSUME NEW t \in Sessions, Member(t)' PROVE SlotOK(t, id[t])'
  <2>1. SlotOK(t, id[t])
    BY <1>2, <1>4 DEF SlotsInv
  <2>2. CASE t = s
    BY <1>1, <1>3, <2>1, <2>2 DEF SlotOK, Taken
  <2>3. CASE t # s
    BY <1>1, <1>3, <2>1, <2>3, OtherSlot
  <2> QED BY <2>2, <2>3
<1> QED BY <1>2, <1>4 DEF SlotsInv, Scanning, HasRoom

LEMMA OpenFindSlots ==
  ASSUME TypeInv, ExclusiveSinks, SlotsInv, NEW s \in Sessions, OpenFind(s)
  PROVE  SlotsInv'
<1>1. PICK i \in Sinks : /\ i \notin active /\ active' = active \cup {i}
                         /\ stats' = [stats EXCEPT ![i] = ZeroStats]
                         /\ id' = [id EXCEPT ![s] = i]
  BY DEF OpenFind, ResetStats
<1>2. /\ sessPc[s] = "find" /\ sessPc' = [sessPc EXCEPT ![s] = "purge"]
      /\ joined' = [joined EXCEPT ![s] = Len(log)]
      /\ UNCHANGED <<msgq, log, dispPc, dispIdx, dispFrame>>
  BY DEF OpenFind, Goto, dispVars
<1>3. dispPc \in {"wait", "lock"} /\ ~Scanning
  BY SessionRuns DEF OpenFind, TypeInv
<1>4. /\ sessPc'[s] = "purge" /\ id'[s] = i /\ joined'[s] = Len(log) /\ stats'[i] = ZeroStats
      /\ \A t \in Sessions \ {s} :
           sessPc'[t] = sessPc[t] /\ id'[t] = id[t] /\ joined'[t] = joined[t]
      /\ \A j \in Sinks \ {i} : stats'[j] = stats[j]
  BY <1>1, <1>2 DEF TypeInv, ThreadsOK, CountersOK
<1>5. \A t \in Sessions \ {s} : Owns(t) => sessPc[t] # "drain"
  BY <1>2 DEF TypeInv, LockOK
<1>6. \A t \in Sessions : Owns(t) => id[t] \in active /\ id[t] # i
  BY <1>1, <1>2, <1>5 DEF ExclusiveSinks, Owns
<1>7. \A t \in Sessions : id[t] # i
  BY <1>1, <1>6 DEF SlotsInv, Sinks
<1>8. msgq[i] = <<>>
  BY <1>1, <1>7 DEF SlotsInv
<1>9. \A t \in Sessions \ {s} : (Owns(t)' <=> Owns(t)) /\ (Member(t)' <=> Member(t))
  BY <1>4 DEF Owns, Member
<1>10. \A j \in Sinks \ {i} : Reached(j)' = Reached(j) /\ Given(j)' = Given(j)
  BY <1>2, <1>4 DEF Reached, Given, Behind
<1>11. SlotOK(s, i)'
  <2>1. Reached(i)' = Len(log) /\ Given(i)' = 0 /\ Taken(s, i)' = 0
    BY <1>2, <1>3, <1>4 DEF Reached, Given, Taken, Behind, ZeroStats, SinkCounters
  <2>2. Len(log) \in Nat /\ Len(msgq[i]) = 0 /\ stats'[i].dropped_oldest = 0
    BY <1>4, <1>8 DEF TypeInv, QueuesOK, ZeroStats, SinkCounters
  <2> QED BY <1>2, <1>4, <1>8, <2>1, <2>2 DEF SlotOK
<1>12. ASSUME NEW t \in Sessions, Member(t)' PROVE SlotOK(t, id[t])'
  <2>1. CASE t = s
    BY <1>4, <1>11, <2>1
  <2>2. CASE t # s
    <3>1. Member(t) /\ SlotOK(t, id[t]) /\ id[t] \in Sinks \ {i}
      BY <1>7, <1>9, <1>12, <2>2 DEF SlotsInv, Member, TypeInv, ThreadsOK
    <3> QED BY <1>2, <1>4, <1>10, <2>2, <3>1, OtherSlot
  <2> QED BY <2>1, <2>2
<1>13. \A t \in Sessions : ~Owns(t)' => id'[t] = -1
  BY <1>4, <1>9 DEF SlotsInv, Owns
<1>14. \A j \in Sinks \ active' : (\A t \in Sessions : id'[t] # j) => msgq'[j] = <<>>
  <2>1. id[s] = -1 /\ \A j \in Sinks : j # -1
    BY <1>2 DEF SlotsInv, Owns, Sinks
  <2> QED BY <1>1, <1>2, <1>4, <2>1 DEF SlotsInv
<1>15. \A j \in active' : \E t \in Sessions : Owns(t)' /\ id'[t] = j
  <2>1. ASSUME NEW j \in active PROVE \E t \in Sessions : Owns(t)' /\ id'[t] = j
    <3>1. PICK t \in Sessions : Owns(t) /\ id[t] = j
      BY DEF SlotsInv
    <3>2. t # s
      BY <1>2, <3>1 DEF Owns
    <3> QED BY <1>4, <1>9, <3>1, <3>2
  <2> QED BY <1>1, <1>4, <2>1 DEF Owns
<1> QED BY <1>2, <1>3, <1>12, <1>13, <1>14, <1>15 DEF SlotsInv, Scanning

(* k_msgq_get finds a frame: it leaves the queue and is the session's.     *)
LEMMA OneTaken ==
  ASSUME NEW q \in Nat, NEW d \in Nat, NEW c \in Nat
  PROVE  q + d + c = (q - 1) + d + (c + 1)
  OBVIOUS

LEMMA TakeSlot ==
  ASSUME TypeInv, NEW s \in Sessions, NEW i, Owns(s), id[s] = i, SlotOK(s, i), msgq[i] # <<>>,
         msgq'[i] = Tail(msgq[i]), sessPc[s] = "take", sessPc'[s] = "got",
         UNCHANGED <<stats, log, joined, dispPc, dispIdx>>
  PROVE  SlotOK(s, i)'
<1>1. /\ Reached(i)' = Reached(i) /\ Given(i)' = Given(i)
      /\ Taken(s, i) = stats[i].consumed /\ Taken(s, i)' = stats[i].consumed + 1
  BY DEF Reached, Given, Taken, Behind
<1>2. Reached(i) \in Int /\ Len(msgq[i]) \in Nat
  BY SlotTypes
<1>3. Len(msgq'[i]) = Len(msgq[i]) - 1 /\ \A k \in 1..Len(msgq'[i]) : msgq'[i][k] = msgq[i][k + 1]
  BY SlotTypes
<1>4. Given(i) = Len(msgq'[i]) + stats[i].dropped_oldest + (stats[i].consumed + 1)
  <2>1. stats[i].consumed \in Nat /\ stats[i].dropped_oldest \in Nat
    BY SlotTypes
  <2>2. Given(i) = Len(msgq[i]) + stats[i].dropped_oldest + stats[i].consumed
    BY <1>1 DEF SlotOK
  <2>3. Len(msgq[i]) + stats[i].dropped_oldest + stats[i].consumed =
          (Len(msgq[i]) - 1) + stats[i].dropped_oldest + (stats[i].consumed + 1)
    BY <1>2, <2>1, OneTaken
  <2> QED BY <1>3, <2>2, <2>3
<1>5. ASSUME NEW k \in 1..Len(msgq'[i])
      PROVE  msgq'[i][k] = log[Reached(i) - Len(msgq'[i]) + k]
  <2>1. k + 1 \in 1..Len(msgq[i])
    BY <1>2, <1>3
  <2>2. msgq[i][k + 1] = log[Reached(i) - Len(msgq[i]) + (k + 1)]
    BY <2>1 DEF SlotOK
  <2>3. Reached(i) - Len(msgq[i]) + (k + 1) = Reached(i) - Len(msgq'[i]) + k
    BY <1>2, <1>3, SMTT(30)
  <2> QED BY <1>3, <2>2, <2>3
<1> QED BY <1>1, <1>4, <1>5 DEF SlotOK

LEMMA TakeGetSlots ==
  ASSUME TypeInv, ExclusiveSinks, SlotsInv, NEW s \in Sessions, TakeGet(s)
  PROVE  SlotsInv'
<1>1. /\ sessPc[s] = "take"
      /\ UNCHANGED <<active, stats, id, joined, log, dispPc, dispIdx, dispFrame>>
  BY DEF TakeGet, dispVars
<1>2. ~Scanning /\ Member(s) /\ Owns(s) /\ id[s] \in Sinks
  BY <1>1, SessionRuns DEF TakeGet, TypeInv, ThreadsOK, Member, Owns
<1>3. SlotOK(s, id[s])
  BY <1>2 DEF SlotsInv
<1>4. \A j : Reached(j)' = Reached(j) /\ Given(j)' = Given(j)
  BY <1>1 DEF Reached, Given, Behind
<1>5. \E pc \in {"wait", "got"} : sessPc' = [sessPc EXCEPT ![s] = pc]
  BY DEF TakeGet, Goto
<1>6. sessPc'[s] \in {"wait", "got"} /\ \A t \in Sessions \ {s} : sessPc'[t] = sessPc[t]
  BY <1>5 DEF TypeInv, ThreadsOK
<1>7. \A t \in Sessions : (Owns(t)' <=> Owns(t)) /\ (Member(t)' <=> Member(t))
  BY <1>1, <1>6 DEF Owns, Member
<1>8. \A t \in Sessions \ {s} : Owns(t) => id[t] # id[s] /\ id[t] \in Sinks
  BY <1>2 DEF ExclusiveSinks, TypeInv, ThreadsOK
<1>9. SlotOK(s, id[s])' /\ \A j \in Sinks \ {id[s]} : msgq'[j] = msgq[j]
  <2>1. CASE msgq[id[s]] = <<>>
    <3>1. UNCHANGED msgq /\ sessPc'[s] = "wait"
      BY <2>1, <1>6 DEF TakeGet, Goto, TypeInv, ThreadsOK
    <3>2. SlotOK(s, id[s])'
      BY <1>1, <1>3, <1>4, <2>1, <3>1 DEF SlotOK, Taken
    <3> QED BY <3>1, <3>2
  <2>2. CASE msgq[id[s]] # <<>>
    <3>1. msgq' = [msgq EXCEPT ![id[s]] = Tail(msgq[id[s]])] /\ sessPc'[s] = "got"
      BY <2>2, <1>6 DEF TakeGet, Goto, TypeInv, ThreadsOK
    <3>2. msgq'[id[s]] = Tail(msgq[id[s]]) /\ \A j \in Sinks \ {id[s]} : msgq'[j] = msgq[j]
      BY <1>2, <3>1 DEF TypeInv, QueuesOK
    <3> QED BY <1>1, <1>2, <1>3, <2>2, <3>1, <3>2, TakeSlot
  <2> QED BY <2>1, <2>2
<1>10. ASSUME NEW t \in Sessions, Member(t)' PROVE SlotOK(t, id[t])'
  <2>1. CASE t = s
    BY <1>9, <2>1
  <2>2. CASE t # s
    <3>1. Member(t) /\ SlotOK(t, id[t]) /\ id[t] \in Sinks \ {id[s]}
      BY <1>7, <1>8, <1>10, <2>2 DEF SlotsInv, Member
    <3> QED BY <1>1, <1>4, <1>6, <1>9, <2>2, <3>1, OtherSlot
  <2> QED BY <2>1, <2>2
<1>11. ASSUME NEW j \in Sinks \ active, \A t \in Sessions : id[t] # j PROVE msgq'[j] = <<>>
  BY <1>9, <1>11 DEF SlotsInv
<1> QED BY <1>1, <1>2, <1>7, <1>10, <1>11 DEF SlotsInv, Scanning

LEMMA TakeCountSlots ==
  ASSUME TypeInv, ExclusiveSinks, SlotsInv, NEW s \in Sessions, TakeCount(s)
  PROVE  SlotsInv'
<1>1. /\ sessPc[s] = "got" /\ sessPc' = [sessPc EXCEPT ![s] = "use"]
      /\ stats' = [stats EXCEPT ![id[s]]["consumed"] = @ + 1]
      /\ UNCHANGED <<active, msgq, id, joined, log, dispPc, dispIdx, dispFrame>>
  BY DEF TakeCount, Goto, dispVars
<1>2. dispPc \in {"wait", "lock"} /\ ~Scanning /\ Member(s) /\ Owns(s) /\ id[s] \in Sinks
  BY <1>1, SessionRuns DEF TakeCount, TypeInv, ThreadsOK, Member, Owns
<1>3. /\ stats'[id[s]].queued = stats[id[s]].queued
      /\ stats'[id[s]].dropped_oldest = stats[id[s]].dropped_oldest
      /\ stats'[id[s]].consumed = stats[id[s]].consumed + 1
      /\ \A j \in Sinks \ {id[s]} : stats'[j] = stats[j]
  BY <1>1, <1>2 DEF TypeInv, CountersOK, SinkCounters
<1>4. \A j \in Sinks : Reached(j)' = Reached(j) /\ Given(j)' = Given(j)
  BY <1>1, <1>3 DEF Reached, Given, Behind
<1>5. sessPc'[s] = "use" /\ \A t \in Sessions \ {s} : sessPc'[t] = sessPc[t]
  BY <1>1 DEF TypeInv, ThreadsOK
<1>6. \A t \in Sessions : (Owns(t)' <=> Owns(t)) /\ (Member(t)' <=> Member(t))
  BY <1>1, <1>5 DEF Owns, Member
<1>7. \A t \in Sessions \ {s} : Owns(t) => id[t] # id[s] /\ id[t] \in Sinks
  BY <1>2 DEF ExclusiveSinks, TypeInv, ThreadsOK
<1>8. SlotOK(s, id[s])'
  <2>1. SlotOK(s, id[s])
    BY <1>2 DEF SlotsInv
  <2>2. Taken(s, id[s])' = Taken(s, id[s])
    BY <1>1, <1>3, <1>5 DEF Taken
  <2> QED BY <1>1, <1>2, <1>3, <1>4, <1>5, <2>1, <2>2 DEF SlotOK
<1>9. ASSUME NEW t \in Sessions, Member(t)' PROVE SlotOK(t, id[t])'
  <2>1. CASE t = s
    BY <1>1, <1>8, <2>1
  <2>2. CASE t # s
    <3>1. Member(t) /\ SlotOK(t, id[t]) /\ id[t] \in Sinks \ {id[s]}
      BY <1>6, <1>7, <1>9, <2>2 DEF SlotsInv, Member
    <3> QED BY <1>1, <1>3, <1>4, <1>5, <2>2, <3>1, OtherSlot
  <2> QED BY <2>1, <2>2
<1> QED BY <1>1, <1>2, <1>6, <1>9 DEF SlotsInv, Scanning

(* The second purge of an opening finds the queue empty already.           *)
LEMMA OpenPurgeSlots ==
  ASSUME TypeInv, SlotsInv, NEW s \in Sessions, OpenPurge(s)
  PROVE  SlotsInv'
<1>1. /\ sessPc[s] = "purge" /\ sessPc' = [sessPc EXCEPT ![s] = "use"]
      /\ msgq' = [msgq EXCEPT ![id[s]] = <<>>]
      /\ UNCHANGED <<active, stats, id, joined, log, dispPc, dispIdx, dispFrame>>
  BY DEF OpenPurge, Goto, Purge, dispVars
<1>2. Member(s) /\ id[s] \in Sinks
  BY <1>1 DEF Member, Owns, TypeInv, ThreadsOK
<1>3. msgq[id[s]] = <<>>
  BY <1>1, <1>2 DEF SlotsInv, SlotOK
<1>4. UNCHANGED msgq
  BY <1>1, <1>2, <1>3 DEF TypeInv, QueuesOK
<1>5. (Owns(s)' <=> Owns(s)) /\ (Member(s)' <=> Member(s))
  BY <1>1 DEF Owns, Member, TypeInv, ThreadsOK
<1>6. UNCHANGED <<active, stats, msgq, id, joined, log, dispPc, dispIdx, dispFrame>>
  BY <1>1, <1>4
<1>7. PICK pc : pc = "use" /\ sessPc' = [sessPc EXCEPT ![s] = pc]
  BY <1>1
<1>8. (pc = "got" <=> sessPc[s] = "got") /\ pc \notin {"purge", "wait"}
  BY <1>1, <1>7
<1> QED BY <1>5, <1>6, <1>7, <1>8, GoOn

LEMMA CloseClearSlots ==
  ASSUME TypeInv, ExclusiveSinks, SlotsInv, NEW s \in Sessions, CloseClear(s)
  PROVE  SlotsInv'
<1>1. /\ sessPc[s] = "clear" /\ sessPc' = [sessPc EXCEPT ![s] = "drain"]
      /\ active' = active \ {id[s]}
      /\ UNCHANGED <<msgq, stats, id, joined, log, dispPc, dispIdx, dispFrame>>
  BY DEF CloseClear, Goto, Deactivate, dispVars
<1>2. ~Scanning
  BY SessionRuns DEF CloseClear, TypeInv
<1>3. sessPc'[s] = "drain" /\ \A t \in Sessions \ {s} : sessPc'[t] = sessPc[t]
  BY <1>1 DEF TypeInv, ThreadsOK
<1>4. \A t \in Sessions : (Owns(t)' <=> Owns(t)) /\ (Member(t)' <=> Member(t) /\ t # s)
  BY <1>1, <1>3 DEF Owns, Member
<1>5. \A i : Reached(i)' = Reached(i) /\ Given(i)' = Given(i)
  BY <1>1 DEF Reached, Given, Behind
<1>6. ASSUME NEW t \in Sessions, Member(t)' PROVE SlotOK(t, id[t])'
  <2>1. Member(t) /\ SlotOK(t, id[t]) /\ t # s
    BY <1>4, <1>6 DEF SlotsInv
  <2> QED BY <1>1, <1>3, <1>5, <2>1, OtherSlot
<1>7. ASSUME NEW j \in Sinks \ active', \A t \in Sessions : id'[t] # j PROVE msgq'[j] = <<>>
  <2>1. j \notin active
    BY <1>1, <1>7
  <2> QED BY <1>1, <1>7, <2>1 DEF SlotsInv
<1> QED BY <1>1, <1>2, <1>4, <1>6, <1>7 DEF SlotsInv, Scanning

LEMMA ClosePurgeSlots ==
  ASSUME TypeInv, ExclusiveSinks, SlotsInv, NEW s \in Sessions, ClosePurge(s)
  PROVE  SlotsInv'
<1>1. /\ sessPc[s] = "drain" /\ sessPc' = [sessPc EXCEPT ![s] = "none"]
      /\ msgq' = [msgq EXCEPT ![id[s]] = <<>>] /\ id' = [id EXCEPT ![s] = -1]
      /\ UNCHANGED <<active, stats, joined, log, dispPc, dispIdx, dispFrame>>
  BY DEF ClosePurge, Goto, Purge, dispVars
<1>2. ~Scanning /\ Owns(s) /\ id[s] \in Sinks /\ id[s] \notin active
  BY <1>1, SessionRuns DEF ClosePurge, TypeInv, ThreadsOK, Owns, ExclusiveSinks
<1>3. /\ sessPc'[s] = "none" /\ id'[s] = -1
      /\ \A t \in Sessions \ {s} : sessPc'[t] = sessPc[t] /\ id'[t] = id[t]
      /\ msgq'[id[s]] = <<>> /\ \A j \in Sinks \ {id[s]} : msgq'[j] = msgq[j]
  BY <1>1, <1>2 DEF TypeInv, ThreadsOK, QueuesOK
<1>4. ~Owns(s)' /\ \A t \in Sessions \ {s} : (Owns(t)' <=> Owns(t)) /\ (Member(t)' <=> Member(t))
  BY <1>3 DEF Owns, Member
<1>5. \A i : Reached(i)' = Reached(i) /\ Given(i)' = Given(i)
  BY <1>1 DEF Reached, Given, Behind
<1>6. ASSUME NEW t \in Sessions, Member(t)' PROVE SlotOK(t, id[t])'
  <2>1. Member(t) /\ SlotOK(t, id[t]) /\ t # s
    BY <1>4, <1>6 DEF SlotsInv, Member
  <2>2. id[t] \in Sinks \ {id[s]}
    BY <1>2, <2>1 DEF ExclusiveSinks, Member, TypeInv, ThreadsOK
  <2> QED BY <1>1, <1>3, <1>5, <2>1, <2>2, OtherSlot
<1>7. ASSUME NEW j \in Sinks \ active, \A t \in Sessions : id'[t] # j PROVE msgq'[j] = <<>>
  <2>1. CASE j = id[s]
    BY <1>3, <2>1
  <2>2. CASE j # id[s]
    <3>1. \A t \in Sessions : id[t] # j
      BY <1>3, <1>7, <2>2
    <3> QED BY <1>3, <2>2, <3>1 DEF SlotsInv
  <2> QED BY <2>1, <2>2
<1>8. \A t \in Sessions : ~Owns(t)' => id'[t] = -1
  BY <1>3, <1>4 DEF SlotsInv
<1>9. ASSUME NEW j \in active PROVE \E t \in Sessions : Owns(t)' /\ id'[t] = j
  <2>1. PICK t \in Sessions : Owns(t) /\ id[t] = j
    BY DEF SlotsInv
  <2>2. t # s
    BY <1>2, <2>1
  <2> QED BY <1>3, <1>4, <2>1, <2>2
<1> QED BY <1>1, <1>2, <1>6, <1>7, <1>8, <1>9 DEF SlotsInv, Scanning

-----------------------------------------------------------------------------
LEMMA SlotsStep == ASSUME TypeInv, ExclusiveSinks, SlotsInv, Next PROVE SlotsInv'
<1>1. CASE Producer
  <2>1. /\ UNCHANGED <<active, stats, msgq, log, id, joined, sessPc>>
        /\ UNCHANGED <<dispPc, dispIdx, dispFrame>> \/ (~Scanning /\ ~Scanning')
    BY <1>1 DEF Producer, PublishRejected, Publish, PutIngest, PublishDropOldest, PublishRetry,
       Scanning, sinkVars, sessVars, dispVars
  <2> QED BY <2>1, IdleStep
<1>2. CASE DispGet
  <2>1. /\ UNCHANGED <<active, stats, msgq, log, id, joined, sessPc>>
        /\ ~Scanning /\ ~Scanning'
    BY <1>2 DEF DispGet, Scanning, sinkVars, sessVars
  <2> QED BY <2>1, IdleStep
<1>3. CASE Dispatcher /\ ~DispGet
  BY <1>3, DispLockSlots, DispPutSlots, DispDropSlots, DispRetrySlots, DispCountSlots,
     DispFinishSlots DEF Dispatcher
<1>4. ASSUME NEW s \in Sessions, Session(s) PROVE SlotsInv'
  <2>1. CASE \/ OpenCall(s) \/ OpenLock(s) \/ OpenFull(s)
             \/ TakeCheck(s) \/ TakeTimeout(s) \/ CloseCall(s) \/ CloseLock(s)
    <3>1. PICK pc \in {"open", "find", "none", "take", "use", "close", "clear"} :
            sessPc' = [sessPc EXCEPT ![s] = pc]
      BY <2>1 DEF OpenCall, OpenLock, OpenFull, TakeCheck, TakeTimeout, CloseCall, CloseLock,
         LockSinks, Goto
    <3>2. \/ sessPc[s] \in {"none", "open", "find"} /\ sessPc'[s] \in {"none", "open", "find"}
          \/ /\ sessPc[s] \in {"use", "wait", "close"}
             /\ sessPc'[s] \in {"take", "use", "close", "clear"}
      BY <2>1 DEF OpenCall, OpenLock, OpenFull, TakeCheck, TakeTimeout, CloseCall, CloseLock,
         LockSinks, Goto, TypeInv, ThreadsOK
    <3>3. /\ pc # "got" /\ sessPc[s] # "got"
          /\ (Owns(s)' <=> Owns(s)) /\ (Member(s)' <=> Member(s))
      BY <3>2 DEF Owns, Member
    <3>4. UNCHANGED <<active, stats, msgq, id, joined, log, dispPc, dispIdx, dispFrame>>
      BY <2>1 DEF OpenCall, OpenLock, OpenFull, TakeCheck, TakeTimeout, CloseCall, CloseLock,
         LockSinks, sinkVars, dispVars
    <3> QED BY <3>1, <3>3, <3>4, GoOn
  <2> QED
    BY <1>4, <2>1, OpenFindSlots, OpenPurgeSlots, TakeGetSlots, TakeCountSlots, CloseClearSlots,
       ClosePurgeSlots DEF Session, OpenSearch
<1> QED BY <1>1, <1>2, <1>3, <1>4 DEF Next

(* The inductive invariant behind the bridge's queues.                     *)
BridgeInv == TypeInv /\ ExclusiveSinks /\ IngestInv /\ SlotsInv

LEMMA BridgeInvInit == Init => BridgeInv
<1> SUFFICES ASSUME Init PROVE ExclusiveSinks /\ SlotsInv
  BY TypeInvInit, IngestInvInit DEF BridgeInv
<1>1. \A s \in Sessions : sessPc[s] = "none" /\ id[s] = -1
  BY DEF Init
<1> QED BY <1>1 DEF Init, ExclusiveSinks, SlotsInv, Owns, Member, Scanning

LEMMA BridgeInvStep == BridgeInv /\ [Next]_vars => BridgeInv'
<1> SUFFICES ASSUME BridgeInv, [Next]_vars PROVE BridgeInv'
  OBVIOUS
<1>1. TypeInv' /\ IngestInv'
  BY TypeInvStep, IngestInvStep DEF BridgeInv
<1>2. CASE Next
  BY <1>1, <1>2, ExclusiveStep, SlotsStep DEF BridgeInv, TypeInv
<1>3. CASE UNCHANGED vars
  <2>1. UNCHANGED <<active, stats, msgq, log, id, joined, sessPc, dispPc, dispIdx, dispFrame>>
    BY <1>3 DEF vars, sinkVars, dispVars, sessVars
  <2> QED BY <1>1, <2>1, IdleStep DEF BridgeInv, ExclusiveSinks, Owns
<1> QED BY <1>2, <1>3

LEMMA BridgeInvariant == Spec => []BridgeInv
  BY BridgeInvInit, BridgeInvStep, PTL DEF Spec

(* The queue of a sink is exactly the most recent frames dispatched, in    *)
(* order: put_drop_oldest removes only the oldest, and nothing of an       *)
(* earlier owner is left in the slot that sink_open claims.                *)
THEOREM SinkQueueCorrect == Spec => []SinkQueueIsSuffix
<1>1. BridgeInv => SinkQueueIsSuffix
  <2> SUFFICES ASSUME BridgeInv, NEW i \in active, NEW s \in Sessions, id[s] = i, sessPc[s] # "purge",
                      NEW k \in 1..Len(msgq[i])
               PROVE  msgq[i][k] = log[Len(log) - Behind(i) - Len(msgq[i]) + k]
    BY DEF SinkQueueIsSuffix
  <2>1. i \in Sinks /\ i # -1
    BY DEF BridgeInv, TypeInv, ThreadsOK, Sinks
  <2>2. Owns(s) /\ Member(s)
    BY <2>1 DEF BridgeInv, SlotsInv, ExclusiveSinks, Member
  <2>3. msgq[i][k] = log[Reached(i) - Len(msgq[i]) + k]
    BY <2>2 DEF BridgeInv, SlotsInv, SlotOK
  <2>4. Reached(i) = Len(log) - Behind(i)
    <3>1. Len(log) \in Nat
      BY DEF BridgeInv, TypeInv, QueuesOK
    <3> QED BY <3>1, ReachedIs
  <2> QED BY <2>3, <2>4
<1> QED BY <1>1, BridgeInvariant, PTL

(* Every frame dispatched since a session opened its sink is in the queue, *)
(* was taken by the session or is in the sink's dropped_oldest, although   *)
(* nmea_bridge_sink_take removes it and counts it in two steps without     *)
(* the lock.                                                               *)
THEOREM SinkCountsCorrect == Spec => []SinkExact
<1>1. BridgeInv => SinkExact
  <2> SUFFICES ASSUME BridgeInv, NEW s \in Sessions, Owns(s), sessPc[s] # "drain",
                      NEW i, i = id[s], dispPc \notin {"retry", "count"} \/ dispIdx # i
               PROVE  /\ stats[i].queued = Len(log) - Behind(i) - joined[s]
                      /\ stats[i].queued = Len(msgq[i]) + stats[i].dropped_oldest + stats[i].consumed
                                             + (IF sessPc[s] = "got" THEN 1 ELSE 0)
    BY DEF SinkExact
  <2>1. SlotOK(s, i)
    BY DEF BridgeInv, SlotsInv, Member
  <2>2. Given(i) = stats[i].queued
    BY DEF Given
  <2>3. Len(log) \in Nat /\ Len(msgq[i]) \in Nat /\ stats[i].dropped_oldest \in Nat
        /\ stats[i].consumed \in Nat
    BY SlotTypes DEF BridgeInv
  <2>4. Reached(i) = Len(log) - Behind(i)
    BY <2>3, ReachedIs
  <2>5. Len(msgq[i]) + stats[i].dropped_oldest + Taken(s, i) =
          Len(msgq[i]) + stats[i].dropped_oldest + stats[i].consumed
            + (IF sessPc[s] = "got" THEN 1 ELSE 0)
    BY <2>3, SMTT(30) DEF Taken
  <2> QED BY <2>1, <2>2, <2>4, <2>5 DEF SlotOK
<1> QED BY <1>1, BridgeInvariant, PTL

-----------------------------------------------------------------------------
(* The bridge implements LossyFanOut.                                      *)

(* The n-th frame dispatched, and 0 before the first.                      *)
LogAt(n) == IF n = 0 THEN 0 ELSE log[n]

(* The newest frame taken from the ingest queue.                           *)
Newest == IF dispPc = "lock" THEN dispFrame ELSE Last0(log)

(* Frames are numbered in the order they are accepted and leave the ingest *)
(* queue in that order.                                                    *)
OrderInv ==
  /\ \A m, n \in 0..Len(log) : m < n => LogAt(m) < LogAt(n)
  /\ Newest <= Settled - Len(ingest)
  /\ dispPc = "lock" => Last0(log) < dispFrame

(* The frame before the first one that a session has still to get, by its  *)
(* place in log: what was dispatched before it joined, what its sink       *)
(* dropped and what it took are behind it.                                 *)
Place(s) == joined[s] + stats[id[s]].dropped_oldest + Taken(s, id[s])

(* What a session took last is not beyond its place, and is the very frame *)
(* before it as long as its sink has not dropped any.                      *)
Dropped(s) == stats[id[s]].dropped_oldest
FrameOK(s) == /\ frame[s] <= LogAt(Place(s))
              /\ Dropped(s) = 0 => frame[s] = LogAt(Place(s))
FramesOK == \A s \in Sessions : Member(s) => FrameOK(s)

-----------------------------------------------------------------------------
LEMMA OrderInvInit == Init => OrderInv
  BY DEF Init, OrderInv, LogAt, Newest, Last0, Settled, BridgeCounters

LEMMA OrderInvStep == BridgeInv /\ OrderInv /\ [Next]_vars => OrderInv'
<1> SUFFICES ASSUME BridgeInv, OrderInv, [Next]_vars PROVE OrderInv'
  OBVIOUS
<1> USE DEF BridgeInv, TypeInv
<1>0. /\ Settled \in Int /\ Len(ingest) \in Nat /\ bridge_stats.frames_in \in Nat
      /\ Newest \in Nat /\ Last0(log) \in Nat /\ Len(log) \in Nat /\ dispFrame \in Nat
  BY Last0Type DEF Settled, Newest, CountersOK, BridgeCounters, QueuesOK, ThreadsOK
<1>1. CASE \/ UNCHANGED vars
           \/ \E len \in Lens : PublishRejected(len)
           \/ DispPut \/ DispDropOldest \/ DispRetry \/ DispCount \/ DispFinish
           \/ \E s \in Sessions : Session(s)
  <2>1. /\ UNCHANGED <<log, ingest, prodPc, dispFrame>>
        /\ dispPc' = dispPc \/ (dispPc' # "lock" /\ dispPc # "lock")
    BY <1>1 DEF vars, prodVars, dispVars, PublishRejected, DispPut, DispDropOldest, DispRetry, DispCount,
       DispFinish, Session, OpenSearch, OpenCall, OpenLock, OpenFind, OpenFull, OpenPurge, TakeCheck, TakeGet,
       TakeTimeout, TakeCount, CloseCall, CloseLock, CloseClear, ClosePurge, LockSinks
  <2>2. bridge_stats'.frames_in = bridge_stats.frames_in
    BY <1>1 DEF vars, PublishRejected, DispPut, DispDropOldest, DispRetry, DispCount, CountersOK,
       BridgeCounters,
       DispFinish, Session, OpenSearch, OpenCall, OpenLock, OpenFind, OpenFull, OpenPurge, TakeCheck, TakeGet,
       TakeTimeout, TakeCount, CloseCall, CloseLock, CloseClear, ClosePurge, LockSinks
  <2> QED BY <2>1, <2>2 DEF OrderInv, Newest, LogAt, Settled
<1>2. ASSUME NEW f, PutIngest(f), UNCHANGED log, f = Settled + 1, Settled' = f PROVE OrderInv'
  <2>1. CASE dispPc = "wait"
    <3>1. ingest = <<>> /\ ingest' = <<>> /\ dispPc' = "lock" /\ dispFrame' = f
      BY <1>2, <2>1 DEF PutIngest, IngestInv
    <3>2. Newest = Last0(log) /\ Newest <= Settled
      BY <1>0, <2>1, <3>1 DEF OrderInv, Newest
    <3> QED BY <1>0, <1>2, <3>1, <3>2 DEF OrderInv, Newest, LogAt
  <2>2. CASE dispPc # "wait"
    <3>1. ingest' = Append(ingest, f) /\ UNCHANGED <<dispPc, dispFrame>>
      BY <1>2, <2>2 DEF PutIngest
    <3>2. Len(ingest') = Len(ingest) + 1
      BY <1>2, <3>1 DEF QueuesOK
    <3>3. Newest' = Newest
      BY <1>2, <3>1 DEF Newest
    <3> QED BY <1>0, <1>2, <3>1, <3>2, <3>3 DEF OrderInv, LogAt
  <2> QED BY <2>1, <2>2
<1>3. ASSUME NEW len \in Lens, Publish(len) PROVE OrderInv'
  <2>1. /\ prodPc = "idle" /\ UNCHANGED log /\ Settled = bridge_stats.frames_in
        /\ bridge_stats'.frames_in = bridge_stats.frames_in + 1
    BY <1>3 DEF Publish, CountersOK, BridgeCounters, Settled
  <2>2. CASE HasRoom(ingest, IngestDepth)
    <3>1. PutIngest(bridge_stats.frames_in + 1) /\ prodPc' = "idle"
      BY <1>3, <2>1, <2>2 DEF Publish
    <3>2. Settled' = bridge_stats.frames_in + 1
      BY <2>1, <3>1 DEF Settled
    <3> QED BY <1>2, <2>1, <3>1, <3>2
  <2>3. CASE ~HasRoom(ingest, IngestDepth)
    <3>1. prodPc' = "drop" /\ UNCHANGED <<ingest, dispPc, dispFrame>>
      BY <1>3, <2>3 DEF Publish
    <3>2. Settled' = Settled
      BY <1>0, <2>1, <3>1 DEF Settled
    <3> QED BY <2>1, <3>1, <3>2 DEF OrderInv, Newest, LogAt
  <2> QED BY <2>2, <2>3
<1>4. CASE PublishDropOldest
  <2>1. /\ prodPc = "drop" /\ prodPc' = "retry" /\ UNCHANGED <<dispPc, dispFrame, log>>
        /\ bridge_stats'.frames_in = bridge_stats.frames_in
        /\ ingest # <<>> /\ ingest' = Tail(ingest)
    BY <1>4 DEF PublishDropOldest, CountersOK, BridgeCounters, dispVars, DropOldest, IngestInv
  <2>2. Settled' = Settled /\ Newest' = Newest
    BY <2>1 DEF Settled, Newest
  <2>3. Len(ingest') = Len(ingest) - 1
    BY <2>1 DEF QueuesOK
  <2> QED BY <1>0, <2>1, <2>2, <2>3 DEF OrderInv, LogAt
<1>5. CASE PublishRetry
  <2>1. HasRoom(ingest, IngestDepth) /\ UNCHANGED <<bridge_stats, log>> /\ prodPc' = "idle"
        /\ PutIngest(bridge_stats.frames_in) /\ prodPc = "retry"
    BY <1>5 DEF PublishRetry, IngestInv
  <2>2. Settled' = bridge_stats.frames_in /\ bridge_stats.frames_in = Settled + 1
    BY <1>0, <2>1 DEF Settled
  <2> QED BY <1>2, <2>1, <2>2
<1>6. CASE DispGet
  <2>1. dispPc = "get" /\ UNCHANGED <<bridge_stats, log, prodPc>>
    BY <1>6 DEF DispGet, prodVars
  <2>2. Settled' = Settled /\ Newest = Last0(log)
    BY <2>1 DEF Settled, Newest
  <2>3. CASE ingest = <<>>
    BY <1>6, <2>1, <2>2, <2>3 DEF DispGet, OrderInv, Newest, LogAt
  <2>4. CASE ingest # <<>>
    <3>1. ingest' = Tail(ingest) /\ dispPc' = "lock" /\ dispFrame' = Head(ingest)
      BY <1>6, <2>4 DEF DispGet
    <3>2. Len(ingest') = Len(ingest) - 1 /\ Head(ingest) = ingest[1] /\ 1 \in 1..Len(ingest)
      BY <2>4, <3>1 DEF QueuesOK
    <3>3. dispFrame' = Settled - Len(ingest')
      BY <1>0, <3>1, <3>2 DEF IngestInv
    <3>4. Last0(log) < dispFrame'
      BY <1>0, <2>2, <3>2, <3>3 DEF OrderInv
    <3>5. Newest' <= Settled' - Len(ingest')
      BY <1>0, <2>2, <3>1, <3>2, <3>3 DEF Newest
    <3> QED BY <2>1, <3>4, <3>5 DEF OrderInv, LogAt
  <2> QED BY <2>3, <2>4
<1>7. CASE DispLock
  <2>1. /\ dispPc = "lock" /\ dispPc' = "scan" /\ log' = Append(log, dispFrame)
        /\ UNCHANGED <<bridge_stats, prodPc, ingest>>
    BY <1>7 DEF DispLock, prodVars
  <2>2. /\ Len(log') = Len(log) + 1 /\ log'[Len(log) + 1] = dispFrame
        /\ \A k \in 1..Len(log) : log'[k] = log[k]
    BY <2>1 DEF QueuesOK, ThreadsOK
  <2>3. Last0(log') = dispFrame
    BY <1>0, <2>1, <2>2 DEF Last0
  <2>4. Newest' = Newest /\ Settled' = Settled
    BY <2>1, <2>3 DEF Newest, Settled
  <2>5. LogAt(Len(log)) = Last0(log)
    BY DEF LogAt, Last0, QueuesOK
  <2>6. \A k \in 0..Len(log) : LogAt(k)' = LogAt(k) /\ LogAt(k) \in Nat
    <3>1. \A k \in 0..Len(log) : k = 0 \/ (k # 0 /\ k \in 1..Len(log) /\ log[k] \in Nat)
      BY <1>0 DEF QueuesOK
    <3> QED BY <2>2, <3>1 DEF LogAt
  <2>7. ASSUME NEW k \in 0..Len(log) PROVE LogAt(k) < dispFrame
    <3>1. k = Len(log) \/ LogAt(k) < LogAt(Len(log))
      BY <1>0, <2>7 DEF OrderInv
    <3>2. LogAt(Len(log)) < dispFrame
      BY <2>1, <2>5 DEF OrderInv
    <3>3. LogAt(k) \in Nat /\ LogAt(Len(log)) \in Nat
      BY <1>0, <2>6, <2>7
    <3> QED BY <1>0, <3>1, <3>2, <3>3
  <2>8. ASSUME NEW m \in 0..Len(log'), NEW n \in 0..Len(log'), m < n PROVE LogAt(m)' < LogAt(n)'
    <3>1. m \in 0..Len(log)
      BY <1>0, <2>2, <2>8
    <3>2. CASE n = Len(log) + 1
      <4>1. LogAt(n)' = dispFrame
        BY <1>0, <2>2, <3>2 DEF LogAt
      <4> QED BY <2>6, <2>7, <3>1, <4>1
    <3>3. CASE n \in 0..Len(log)
      BY <2>6, <2>8, <3>1, <3>3 DEF OrderInv
    <3> QED BY <1>0, <2>2, <3>2, <3>3
  <2> QED BY <2>1, <2>4, <2>8 DEF OrderInv
<1> QED BY <1>1, <1>3, <1>4, <1>5, <1>6, <1>7 DEF Next, Producer, Dispatcher

-----------------------------------------------------------------------------
(* What each step does to the sessions' frames and to LossyFanOut.         *)

Follows == FramesOK' /\ [FanOut!Next]_(FanOut!vars)

LEMMA LogTypes ==
  ASSUME BridgeInv
  PROVE  /\ Len(log) \in Nat /\ Last0(log) = LogAt(Len(log))
         /\ \A n \in 0..Len(log) : LogAt(n) \in Nat
<1>1. log \in Seq(Nat) /\ Len(log) \in Nat
  BY DEF BridgeInv, TypeInv, QueuesOK
<1>2. Last0(log) = LogAt(Len(log))
  BY <1>1 DEF LogAt, Last0
<1>3. \A n \in 0..Len(log) : n = 0 \/ (n # 0 /\ log[n] \in Nat)
  BY <1>1
<1> QED BY <1>1, <1>2, <1>3 DEF LogAt

PlaceOK ==
  \A s \in Sessions : Member(s) =>
    Place(s) = Reached(id[s]) - Len(msgq[id[s]]) /\ Place(s) \in 0..Len(log)

LEMMA PlaceIs == BridgeInv => PlaceOK
<1> SUFFICES ASSUME BridgeInv, NEW s \in Sessions, Member(s)
             PROVE  Place(s) = Reached(id[s]) - Len(msgq[id[s]]) /\ Place(s) \in 0..Len(log)
  BY DEF PlaceOK
<1>1. SlotOK(s, id[s]) /\ Owns(s) /\ TypeInv
  BY DEF BridgeInv, SlotsInv, Member
<1>2. Place(s) = Reached(id[s]) - Len(msgq[id[s]]) /\ Place(s) \in Nat
  BY <1>1, SlotRange DEF Place
<1>3. Len(log) \in Nat /\ Len(msgq[id[s]]) \in Nat /\ Reached(id[s]) \in Int
  BY <1>1, SlotTypes
<1>4. Reached(id[s]) <= Len(log)
  BY <1>3 DEF Reached
<1> QED BY <1>2, <1>3, <1>4

(* Nothing happens to a session's frames.                                  *)
LEMMA SameFrame ==
  ASSUME NEW s \in Sessions, FrameOK(s), UNCHANGED log, frame'[s] = frame[s],
         Place(s)' = Place(s), Dropped(s)' = Dropped(s)
  PROVE  FrameOK(s)'
  BY DEF FrameOK, LogAt

(* The step moves nothing that LossyFanOut knows of.                       *)
LEMMA Stutters ==
  ASSUME bridge_stats'.frames_in = bridge_stats.frames_in, UNCHANGED <<log, frame>>,
         \A s \in Sessions : Member(s)' <=> Member(s)
  PROVE  UNCHANGED FanOut!vars
  BY DEF FanOut!vars, Member

(* The frame in hand goes to the session pended on a sink's empty queue,   *)
(* or into the queue.                                                      *)
LEMMA PutSinkFollows ==
  ASSUME BridgeInv, PlaceOK, PlaceOK', OrderInv, FramesOK, NEW i \in active, PutSink(i), Scanning,
         Behind(i) = 1, dispPc' = "count", dispIdx' = i,
         UNCHANGED <<active, stats, log, id, joined, bridge_stats>>
  PROVE  Follows
<1>1. i \in Sinks /\ i \in Int
  BY DEF BridgeInv, TypeInv, ThreadsOK, Sinks
<1>2. CASE Waiters(i) = {}
  <2>1. UNCHANGED <<sessPc, frame>>
    BY <1>2 DEF PutSink
  <2>2. \A s \in Sessions : (Member(s)' <=> Member(s)) /\ Place(s)' = Place(s) /\ Dropped(s)' = Dropped(s)
    BY <2>1 DEF Member, Owns, Place, Taken, Dropped
  <2> QED BY <2>1, <2>2, SameFrame, Stutters DEF Follows, FramesOK
<1>3. CASE Waiters(i) # {}
  <2>1. PICK s \in Waiters(i) : /\ sessPc' = [sessPc EXCEPT ![s] = "got"]
                                /\ frame' = [frame EXCEPT ![s] = dispFrame]
    BY <1>3 DEF PutSink
  <2>2. s \in Sessions /\ sessPc[s] = "wait" /\ id[s] = i /\ UNCHANGED msgq
    BY <1>3, <2>1 DEF Waiters, PutSink
  <2>3. /\ sessPc'[s] = "got" /\ \A t \in Sessions \ {s} : sessPc'[t] = sessPc[t]
        /\ frame'[s] = dispFrame /\ \A t \in Sessions \ {s} : frame'[t] = frame[t]
    BY <2>1, <2>2 DEF BridgeInv, TypeInv, ThreadsOK
  <2>4. \A t \in Sessions : Member(t)' <=> Member(t)
    BY <2>2, <2>3 DEF Member, Owns
  <2>5. Member(s) /\ msgq[i] = <<>> /\ Len(msgq[i]) = 0
    BY <2>2 DEF Member, Owns, BridgeInv, SlotsInv, SlotOK
  <2>6. Place(s) = Len(log) - 1
    <3>1. Reached(i) = Len(log) - 1
      BY DEF Reached
    <3> QED BY <2>2, <2>5, <3>1, LogTypes DEF PlaceOK
  <2>7. Place(s)' = Len(log)
    <3>1. Reached(i)' = Len(log)
      <4>1. Behind(i)' = 0
        BY <1>1 DEF Behind
      <4> QED BY <4>1 DEF Reached
    <3>2. Place(s)' = Reached(i)' - Len(msgq[i])
      BY <2>2, <2>4, <2>5 DEF PlaceOK
    <3> QED BY <2>5, <3>1, <3>2, LogTypes
  <2>8. dispFrame = Last0(log) /\ Last0(log) = LogAt(Len(log))
    BY LogTypes DEF BridgeInv, SlotsInv, Last0
  <2>9. FramesOK'
    <3>1. ASSUME NEW t \in Sessions, Member(t)' PROVE FrameOK(t)'
      <4>1. CASE t = s
        <5>1. LogAt(Place(t))' = Last0(log)
          BY <2>7, <2>8, <4>1 DEF LogAt
        <5>2. Last0(log) \in Nat
          BY LogTypes, <2>8
        <5> QED BY <2>3, <2>8, <4>1, <5>1, <5>2 DEF FrameOK
      <4>2. CASE t # s
        <5>1. Place(t)' = Place(t) /\ Dropped(t)' = Dropped(t)
          BY <2>3, <4>2 DEF Place, Taken, Dropped
        <5> QED BY <2>3, <2>4, <3>1, <4>2, <5>1, SameFrame DEF FramesOK
      <4> QED BY <4>1, <4>2
    <3> QED BY <3>1 DEF FramesOK
  <2>10. FanOut!Deliver(s)
    <3>1. dispFrame \in (frame[s] + 1)..Last0(log)
      <4>1. Place(s) \in 0..Len(log) /\ Len(log) \in Nat
        BY <2>2, <2>5, LogTypes DEF PlaceOK
      <4>2. LogAt(Place(s)) < LogAt(Len(log)) /\ LogAt(Place(s)) \in Nat /\ LogAt(Len(log)) \in Nat
        BY <2>6, <4>1, LogTypes DEF OrderInv
      <4>3. frame[s] <= LogAt(Place(s)) /\ frame[s] \in Nat
        BY <2>2, <2>5 DEF FramesOK, FrameOK, BridgeInv, TypeInv, ThreadsOK
      <4> QED BY <2>8, <4>2, <4>3
    <3> QED BY <2>1, <2>2, <2>4, <2>5, <3>1 DEF FanOut!Deliver, Member
  <2> QED BY <2>2, <2>9, <2>10 DEF Follows, FanOut!Next
<1> QED BY <1>2, <1>3

(* The frame enters the log; no queue moves.                               *)
LEMMA DispLockFollows ==
  ASSUME BridgeInv, PlaceOK, OrderInv, FramesOK, DispLock
  PROVE  Follows
<1>1. /\ dispPc = "lock" /\ log' = Append(log, dispFrame)
      /\ UNCHANGED <<bridge_stats, active, msgq, stats, sessPc, id, frame, joined, ingest>>
  BY DEF DispLock, sinkVars, sessVars
<1>2. /\ Len(log') = Len(log) + 1 /\ log'[Len(log) + 1] = dispFrame
      /\ \A k \in 1..Len(log) : log'[k] = log[k]
  BY <1>1 DEF BridgeInv, TypeInv, QueuesOK, ThreadsOK
<1>3. Last0(log') = dispFrame
  BY <1>1, <1>2, LogTypes DEF Last0
<1>4. \A s \in Sessions : (Member(s)' <=> Member(s)) /\ Place(s)' = Place(s) /\ Dropped(s)' = Dropped(s)
  BY <1>1 DEF Member, Owns, Place, Taken, Dropped
<1>5. ASSUME NEW s \in Sessions, Member(s)' PROVE FrameOK(s)'
  <2>1. Place(s) \in 0..Len(log) /\ FrameOK(s)
    BY <1>4, <1>5 DEF PlaceOK, FramesOK
  <2>2. Place(s) = 0 \/ (Place(s) # 0 /\ Place(s) \in 1..Len(log))
    BY <2>1, LogTypes
  <2>3. LogAt(Place(s))' = LogAt(Place(s))
    BY <1>2, <1>4, <2>2 DEF LogAt
  <2> QED BY <1>1, <1>4, <2>1, <2>3 DEF FrameOK
<1>6. FanOut!Dispatch
  <2>1. dispFrame \in (Last0(log) + 1)..bridge_stats.frames_in
    <3>1. Last0(log) < dispFrame /\ dispFrame <= Settled - Len(ingest)
      BY <1>1 DEF OrderInv, Newest
    <3>2. /\ Len(ingest) \in Nat /\ bridge_stats.frames_in \in Nat /\ dispFrame \in Nat
          /\ Settled \in Int /\ Settled <= bridge_stats.frames_in
      BY DEF BridgeInv, TypeInv, QueuesOK, CountersOK, BridgeCounters, ThreadsOK, Settled
    <3>3. Last0(log) \in Nat
      BY LogTypes
    <3> QED BY <3>1, <3>2, <3>3
  <2> QED BY <1>1, <1>3, <1>4, <2>1 DEF FanOut!Dispatch, Member
<1> QED BY <1>5, <1>6 DEF Follows, FramesOK, FanOut!Next

(* The oldest frame of a full queue is lost: the session gets a later one  *)
(* next.                                                                   *)
LEMMA DispDropFollows ==
  ASSUME BridgeInv, PlaceOK, PlaceOK', OrderInv, FramesOK, DispDropOldest
  PROVE  Follows
<1>1. UNCHANGED <<bridge_stats, active, sessPc, id, frame, joined, log>>
  BY DEF DispDropOldest, sessVars
<1>2. dispIdx \in Sinks /\ stats' = [stats EXCEPT ![dispIdx]["dropped_oldest"] = @ + 1]
  BY DEF DispDropOldest, CountDrop, BridgeInv, TypeInv, ThreadsOK
<1>3. \A s \in Sessions : Member(s)' <=> Member(s)
  BY <1>1 DEF Member, Owns
<1>4. ASSUME NEW s \in Sessions, Member(s)' PROVE FrameOK(s)'
  <2>1. id[s] \in Sinks /\ stats[id[s]] \in [SinkCounters -> Nat] /\ joined[s] \in Nat
    BY <1>3, <1>4 DEF Member, BridgeInv, TypeInv, ThreadsOK, CountersOK
  <2>2. /\ stats'[id[s]].dropped_oldest \in {stats[id[s]].dropped_oldest, stats[id[s]].dropped_oldest + 1}
        /\ stats[id[s]].dropped_oldest \in Nat /\ stats[id[s]].consumed \in Nat
        /\ stats'[id[s]].consumed = stats[id[s]].consumed
    BY <1>2, <2>1 DEF BridgeInv, TypeInv, CountersOK, SinkCounters
  <2>3. Taken(s, id[s])' = Taken(s, id[s]) /\ Taken(s, id[s]) \in Nat
    BY <1>1, <2>2 DEF Taken
  <2>4. Place(s) <= Place(s)'
    BY <1>1, <2>1, <2>2, <2>3 DEF Place
  <2>5. /\ Place(s) \in 0..Len(log) /\ Place(s)' \in 0..Len(log) /\ FrameOK(s)
        /\ frame[s] \in Nat /\ frame[s] <= LogAt(Place(s))
    BY <1>1, <1>3, <1>4 DEF PlaceOK, FramesOK, FrameOK, BridgeInv, TypeInv, ThreadsOK
  <2>6. PICK q \in 0..Len(log) : q = Place(s)'
    BY <2>5
  <2>7. frame[s] <= LogAt(q)
    <3>1. Place(s) = q \/ LogAt(Place(s)) < LogAt(q)
      BY <2>4, <2>5, <2>6, LogTypes DEF OrderInv
    <3> QED BY <2>5, <3>1, LogTypes
  <2>8. Dropped(s)' # 0 \/ (Dropped(s)' = Dropped(s) /\ Place(s)' = Place(s))
    <3>1. Dropped(s)' = Dropped(s) + 1 \/ Dropped(s)' = Dropped(s)
      BY <1>1, <2>2 DEF Dropped
    <3>2. Dropped(s) \in Nat
      BY <2>2 DEF Dropped
    <3>3. Dropped(s)' = Dropped(s) => Place(s)' = Place(s)
      BY <1>1, <2>3 DEF Place, Dropped
    <3> QED BY <3>1, <3>2, <3>3
  <2>9. Dropped(s)' = 0 => frame[s] = LogAt(q)
    BY <2>5, <2>6, <2>8 DEF FrameOK
  <2> QED BY <1>1, <2>6, <2>7, <2>9 DEF FrameOK, LogAt
<1> QED BY <1>1, <1>3, <1>4, Stutters DEF Follows, FramesOK

(* A session claims a slot: what is dispatched before is not for it.       *)
LEMMA OpenFindFollows ==
  ASSUME BridgeInv, BridgeInv', PlaceOK, OrderInv, FramesOK, NEW s \in Sessions, OpenFind(s)
  PROVE  Follows
<1>1. PICK i \in Sinks : /\ i \notin active
                         /\ stats' = [stats EXCEPT ![i] = ZeroStats]
                         /\ id' = [id EXCEPT ![s] = i]
  BY DEF OpenFind, ResetStats
<1>2. /\ sessPc[s] = "find" /\ sessPc' = [sessPc EXCEPT ![s] = "purge"]
      /\ joined' = [joined EXCEPT ![s] = Len(log)] /\ frame' = [frame EXCEPT ![s] = Last0(log)]
      /\ UNCHANGED <<bridge_stats, msgq, log>>
  BY DEF OpenFind, Goto, dispVars
<1>3. /\ sessPc'[s] = "purge" /\ id'[s] = i /\ joined'[s] = Len(log) /\ stats'[i] = ZeroStats
      /\ frame'[s] = Last0(log)
      /\ \A t \in Sessions \ {s} :
           sessPc'[t] = sessPc[t] /\ id'[t] = id[t] /\ joined'[t] = joined[t] /\ frame'[t] = frame[t]
      /\ \A j \in Sinks \ {i} : stats'[j] = stats[j]
  BY <1>1, <1>2 DEF BridgeInv, TypeInv, ThreadsOK, CountersOK
<1>4. ~Member(s) /\ Member(s)' /\ \A t \in Sessions \ {s} : Member(t)' <=> Member(t)
  BY <1>2, <1>3 DEF Member, Owns
<1>5. ASSUME NEW t \in Sessions, Member(t)' PROVE FrameOK(t)'
  <2>1. CASE t = s
    <3>1. Place(s)' = Len(log)
      BY <1>2, <1>3, LogTypes DEF Place, Taken, ZeroStats, SinkCounters
    <3>2. LogAt(Place(s))' = LogAt(Len(log))
      BY <1>2, <3>1 DEF LogAt
    <3> QED BY <1>3, <2>1, <3>2, LogTypes DEF FrameOK
  <2>2. CASE t # s
    <3>1. Member(t) /\ id[t] \in active /\ id[t] \in Sinks
      BY <1>4, <1>5, <2>2 DEF Member, BridgeInv, ExclusiveSinks, TypeInv, ThreadsOK
    <3>2. Place(t)' = Place(t) /\ Dropped(t)' = Dropped(t)
      BY <1>1, <1>3, <2>2, <3>1 DEF Place, Taken, Dropped
    <3> QED BY <1>2, <1>3, <2>2, <3>1, <3>2, SameFrame DEF FramesOK
  <2> QED BY <2>1, <2>2
<1>6. FanOut!Join(s)
  BY <1>2, <1>4 DEF FanOut!Join, Member
<1> QED BY <1>5, <1>6 DEF Follows, FramesOK, FanOut!Next

(* A session takes the oldest frame of its queue.                          *)
LEMMA TakeGetFollows ==
  ASSUME BridgeInv, PlaceOK, PlaceOK', OrderInv, FramesOK, NEW s \in Sessions, TakeGet(s)
  PROVE  Follows
<1> DEFINE i == id[s]
<1>1. /\ sessPc[s] = "take"
      /\ UNCHANGED <<bridge_stats, active, stats, id, joined, log, dispPc, dispIdx>>
  BY DEF TakeGet, dispVars
<1>2. Member(s) /\ i \in Sinks /\ SlotOK(s, i)
  BY <1>1 DEF Member, Owns, BridgeInv, TypeInv, ThreadsOK, SlotsInv
<1>3. PICK pc \in {"wait", "got"} : sessPc' = [sessPc EXCEPT ![s] = pc]
  BY DEF TakeGet, Goto
<1>4. sessPc'[s] = pc /\ \A t \in Sessions \ {s} : sessPc'[t] = sessPc[t]
  BY <1>3 DEF BridgeInv, TypeInv, ThreadsOK
<1>5. \A t \in Sessions : Member(t)' <=> Member(t)
  BY <1>1, <1>4 DEF Member, Owns
<1>6. CASE msgq[i] = <<>>
  <2>1. UNCHANGED <<msgq, frame>> /\ sessPc'[s] = "wait"
    BY <1>4, <1>6 DEF TakeGet, Goto, BridgeInv, TypeInv, ThreadsOK
  <2>2. \A t \in Sessions : Place(t)' = Place(t) /\ Dropped(t)' = Dropped(t)
    BY <1>1, <1>4, <2>1 DEF Place, Taken, Dropped
  <2> QED BY <1>1, <1>5, <2>1, <2>2, SameFrame, Stutters DEF Follows, FramesOK
<1>7. CASE msgq[i] # <<>>
  <2>1. /\ frame' = [frame EXCEPT ![s] = Head(msgq[i])] /\ sessPc'[s] = "got"
        /\ msgq' = [msgq EXCEPT ![i] = Tail(msgq[i])]
    BY <1>7 DEF TakeGet, Goto, BridgeInv, TypeInv, ThreadsOK
  <2>2. /\ frame'[s] = Head(msgq[i]) /\ \A t \in Sessions \ {s} : frame'[t] = frame[t]
        /\ frame[s] \in Nat
    BY <2>1 DEF BridgeInv, TypeInv, ThreadsOK
  <2>3. /\ msgq[i] \in Seq(Nat) /\ Len(msgq[i]) \in Nat \ {0} /\ Head(msgq[i]) = msgq[i][1]
        /\ 1 \in 1..Len(msgq[i])
    BY <1>2, <1>7 DEF BridgeInv, TypeInv, QueuesOK
  <2>4. Place(s) = Reached(i) - Len(msgq[i]) /\ Place(s) \in 0..Len(log)
    BY <1>2 DEF PlaceOK
  <2>5. Head(msgq[i]) = log[Place(s) + 1]
    BY <1>2, <2>3, <2>4 DEF SlotOK
  <2>6. Place(s)' = Place(s) + 1
    <3>1. stats[i].consumed \in Nat /\ joined[s] \in Nat /\ stats[i].dropped_oldest \in Nat
      BY <1>2, SlotTypes DEF BridgeInv, Member
    <3>2. Taken(s, i) = stats[i].consumed /\ Taken(s, i)' = stats[i].consumed + 1
      BY <1>1, <2>1 DEF Taken
    <3> QED BY <1>1, <3>1, <3>2 DEF Place
  <2>7. PICK q \in 0..Len(log) : q = Place(s)'
    BY <1>1, <1>2, <1>5 DEF PlaceOK
  <2>8. Place(s) < q /\ q # 0
    BY <2>4, <2>6, <2>7, LogTypes
  <2>9. frame'[s] = LogAt(q)
    BY <2>2, <2>5, <2>6, <2>7, <2>8 DEF LogAt
  <2>10. LogAt(q) \in (frame[s] + 1)..Last0(log)
    <3>1. LogAt(Place(s)) < LogAt(q) /\ frame[s] <= LogAt(Place(s))
      BY <1>2, <2>4, <2>7, <2>8 DEF OrderInv, FramesOK, FrameOK
    <3>2. LogAt(Place(s)) \in Nat /\ LogAt(q) \in Nat /\ LogAt(Len(log)) \in Nat
      BY <2>4, <2>7, LogTypes
    <3>3. q = Len(log) \/ LogAt(q) < LogAt(Len(log))
      BY <2>7, LogTypes DEF OrderInv
    <3> QED BY <2>2, <3>1, <3>2, <3>3, LogTypes
  <2>11. ASSUME NEW t \in Sessions, Member(t)' PROVE FrameOK(t)'
    <3>1. CASE t = s
      <4>1. LogAt(Place(s))' = LogAt(q)
        BY <1>1, <2>7 DEF LogAt
      <4> QED BY <2>7, <2>9, <3>1, <4>1, LogTypes DEF FrameOK
    <3>2. CASE t # s
      <4>1. Place(t)' = Place(t) /\ Dropped(t)' = Dropped(t)
        BY <1>1, <1>4, <3>2 DEF Place, Taken, Dropped
      <4> QED BY <1>1, <1>5, <2>2, <2>11, <3>2, <4>1, SameFrame DEF FramesOK
    <3> QED BY <3>1, <3>2
  <2>12. FanOut!Deliver(s)
    <3>1. frame' = [frame EXCEPT ![s] = LogAt(q)]
      BY <2>1, <2>2, <2>9
    <3> QED BY <1>1, <1>2, <1>5, <2>10, <3>1 DEF FanOut!Deliver, Member
  <2> QED BY <2>11, <2>12 DEF Follows, FramesOK, FanOut!Next
<1> QED BY <1>6, <1>7

(* A session leaves its slot.                                              *)
LEMMA CloseClearFollows ==
  ASSUME BridgeInv, FramesOK, NEW s \in Sessions, CloseClear(s)
  PROVE  Follows
<1>1. /\ sessPc[s] = "clear" /\ sessPc' = [sessPc EXCEPT ![s] = "drain"]
      /\ UNCHANGED <<bridge_stats, stats, id, frame, joined, log>>
  BY DEF CloseClear, Goto, dispVars
<1>2. sessPc'[s] = "drain" /\ \A t \in Sessions \ {s} : sessPc'[t] = sessPc[t]
  BY <1>1 DEF BridgeInv, TypeInv, ThreadsOK
<1>3. Member(s) /\ ~Member(s)' /\ \A t \in Sessions \ {s} : Member(t)' <=> Member(t)
  BY <1>1, <1>2 DEF Member, Owns
<1>4. \A t \in Sessions : Place(t)' = Place(t) /\ Dropped(t)' = Dropped(t)
  BY <1>1, <1>2 DEF Place, Taken, Dropped
<1>5. FanOut!Leave(s)
  BY <1>1, <1>3 DEF FanOut!Leave, Member
<1> QED BY <1>1, <1>3, <1>4, <1>5, SameFrame DEF Follows, FramesOK, FanOut!Next

(* The steps that concern no session's frames.                             *)
LEMMA QuietFollows ==
  ASSUME FramesOK, UNCHANGED <<frame, log>>, bridge_stats'.frames_in = bridge_stats.frames_in,
         \A s \in Sessions : (Member(s)' <=> Member(s))
         /\ (Member(s) => Place(s)' = Place(s) /\ Dropped(s)' = Dropped(s))
  PROVE  Follows
  BY SameFrame, Stutters DEF Follows, FramesOK

LEMMA StepFollows ==
  ASSUME BridgeInv, BridgeInv', PlaceOK, PlaceOK', OrderInv, FramesOK, Next
  PROVE  Follows
<1> USE DEF BridgeInv, TypeInv
<1>1. CASE Producer
  <2>1. /\ UNCHANGED <<stats, log, id, joined, sessPc, frame>>
        /\ \/ bridge_stats'.frames_in = bridge_stats.frames_in
           \/ bridge_stats'.frames_in = bridge_stats.frames_in + 1
    BY <1>1 DEF Producer, PublishRejected, Publish, PutIngest, PublishDropOldest, PublishRetry, sinkVars,
       sessVars, dispVars, CountersOK, BridgeCounters
  <2>2. \A s \in Sessions : (Member(s)' <=> Member(s)) /\ Place(s)' = Place(s) /\ Dropped(s)' = Dropped(s)
    BY <2>1 DEF Member, Owns, Place, Taken, Dropped
  <2>3. FramesOK'
    BY <2>1, <2>2, SameFrame DEF FramesOK
  <2>4. CASE bridge_stats'.frames_in = bridge_stats.frames_in
    BY <2>1, <2>2, <2>4, QuietFollows
  <2>5. CASE bridge_stats'.frames_in = bridge_stats.frames_in + 1
    <3>1. FanOut!Publish
      BY <2>1, <2>2, <2>5 DEF FanOut!Publish, Member
    <3> QED BY <2>3, <3>1 DEF Follows, FanOut!Next
  <2> QED BY <2>1, <2>4, <2>5
<1>2. CASE DispGet \/ DispFinish
  <2>1. UNCHANGED <<stats, log, id, joined, sessPc, frame>>
        /\ bridge_stats'.frames_in = bridge_stats.frames_in
    BY <1>2 DEF DispGet, DispFinish, sinkVars, sessVars, CountersOK, BridgeCounters
  <2> QED BY <2>1, QuietFollows DEF Member, Owns, Place, Taken, Dropped
<1>3. CASE DispPut
  <2>1. PICK i \in ActiveAhead :
          /\ dispIdx' = i
          /\ IF HasRoom(msgq[i], SinkDepth)
             THEN PutSink(i) /\ dispPc' = "count"
             ELSE dispPc' = "drop" /\ UNCHANGED <<msgq, sessPc, frame>>
    BY <1>3 DEF DispPut
  <2>2. /\ dispPc = "scan" /\ UNCHANGED <<active, stats, id, joined, log, bridge_stats>>
        /\ i \in active /\ i >= dispIdx
    BY <1>3, <2>1 DEF DispPut, ActiveAhead
  <2>3. CASE HasRoom(msgq[i], SinkDepth)
    BY <2>1, <2>2, <2>3, PutSinkFollows DEF Scanning, Behind
  <2>4. CASE ~HasRoom(msgq[i], SinkDepth)
    BY <2>1, <2>2, <2>4, QuietFollows DEF Member, Owns, Place, Taken, Dropped
  <2> QED BY <2>3, <2>4
<1>4. CASE DispRetry
  <2>1. /\ dispPc = "retry" /\ dispPc' = "count" /\ dispIdx \in active /\ PutSink(dispIdx)
        /\ UNCHANGED <<active, stats, id, joined, log, bridge_stats, dispIdx>>
    BY <1>4 DEF DispRetry, SlotsInv
  <2>2. Behind(dispIdx) = 1 /\ Scanning
    BY <2>1 DEF Behind, Scanning, ThreadsOK, Sinks
  <2> QED BY <2>1, <2>2, PutSinkFollows
<1>5. CASE DispCount
  <2>1. /\ UNCHANGED <<log, id, joined, sessPc, frame>> /\ dispIdx \in Sinks
        /\ stats' = [stats EXCEPT ![dispIdx]["queued"] = @ + 1]
        /\ bridge_stats'.frames_in = bridge_stats.frames_in
    BY <1>5 DEF DispCount, sessVars, ThreadsOK, CountersOK, BridgeCounters
  <2>2. \A i \in Sinks : /\ stats'[i].dropped_oldest = stats[i].dropped_oldest
                         /\ stats'[i].consumed = stats[i].consumed
    BY <2>1 DEF CountersOK, SinkCounters
  <2>3. \A s \in Sessions : Member(s)' <=> Member(s)
    BY <2>1 DEF Member, Owns
  <2>4. ASSUME NEW s \in Sessions, Member(s) PROVE Place(s)' = Place(s) /\ Dropped(s)' = Dropped(s)
    BY <2>1, <2>2, <2>4 DEF Place, Taken, Dropped, Member, ThreadsOK
  <2> QED BY <2>1, <2>3, <2>4, QuietFollows
<1>6. ASSUME NEW s \in Sessions, TakeCount(s) PROVE Follows
  <2>1. /\ UNCHANGED <<log, id, joined, frame, bridge_stats>> /\ sessPc[s] = "got"
        /\ sessPc' = [sessPc EXCEPT ![s] = "use"]
        /\ stats' = [stats EXCEPT ![id[s]]["consumed"] = @ + 1]
    BY <1>6 DEF TakeCount, Goto, dispVars
  <2>2. Owns(s) /\ Member(s) /\ id[s] \in Sinks
    BY <2>1 DEF Owns, Member, ThreadsOK
  <2>3. /\ stats'[id[s]].dropped_oldest = stats[id[s]].dropped_oldest
        /\ stats'[id[s]].consumed = stats[id[s]].consumed + 1
        /\ \A j \in Sinks \ {id[s]} : stats'[j] = stats[j]
    BY <2>1, <2>2 DEF CountersOK, SinkCounters
  <2>4. sessPc'[s] = "use" /\ \A t \in Sessions \ {s} : sessPc'[t] = sessPc[t]
    BY <2>1 DEF ThreadsOK
  <2>5. \A t \in Sessions : Member(t)' <=> Member(t)
    BY <2>1, <2>4 DEF Member, Owns
  <2>6. Taken(s, id[s])' = Taken(s, id[s])
    BY <2>1, <2>3, <2>4 DEF Taken
  <2>7. ASSUME NEW t \in Sessions, Member(t) PROVE Place(t)' = Place(t) /\ Dropped(t)' = Dropped(t)
    <3>1. CASE t = s
      BY <2>1, <2>3, <2>6, <3>1 DEF Place, Dropped
    <3>2. CASE t # s
      <4>1. id[t] \in Sinks \ {id[s]}
        BY <2>2, <2>7, <3>2 DEF ExclusiveSinks, Member, ThreadsOK
      <4> QED BY <2>1, <2>3, <2>4, <3>2, <4>1 DEF Place, Taken, Dropped
    <3> QED BY <3>1, <3>2
  <2> QED BY <2>1, <2>5, <2>7, QuietFollows
<1>7. ASSUME NEW s \in Sessions,
             \/ OpenCall(s) \/ OpenLock(s) \/ OpenFull(s) \/ OpenPurge(s)
             \/ TakeCheck(s) \/ TakeTimeout(s) \/ CloseCall(s) \/ CloseLock(s) \/ ClosePurge(s)
      PROVE  Follows
  <2>1. /\ UNCHANGED <<stats, log, joined, frame, bridge_stats>>
        /\ UNCHANGED id \/ (id' = [id EXCEPT ![s] = -1] /\ sessPc[s] = "drain")
    BY <1>7 DEF OpenCall, OpenLock, OpenFull, OpenPurge, TakeCheck, TakeTimeout, CloseCall, CloseLock,
       ClosePurge, LockSinks, sinkVars, dispVars
  <2>2. \A t \in Sessions \ {s} : sessPc'[t] = sessPc[t] /\ id'[t] = id[t]
    BY <1>7, <2>1 DEF OpenCall, OpenLock, OpenFull, OpenPurge, TakeCheck, TakeTimeout, CloseCall,
       CloseLock, ClosePurge, LockSinks, Goto, ThreadsOK
  <2>3. \/ sessPc[s] \in {"none", "open", "find", "drain"} /\ sessPc'[s] \in {"none", "open", "find"}
        \/ /\ sessPc[s] \in {"purge", "use", "wait", "close"}
           /\ sessPc'[s] \in {"take", "use", "close", "clear"}
    BY <1>7 DEF OpenCall, OpenLock, OpenFull, OpenPurge, TakeCheck, TakeTimeout, CloseCall,
       CloseLock, ClosePurge, LockSinks, Goto, ThreadsOK
  <2>4. \A t \in Sessions : Member(t)' <=> Member(t)
    BY <2>1, <2>2, <2>3 DEF Member, Owns
  <2>5. \A t \in Sessions : Member(t) => Place(t)' = Place(t) /\ Dropped(t)' = Dropped(t)
    BY <2>1, <2>2, <2>3 DEF Place, Taken, Dropped, Member
  <2> QED BY <2>1, <2>4, <2>5, QuietFollows
<1> QED
  BY <1>1, <1>2, <1>3, <1>4, <1>5, <1>6, <1>7, DispLockFollows, DispDropFollows, OpenFindFollows,
     TakeGetFollows, CloseClearFollows DEF Next, Dispatcher, Session, OpenSearch
LEMMA FramesInit == Init => FramesOK /\ FanOut!Init
  BY DEF Init, FramesOK, Member, Owns, FanOut!Init, Last0, BridgeCounters

LEMMA FramesStep ==
  BridgeInv /\ BridgeInv' /\ PlaceOK /\ PlaceOK' /\ OrderInv /\ FramesOK /\ [Next]_vars => Follows
<1>1. ASSUME FramesOK, UNCHANGED vars PROVE Follows
  <2>1. UNCHANGED <<bridge_stats, stats, log, id, joined, sessPc, frame>>
    BY <1>1 DEF vars, sinkVars, dispVars, sessVars
  <2> QED BY <1>1, <2>1, QuietFollows DEF Member, Owns, Place, Taken, Dropped
<1> QED BY <1>1, StepFollows

(* The bridge implements LossyFanOut: whatever the queues, the mutex and   *)
(* the priorities do, frames reach the sinks in the order they were        *)
(* accepted, none twice, and nmea_bridge_sink_take never gives a session a *)
(* frame dispatched before its own nmea_bridge_sink_open.                  *)
THEOREM BridgeImplementsFanOut == Spec => ImplementsFanOut
<1>1. FramesOK /\ Follows => FramesOK' /\ [FanOut!Next]_(FanOut!vars)
  BY DEF Follows
<1> QED
  BY <1>1, BridgeInvInit, BridgeInvStep, PlaceIs, OrderInvInit, OrderInvStep, FramesInit, FramesStep,
     PTL DEF Spec, ImplementsFanOut, FanOut!Spec

-----------------------------------------------------------------------------
(* With a slot for every session, a session that looks for one finds one.  *)
LEMMA SlotForAll ==
  ASSUME BridgeInv, IsFiniteSet(Sessions), Cardinality(Sessions) <= MaxSinks,
         NEW s \in Sessions, ~Owns(s), active = Sinks
  PROVE  FALSE
<1> DEFINE owner == [i \in Sinks |-> CHOOSE t \in Sessions : Owns(t) /\ id[t] = i]
<1>1. \A i \in Sinks : owner[i] \in Sessions /\ Owns(owner[i]) /\ id[owner[i]] = i
  BY DEF BridgeInv, SlotsInv
<1> HIDE DEF owner
<1>2. owner \in [Sinks -> Sessions \ {s}]
  <2>1. owner = [i \in Sinks |-> owner[i]]
    BY DEF owner
  <2> QED BY <1>1, <2>1
<1>3. IsFiniteSet(Sinks) /\ Cardinality(Sinks) = MaxSinks
  <2>1. MaxSinks \in Nat \ {0}
    BY SizesAssumption
  <2>2. /\ IsFiniteSet(0..(MaxSinks - 1))
        /\ Cardinality(0..(MaxSinks - 1)) =
             IF 0 > MaxSinks - 1 THEN 0 ELSE (MaxSinks - 1) - 0 + 1
    BY <2>1, FS_Interval
  <2> QED BY <2>1, <2>2 DEF Sinks
<1>4. /\ IsFiniteSet(Sessions \ {s})
      /\ Cardinality(Sessions \ {s}) = Cardinality(Sessions) - 1
  BY FS_RemoveElement
<1>5. Cardinality(Sessions \ {s}) < Cardinality(Sinks)
  <2>1. Cardinality(Sessions) \in Nat
    BY FS_CardinalityType
  <2>2. MaxSinks \in Nat
    BY SizesAssumption
  <2> QED BY <1>3, <1>4, <2>1, <2>2
<1>6. PICK i \in Sinks, j \in Sinks : i # j /\ owner[i] = owner[j]
  BY <1>2, <1>3, <1>4, <1>5, FS_PigeonHole
<1> QED BY <1>1, <1>6

(* nmea_bridge_sink_open never answers -ENOMEM when there are no more      *)
(* sessions than slots, which the BUILD_ASSERT of nmea_bridge.c promises.  *)
THEOREM OpenSucceeds ==
  ASSUME IsFiniteSet(Sessions), Cardinality(Sessions) <= MaxSinks
  PROVE  Spec => OpenNeverFails
<1>1. ASSUME BridgeInv, Next, NEW s \in Sessions
      PROVE  ~(sessPc[s] = "find" /\ sessPc'[s] = "none")
  <2> SUFFICES ASSUME sessPc[s] = "find", sessPc'[s] = "none" PROVE FALSE
    OBVIOUS
  <2>1. ~Producer
    BY DEF Producer, PublishRejected, Publish, PublishDropOldest, PublishRetry, sessVars
  <2>2. ~Dispatcher
    <3>1. ASSUME NEW i, PutSink(i) PROVE FALSE
      <4>1. UNCHANGED sessPc \/ \E t \in Sessions : sessPc' = [sessPc EXCEPT ![t] = "got"]
        BY <3>1 DEF PutSink, Waiters
      <4>2. CASE UNCHANGED sessPc
        BY <4>2
      <4>3. ASSUME NEW t \in Sessions, sessPc' = [sessPc EXCEPT ![t] = "got"] PROVE FALSE
        BY <4>3 DEF BridgeInv, TypeInv, ThreadsOK
      <4> QED BY <4>1, <4>2, <4>3
    <3> QED
      BY <3>1 DEF Dispatcher, DispGet, DispLock, DispPut, DispDropOldest, DispRetry, DispCount,
         DispFinish, sessVars
  <2>3. PICK t \in Sessions : Session(t)
    BY <1>1, <2>1, <2>2 DEF Next
  <2>4. \E pc : sessPc' = [sessPc EXCEPT ![t] = pc]
    BY <2>3 DEF Session, OpenSearch, OpenCall, OpenLock, OpenFind, OpenFull, OpenPurge, TakeCheck, TakeGet,
       TakeTimeout, TakeCount, CloseCall, CloseLock, CloseClear, ClosePurge, LockSinks, Goto
  <2>5. t = s
    BY <2>4 DEF BridgeInv, TypeInv, ThreadsOK
  <2>6. CASE OpenFind(s)
    BY <2>6 DEF OpenFind, Goto, BridgeInv, TypeInv, ThreadsOK
  <2>7. OpenFind(s) \/ OpenFull(s)
    BY <2>3, <2>5 DEF Session, OpenSearch, OpenCall, OpenLock, OpenPurge, TakeCheck, TakeGet, TakeTimeout,
       TakeCount, CloseCall, CloseLock, CloseClear, ClosePurge, LockSinks
  <2> QED BY <1>1, <2>6, <2>7, SlotForAll DEF OpenFull, Owns
<1>2. BridgeInv /\ [Next]_vars =>
        [\A s \in Sessions : ~(sessPc[s] = "find" /\ sessPc'[s] = "none")]_vars
  BY <1>1
<1> QED BY <1>2, BridgeInvariant, PTL DEF Spec, OpenNeverFails

-----------------------------------------------------------------------------
(* What the loss counters say while they are zero.                         *)

(* No frame was dropped before the dispatcher: the log is 1, 2, 3...       *)
NumberInv ==
  bridge_stats.ingest_dropped_oldest = 0 =>
    /\ \A k \in 1..Len(log) : log[k] = k
    /\ dispPc = "lock" => dispFrame = Len(log) + 1

(* The bridge's counter lags behind the counter of the sink by the drops   *)
(* the dispatcher has not added yet.                                       *)
DropsInv ==
  bridge_stats.sink_dropped_oldest = 0 =>
    /\ \A i \in Sinks : \/ stats[i].dropped_oldest = 0
                        \/ dispPc \in {"retry", "count"} /\ i = dispIdx
    /\ dispPc \in {"drop", "retry", "count"} => before = 0

LEMMA NumberInvInit == Init => NumberInv /\ DropsInv
  BY DEF Init, NumberInv, DropsInv, ZeroStats, SinkCounters

LEMMA NumberInvStep == BridgeInv /\ NumberInv /\ [Next]_vars => NumberInv'
<1> SUFFICES ASSUME BridgeInv, NumberInv, [Next]_vars PROVE NumberInv'
  OBVIOUS
<1> USE DEF BridgeInv, TypeInv
<1>0. /\ Len(log) \in Nat /\ Len(ingest) \in Nat /\ bridge_stats.frames_in \in Nat /\ Settled \in Int
      /\ bridge_stats.ingest_dropped_oldest \in Nat /\ log \in Seq(Nat)
  BY DEF QueuesOK, CountersOK, BridgeCounters, Settled
<1>1. CASE \/ UNCHANGED vars
           \/ \E len \in Lens : PublishRejected(len)
           \/ DispPut \/ DispDropOldest \/ DispRetry \/ DispCount \/ DispFinish
           \/ \E s \in Sessions : Session(s)
  <2>1. /\ UNCHANGED <<log, dispFrame>>
        /\ dispPc' = dispPc \/ (dispPc' # "lock" /\ dispPc # "lock")
    BY <1>1 DEF vars, prodVars, dispVars, PublishRejected, DispPut, DispDropOldest, DispRetry, DispCount,
       DispFinish, Session, OpenSearch, OpenCall, OpenLock, OpenFind, OpenFull, OpenPurge, TakeCheck, TakeGet,
       TakeTimeout, TakeCount, CloseCall, CloseLock, CloseClear, ClosePurge, LockSinks
  <2>2. bridge_stats'.ingest_dropped_oldest = bridge_stats.ingest_dropped_oldest
    BY <1>1 DEF vars, PublishRejected, DispPut, DispDropOldest, DispRetry, DispCount, CountersOK,
       BridgeCounters,
       DispFinish, Session, OpenSearch, OpenCall, OpenLock, OpenFind, OpenFull, OpenPurge, TakeCheck, TakeGet,
       TakeTimeout, TakeCount, CloseCall, CloseLock, CloseClear, ClosePurge, LockSinks
  <2> QED BY <2>1, <2>2 DEF NumberInv
<1>2. ASSUME NEW f, PutIngest(f), UNCHANGED log, f = Settled + 1,
             bridge_stats'.ingest_dropped_oldest = bridge_stats.ingest_dropped_oldest
      PROVE  NumberInv'
  <2>1. CASE dispPc = "wait"
    <3>1. dispPc' = "lock" /\ dispFrame' = f /\ ingest = <<>> /\ InHand = 0
      BY <1>2, <2>1 DEF PutIngest, IngestInv, InHand
    <3>2. bridge_stats.ingest_dropped_oldest = 0 => Settled = Len(log)
      <4>1. Settled = Len(log) + InHand + Len(ingest) + bridge_stats.ingest_dropped_oldest
        BY DEF IngestInv
      <4>2. Len(ingest) = 0
        BY <3>1
      <4> QED BY <1>0, <3>1, <4>1, <4>2
    <3> QED BY <1>2, <3>1, <3>2 DEF NumberInv
  <2>2. CASE dispPc # "wait"
    BY <1>2, <2>2 DEF PutIngest, NumberInv
  <2> QED BY <2>1, <2>2
<1>3. ASSUME NEW len \in Lens, Publish(len) PROVE NumberInv'
  <2>1. /\ UNCHANGED log /\ Settled = bridge_stats.frames_in
        /\ bridge_stats'.ingest_dropped_oldest = bridge_stats.ingest_dropped_oldest
        /\ PutIngest(bridge_stats.frames_in + 1) \/ UNCHANGED <<dispPc, dispFrame>>
    BY <1>3 DEF Publish, CountersOK, BridgeCounters, Settled
  <2> QED BY <1>2, <2>1 DEF NumberInv
<1>4. CASE PublishDropOldest
  <2>1. bridge_stats'.ingest_dropped_oldest = bridge_stats.ingest_dropped_oldest + 1
    BY <1>4 DEF PublishDropOldest, CountersOK, BridgeCounters
  <2> QED BY <1>0, <2>1 DEF NumberInv
<1>5. CASE PublishRetry
  <2>1. HasRoom(ingest, IngestDepth) /\ UNCHANGED <<bridge_stats, log>>
        /\ PutIngest(bridge_stats.frames_in) /\ prodPc = "retry"
    BY <1>5 DEF PublishRetry, IngestInv
  <2>2. bridge_stats.frames_in = Settled + 1
    BY <1>0, <2>1 DEF Settled
  <2> QED BY <1>2, <2>1, <2>2
<1>6. CASE DispGet
  <2>1. dispPc = "get" /\ UNCHANGED <<bridge_stats, log>>
    BY <1>6 DEF DispGet
  <2>2. CASE ingest = <<>>
    BY <1>6, <2>1, <2>2 DEF DispGet, NumberInv
  <2>3. CASE ingest # <<>>
    <3>1. dispPc' = "lock" /\ dispFrame' = Head(ingest)
      BY <1>6, <2>3 DEF DispGet
    <3>2. Head(ingest) = ingest[1] /\ 1 \in 1..Len(ingest)
      BY <2>3 DEF QueuesOK
    <3>3. /\ ingest[1] = Settled - Len(ingest) + 1
          /\ Settled = Len(log) + InHand + Len(ingest) + bridge_stats.ingest_dropped_oldest
      BY <3>2 DEF IngestInv
    <3>4. InHand = 0
      BY <2>1 DEF InHand
    <3>5. bridge_stats.ingest_dropped_oldest = 0 => dispFrame' = Len(log) + 1
      BY <1>0, <3>1, <3>2, <3>3, <3>4
    <3> QED BY <2>1, <3>1, <3>5 DEF NumberInv
  <2> QED BY <2>2, <2>3
<1>7. CASE DispLock
  <2>1. /\ dispPc = "lock" /\ dispPc' = "scan" /\ log' = Append(log, dispFrame)
        /\ UNCHANGED bridge_stats /\ dispFrame \in Nat
    BY <1>7 DEF DispLock, ThreadsOK
  <2>2. /\ Len(log') = Len(log) + 1 /\ log'[Len(log) + 1] = dispFrame
        /\ \A k \in 1..Len(log) : log'[k] = log[k]
    BY <1>0, <2>1
  <2>3. \A k \in 1..Len(log') : k \in 1..Len(log) \/ k = Len(log) + 1
    BY <1>0, <2>2
  <2> QED BY <2>1, <2>2, <2>3 DEF NumberInv
<1> QED BY <1>1, <1>3, <1>4, <1>5, <1>6, <1>7 DEF Next, Producer, Dispatcher

LEMMA DropsInvStep == BridgeInv /\ DropsInv /\ [Next]_vars => DropsInv'
<1> SUFFICES ASSUME BridgeInv, DropsInv, [Next]_vars PROVE DropsInv'
  OBVIOUS
<1> USE DEF BridgeInv, TypeInv
<1>0. /\ \A i \in Sinks : stats[i].dropped_oldest \in Nat
      /\ bridge_stats.sink_dropped_oldest \in Nat /\ dispIdx \in Int /\ before \in Nat
  BY DEF CountersOK, BridgeCounters, SinkCounters, ThreadsOK
<1>1. CASE \/ UNCHANGED vars \/ Producer \/ DispGet \/ DispLock
           \/ \E s \in Sessions : Session(s) /\ ~OpenFind(s) /\ ~TakeCount(s)
  <2>1. /\ UNCHANGED <<stats, before, dispIdx>>
           \/ (UNCHANGED stats /\ dispPc \in {"get", "wait", "lock"} /\ dispPc' \in {"wait", "lock", "scan"})
        /\ \/ dispPc' = dispPc
           \/ dispPc \in {"get", "wait", "lock"} /\ dispPc' \in {"wait", "lock", "scan"}
    BY <1>1 DEF vars, sinkVars, dispVars, Producer, PublishRejected, Publish, PublishDropOldest,
       PublishRetry, PutIngest, DispGet, DispLock, Session, OpenSearch, OpenCall, OpenLock, OpenFull, OpenPurge,
       TakeCheck, TakeGet, TakeTimeout, CloseCall, CloseLock, CloseClear, ClosePurge, LockSinks
  <2>2. bridge_stats'.sink_dropped_oldest = bridge_stats.sink_dropped_oldest
    BY <1>1 DEF vars, Producer, PublishRejected, Publish, PublishDropOldest, PublishRetry, DispGet, DispLock,
       CountersOK, BridgeCounters, Session, OpenSearch, OpenCall, OpenLock, OpenFull, OpenPurge,
       TakeCheck, TakeGet, TakeTimeout, CloseCall, CloseLock, CloseClear, ClosePurge, LockSinks
  <2> QED BY <2>1, <2>2 DEF DropsInv
<1>2. CASE DispPut
  <2>1. /\ dispPc = "scan" /\ dispPc' \in {"count", "drop"} /\ dispIdx' \in Sinks
        /\ before' = stats[dispIdx'].dropped_oldest /\ UNCHANGED <<stats, bridge_stats>>
    BY <1>2 DEF DispPut, ActiveAhead, ThreadsOK
  <2> QED BY <2>1 DEF DropsInv
<1>3. CASE DispDropOldest
  <2>1. /\ dispPc = "drop" /\ dispPc' = "retry" /\ UNCHANGED <<bridge_stats, dispIdx, before>>
        /\ stats' = [stats EXCEPT ![dispIdx]["dropped_oldest"] = @ + 1]
    BY <1>3 DEF DispDropOldest, CountDrop
  <2>2. \A i \in Sinks : i = dispIdx \/ stats'[i] = stats[i]
    BY <2>1 DEF CountersOK
  <2> QED BY <2>1, <2>2 DEF DropsInv
<1>4. CASE DispRetry
  <2>1. dispPc = "retry" /\ dispPc' = "count" /\ UNCHANGED <<bridge_stats, dispIdx, before, stats>>
    BY <1>4 DEF DispRetry, SlotsInv
  <2> QED BY <2>1 DEF DropsInv
<1>5. CASE DispCount
  <2>1. /\ dispPc = "count" /\ dispPc' = "scan" /\ dispIdx \in Sinks
        /\ stats' = [stats EXCEPT ![dispIdx]["queued"] = @ + 1]
        /\ bridge_stats' = [bridge_stats EXCEPT
             !["sink_dropped_oldest"] = @ + stats[dispIdx].dropped_oldest - before]
    BY <1>5 DEF DispCount, ThreadsOK
  <2>2. \A i \in Sinks : stats'[i].dropped_oldest = stats[i].dropped_oldest
    BY <2>1 DEF CountersOK, SinkCounters
  <2>3. bridge_stats'.sink_dropped_oldest
          = bridge_stats.sink_dropped_oldest + stats[dispIdx].dropped_oldest - before
    BY <2>1 DEF CountersOK, BridgeCounters
  <2>4. before <= stats[dispIdx].dropped_oldest
    BY <2>1 DEF BeforeOK
  <2>5. ASSUME bridge_stats'.sink_dropped_oldest = 0
        PROVE  bridge_stats.sink_dropped_oldest = 0 /\ stats[dispIdx].dropped_oldest = before
    BY <1>0, <2>1, <2>3, <2>4, <2>5
  <2>6. ASSUME bridge_stats'.sink_dropped_oldest = 0, NEW i \in Sinks
        PROVE  stats[i].dropped_oldest = 0
    BY <2>1, <2>5, <2>6 DEF DropsInv
  <2> QED BY <2>1, <2>2, <2>6 DEF DropsInv
<1>6. CASE DispFinish
  <2>1. /\ dispPc = "scan" /\ dispPc' = "get" /\ UNCHANGED stats
        /\ bridge_stats'.sink_dropped_oldest = bridge_stats.sink_dropped_oldest
    BY <1>6 DEF DispFinish, sinkVars, CountersOK, BridgeCounters
  <2> QED BY <2>1 DEF DropsInv
<1>7. ASSUME NEW s \in Sessions, OpenFind(s) PROVE DropsInv'
  <2>1. PICK i \in Sinks : stats' = [stats EXCEPT ![i] = ZeroStats]
    BY <1>7 DEF OpenFind, ResetStats
  <2>2. UNCHANGED <<bridge_stats, dispPc, dispIdx, before>>
    BY <1>7 DEF OpenFind, dispVars
  <2>3. stats'[i].dropped_oldest = 0 /\ \A j \in Sinks \ {i} : stats'[j] = stats[j]
    BY <2>1 DEF CountersOK, ZeroStats, SinkCounters
  <2> QED BY <2>2, <2>3 DEF DropsInv
<1>8. ASSUME NEW s \in Sessions, TakeCount(s) PROVE DropsInv'
  <2>1. /\ UNCHANGED <<bridge_stats, dispPc, dispIdx, before>> /\ id[s] \in Sinks
        /\ stats' = [stats EXCEPT ![id[s]]["consumed"] = @ + 1]
    BY <1>8 DEF TakeCount, dispVars, ThreadsOK, Owns
  <2>2. \A i \in Sinks : stats'[i].dropped_oldest = stats[i].dropped_oldest
    BY <2>1 DEF CountersOK, SinkCounters
  <2> QED BY <2>1, <2>2 DEF DropsInv
<1> QED BY <1>1, <1>2, <1>3, <1>4, <1>5, <1>6, <1>7, <1>8 DEF Next, Dispatcher

-----------------------------------------------------------------------------
(* Without a drop nothing is missing.                                      *)

(* What is on its way to session s, the oldest frame first.                *)
Coming(s) == msgq[id[s]]
               \o (IF dispPc = "lock" \/ Behind(id[s]) = 1 THEN <<dispFrame>> ELSE <<>>)
               \o ingest

Complete ==
  bridge_stats.ingest_dropped_oldest + bridge_stats.sink_dropped_oldest = 0 /\ prodPc = "idle" =>
    \A s \in Sessions :
      Owns(s) /\ sessPc[s] \notin {"purge", "drain"} /\ dispPc \notin {"retry", "count"} =>
        Coming(s) = [k \in 1..(bridge_stats.frames_in - frame[s]) |-> frame[s] + k]

LEMMA JoinConsecutive ==
  ASSUME NEW a \in Nat, NEW q \in Seq(Nat), NEW r \in Seq(Nat),
         \A k \in 1..Len(q) : q[k] = a + k, \A k \in 1..Len(r) : r[k] = a + Len(q) + k
  PROVE  /\ q \o r \in Seq(Nat) /\ Len(q \o r) = Len(q) + Len(r)
         /\ \A k \in 1..Len(q \o r) : (q \o r)[k] = a + k
<1>1. /\ q \o r \in Seq(Nat) /\ Len(q \o r) = Len(q) + Len(r) /\ Len(q) \in Nat /\ Len(r) \in Nat
      /\ \A k \in 1..(Len(q) + Len(r)) : (q \o r)[k] = IF k <= Len(q) THEN q[k] ELSE r[k - Len(q)]
  BY ConcatProperties, LenProperties
<1>2. ASSUME NEW k \in 1..(Len(q) + Len(r)) PROVE (q \o r)[k] = a + k
  <2>1. CASE k <= Len(q)
    BY <1>1, <2>1
  <2>2. CASE k > Len(q)
    <3>1. k - Len(q) \in 1..Len(r) /\ ~(k <= Len(q)) /\ a + Len(q) + (k - Len(q)) = a + k
      BY <1>1, <2>2
    <3> QED BY <1>1, <3>1
  <2> QED BY <1>1, <2>1, <2>2
<1> QED BY <1>1, <1>2

LEMMA ConsecutiveIs ==
  ASSUME NEW a \in Nat, NEW n \in Nat, NEW q \in Seq(Nat), Len(q) = n, \A k \in 1..n : q[k] = a + k
  PROVE  q = [k \in 1..n |-> a + k]
<1>1. q \in [1..n -> Nat]
  BY LenProperties
<1> QED BY <1>1

LEMMA OneFrame ==
  ASSUME NEW f \in Nat
  PROVE  <<f>> \in Seq(Nat) /\ Len(<<f>>) = 1 /\ <<f>>[1] = f
  OBVIOUS

LEMMA FollowsFrames == Follows => FramesOK'
  BY DEF Follows

(* Where the frames on their way to a session come from, by their ranks.   *)
LEMMA CompleteIs == BridgeInv /\ PlaceOK /\ FramesOK /\ NumberInv /\ DropsInv => Complete
<1> SUFFICES ASSUME BridgeInv, PlaceOK, FramesOK, NumberInv, DropsInv, prodPc = "idle",
                    bridge_stats.ingest_dropped_oldest + bridge_stats.sink_dropped_oldest = 0,
                    NEW s \in Sessions, Owns(s), sessPc[s] \notin {"purge", "drain"},
                    dispPc \notin {"retry", "count"}
             PROVE  Coming(s) = [k \in 1..(bridge_stats.frames_in - frame[s]) |-> frame[s] + k]
  BY DEF Complete
<1> DEFINE i == id[s]
           q == msgq[i]
           inHand == IF dispPc = "lock" \/ Behind(i) = 1 THEN <<dispFrame>> ELSE <<>>
<1>1. bridge_stats.ingest_dropped_oldest = 0 /\ bridge_stats.sink_dropped_oldest = 0
      /\ bridge_stats.frames_in \in Nat
  BY DEF BridgeInv, TypeInv, CountersOK, BridgeCounters
<1>2. Member(s) /\ i \in Sinks /\ SlotOK(s, i) /\ TypeInv
  BY DEF Member, BridgeInv, TypeInv, ThreadsOK, SlotsInv
<1>3. /\ q \in Seq(Nat) /\ Len(q) \in Nat /\ Len(log) \in Nat /\ log \in Seq(Nat) /\ Reached(i) \in Int
      /\ ingest \in Seq(Nat) /\ Len(ingest) \in Nat /\ dispFrame \in Nat
  BY <1>2, SlotTypes DEF TypeInv, QueuesOK, ThreadsOK
<1>4. /\ \A k \in 1..Len(log) : log[k] = k
      /\ dispPc = "lock" => dispFrame = Len(log) + 1
  BY <1>1 DEF NumberInv
<1>5. PICK a \in 0..Len(log) : a = Place(s)
  BY <1>2 DEF PlaceOK
<1>6. a = Reached(i) - Len(q) /\ a \in Nat
  BY <1>2, <1>3, <1>5 DEF PlaceOK
<1>7. frame[s] = a
  <2>1. Dropped(s) = 0
    BY <1>1, <1>2 DEF DropsInv, Dropped
  <2>2. frame[s] = LogAt(a)
    BY <1>2, <1>5, <2>1 DEF FramesOK, FrameOK
  <2>3. a = 0 \/ (a # 0 /\ a \in 1..Len(log))
    BY <1>3, <1>5
  <2> QED BY <1>4, <2>2, <2>3 DEF LogAt
<1>8. \A k \in 1..Len(q) : q[k] = a + k
  <2>1. Reached(i) <= Len(log)
    BY <1>3 DEF Reached
  <2> SUFFICES ASSUME NEW k \in 1..Len(q) PROVE q[k] = a + k
    OBVIOUS
  <2>2. q[k] = log[Reached(i) - Len(q) + k]
    BY <1>2 DEF SlotOK
  <2>3. a + k \in 1..Len(log)
    BY <1>3, <1>5, <1>6, <2>1, SMTT(30)
  <2> QED BY <1>4, <1>6, <2>2, <2>3
<1>9. /\ bridge_stats.frames_in = Len(log) + InHand + Len(ingest)
      /\ \A k \in 1..Len(ingest) : ingest[k] = bridge_stats.frames_in - Len(ingest) + k
  <2>1. Settled = bridge_stats.frames_in
    BY DEF Settled
  <2>2. InHand \in Nat
    BY DEF InHand
  <2>3. bridge_stats.frames_in = Len(log) + InHand + Len(ingest) + bridge_stats.ingest_dropped_oldest
    BY <2>1 DEF BridgeInv, IngestInv
  <2> QED BY <1>1, <1>3, <2>1, <2>2, <2>3 DEF BridgeInv, IngestInv
<1>10. /\ inHand \in Seq(Nat) /\ Len(inHand) \in {0, 1}
       /\ \A k \in 1..Len(inHand) : inHand[k] = a + Len(q) + k
       /\ a + Len(q) + Len(inHand) = Len(log) + InHand
  <2>1. CASE Behind(i) = 1
    <3>1. Scanning /\ dispPc # "lock"
      BY <2>1 DEF Behind, Scanning
    <3>2. dispFrame = log[Len(log)] /\ log # <<>>
      BY <3>1 DEF BridgeInv, SlotsInv
    <3>3. Len(log) \in 1..Len(log)
      BY <1>3, <3>2
    <3>4. dispFrame = Len(log) /\ Reached(i) = Len(log) - 1
      BY <1>4, <2>1, <3>2, <3>3 DEF Reached
    <3>5. inHand = <<dispFrame>> /\ InHand = 0
      BY <2>1, <3>1 DEF InHand
    <3>6. a + Len(q) + 1 = Len(log) /\ a + Len(q) + 1 = Len(log) + InHand
      BY <1>3, <1>5, <1>6, <3>4, <3>5
    <3>7. inHand \in Seq(Nat) /\ Len(inHand) = 1 /\ inHand[1] = a + Len(q) + 1
      BY <1>3, <3>4, <3>5, <3>6, OneFrame
    <3> HIDE DEF inHand
    <3> QED BY <3>6, <3>7
  <2>2. CASE Behind(i) # 1 /\ dispPc = "lock"
    <3>1. inHand = <<dispFrame>> /\ InHand = 1 /\ dispFrame = Len(log) + 1 /\ Reached(i) = Len(log)
      BY <1>4, <2>2 DEF InHand, Reached
    <3>2. a + Len(q) + 1 = Len(log) + InHand /\ a + Len(q) + 1 = dispFrame
      BY <1>3, <1>5, <1>6, <3>1
    <3>3. inHand \in Seq(Nat) /\ Len(inHand) = 1 /\ inHand[1] = a + Len(q) + 1
      BY <1>3, <3>1, <3>2, OneFrame
    <3> HIDE DEF inHand
    <3> QED BY <3>2, <3>3
  <2>3. CASE Behind(i) # 1 /\ dispPc # "lock"
    <3>1. inHand = <<>> /\ InHand = 0 /\ Reached(i) = Len(log)
      BY <2>3 DEF InHand, Reached
    <3>2. a + Len(q) + 0 = Len(log) + InHand
      BY <1>3, <1>5, <1>6, <3>1
    <3>3. inHand \in Seq(Nat) /\ Len(inHand) = 0
      BY <3>1, EmptySeq
    <3> HIDE DEF inHand
    <3> QED BY <3>2, <3>3
  <2> QED BY <2>1, <2>2, <2>3
<1> HIDE DEF q, inHand
<1>11. /\ q \o inHand \in Seq(Nat) /\ Len(q \o inHand) = Len(q) + Len(inHand)
       /\ \A k \in 1..Len(q \o inHand) : (q \o inHand)[k] = a + k
  BY <1>3, <1>6, <1>8, <1>10, JoinConsecutive
<1>12. \A k \in 1..Len(ingest) : ingest[k] = a + Len(q \o inHand) + k
  <2>1. InHand \in Nat
    BY DEF InHand
  <2>2. a + Len(q \o inHand) = bridge_stats.frames_in - Len(ingest)
    BY <1>1, <1>3, <1>5, <1>9, <1>10, <1>11, <2>1
  <2> QED BY <1>9, <2>2
<1>13. /\ (q \o inHand) \o ingest \in Seq(Nat)
       /\ Len((q \o inHand) \o ingest) = bridge_stats.frames_in - a
       /\ \A k \in 1..Len((q \o inHand) \o ingest) : ((q \o inHand) \o ingest)[k] = a + k
  <2>1. /\ (q \o inHand) \o ingest \in Seq(Nat)
        /\ Len((q \o inHand) \o ingest) = Len(q \o inHand) + Len(ingest)
        /\ \A k \in 1..Len((q \o inHand) \o ingest) : ((q \o inHand) \o ingest)[k] = a + k
    BY <1>3, <1>6, <1>11, <1>12, JoinConsecutive, ZenonT(30)
  <2>2. InHand \in Nat
    BY DEF InHand
  <2>3. Len(q \o inHand) + Len(ingest) = bridge_stats.frames_in - a
    BY <1>1, <1>3, <1>5, <1>9, <1>10, <1>11, <2>2, SMTT(30)
  <2> QED BY <2>1, <2>3
<1>14. bridge_stats.frames_in - a \in Nat
  BY <1>13, LenProperties
<1>15. (q \o inHand) \o ingest = [k \in 1..(bridge_stats.frames_in - a) |-> a + k]
  BY <1>6, <1>13, <1>14, ConsecutiveIs
<1> QED BY <1>7, <1>15 DEF Coming, q, inHand

(* While neither loss counter of the bridge has moved, what a session has  *)
(* still to take, in its queue, in the dispatcher's hands and in the       *)
(* ingest queue, is every frame accepted after the one it took last (or    *)
(* after it opened its sink), in order: counters that are added up late    *)
(* and in two places hide no loss.                                         *)
THEOREM CompleteCorrect == Spec => []Complete
<1> QED
  BY BridgeInvInit, BridgeInvStep, PlaceIs, OrderInvInit, OrderInvStep, FramesInit, FramesStep,
     NumberInvInit, NumberInvStep, DropsInvStep, CompleteIs, FollowsFrames, PTL DEF Spec
=============================================================================
