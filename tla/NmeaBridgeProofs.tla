-------------------------- MODULE NmeaBridgeProofs --------------------------
(***************************************************************************)
(* Proofs about NmeaBridge, for every number of sinks and sessions and     *)
(* every queue depth.                                                      *)
(***************************************************************************)
EXTENDS NmeaBridge, TLAPS

(* The mutex and the places in the code where it is held.                  *)
LockOK == /\ sinks_lock = "dispatcher" <=> Scanning
          /\ \A s \in Sessions : sinks_lock = s <=> sessPc[s] \in {"find", "purge", "clear", "drain"}

(* Between the reading of dropped_oldest and its use nobody lowers it.     *)
BeforeOK == dispPc \in {"drop", "retry", "count"} => before <= stats[dispIdx].dropped_oldest

-----------------------------------------------------------------------------
LEMMA AppendFits ==
  ASSUME NEW q \in Seq(Nat), NEW d \in Nat, NEW f \in Nat, HasRoom(q, d)
  PROVE  Append(q, f) \in Seq(Nat) /\ Len(Append(q, f)) <= d
  BY DEF HasRoom

LEMMA DropFits ==
  ASSUME NEW q \in Seq(Nat), NEW d \in Nat, Len(q) <= d
  PROVE  DropOldest(q) \in Seq(Nat) /\ Len(DropOldest(q)) <= d
  BY DEF DropOldest

LEMMA TailFits ==
  ASSUME NEW q \in Seq(Nat), NEW d \in Nat, Len(q) <= d, q # <<>>
  PROVE  Tail(q) \in Seq(Nat) /\ Len(Tail(q)) <= d /\ Head(q) \in Nat
  OBVIOUS

LEMMA Last0Type == ASSUME NEW q \in Seq(Nat) PROVE Last0(q) \in Nat
  BY DEF Last0

(* Replacing the queue of one sink by another that fits.                   *)
LEMMA OneQueue ==
  ASSUME QueuesOK, NEW i \in Sinks, NEW q \in Seq(Nat), Len(q) <= SinkDepth,
         msgq' = [msgq EXCEPT ![i] = q], UNCHANGED <<ingest, log>>
  PROVE  QueuesOK'
  BY DEF QueuesOK

LEMMA PutSinkQueues ==
  ASSUME QueuesOK, ThreadsOK, NEW i \in Sinks, HasRoom(msgq[i], SinkDepth), PutSink(i),
         UNCHANGED <<ingest, log>>
  PROVE  QueuesOK'
<1>1. CASE Waiters(i) # {}
  BY <1>1 DEF PutSink, QueuesOK
<1>2. CASE Waiters(i) = {}
  <2>1. Append(msgq[i], dispFrame) \in Seq(Nat) /\ Len(Append(msgq[i], dispFrame)) <= SinkDepth
    BY AppendFits, SizesAssumption DEF QueuesOK, ThreadsOK
  <2>2. msgq' = [msgq EXCEPT ![i] = Append(msgq[i], dispFrame)]
    BY <1>2 DEF PutSink
  <2> QED BY <2>1, <2>2, OneQueue
<1> QED BY <1>1, <1>2

-----------------------------------------------------------------------------
(* The queues stay within their depths.                                    *)
LEMMA QueuesStep == ASSUME QueuesOK, CountersOK, ThreadsOK, Next PROVE QueuesOK'
<1> USE SizesAssumption
<1>1. ASSUME NEW len \in Lens, PublishRejected(len) PROVE QueuesOK'
  BY <1>1 DEF PublishRejected, QueuesOK, sinkVars, dispVars
<1>2. ASSUME NEW len \in Lens, Publish(len) PROVE QueuesOK'
  <2>1. ingest' \in Seq(Nat) /\ Len(ingest') <= IngestDepth
    <3>1. bridge_stats.frames_in + 1 \in Nat
      BY DEF CountersOK, BridgeCounters
    <3> QED BY <1>2, <3>1, AppendFits DEF Publish, PutIngest, QueuesOK
  <2> QED BY <1>2, <2>1 DEF Publish, QueuesOK, sinkVars
<1>3. CASE PublishDropOldest
  <2>1. ingest' \in Seq(Nat) /\ Len(ingest') <= IngestDepth
    BY <1>3, DropFits DEF PublishDropOldest, QueuesOK
  <2> QED BY <1>3, <2>1 DEF PublishDropOldest, QueuesOK, sinkVars, dispVars
<1>4. CASE PublishRetry
  <2>1. ingest' \in Seq(Nat) /\ Len(ingest') <= IngestDepth
    BY <1>4, AppendFits DEF PublishRetry, PutIngest, QueuesOK, CountersOK, BridgeCounters
  <2> QED BY <1>4, <2>1 DEF PublishRetry, QueuesOK, sinkVars
<1>5. CASE DispGet
  <2>1. ingest' \in Seq(Nat) /\ Len(ingest') <= IngestDepth
    BY <1>5, TailFits DEF DispGet, QueuesOK
  <2> QED BY <1>5, <2>1 DEF DispGet, QueuesOK, sinkVars
<1>6. CASE DispLock
  BY <1>6 DEF DispLock, QueuesOK, ThreadsOK, sinkVars
<1>7. CASE DispPut
  <2>1. PICK i \in Sinks : IF HasRoom(msgq[i], SinkDepth) THEN PutSink(i) ELSE UNCHANGED msgq
    BY <1>7 DEF DispPut, ActiveAhead, ThreadsOK
  <2>2. UNCHANGED <<ingest, log>>
    BY <1>7 DEF DispPut
  <2> QED BY <2>1, <2>2, PutSinkQueues DEF QueuesOK
<1>8. CASE DispDropOldest
  BY <1>8, DropFits, OneQueue DEF DispDropOldest, QueuesOK, ThreadsOK
<1>9. CASE DispRetry
  <2>1. dispIdx \in Sinks
    BY <1>9 DEF DispRetry, ThreadsOK
  <2>2. CASE HasRoom(msgq[dispIdx], SinkDepth)
    BY <1>9, <2>1, <2>2, PutSinkQueues DEF DispRetry
  <2>3. CASE ~HasRoom(msgq[dispIdx], SinkDepth)
    BY <1>9, <2>3 DEF DispRetry, QueuesOK
  <2> QED BY <2>2, <2>3 DEF HasRoom
<1>10. CASE DispCount \/ DispFinish
  BY <1>10 DEF DispCount, DispFinish, QueuesOK, sinkVars
<1>11. ASSUME NEW s \in Sessions, Session(s) PROVE QueuesOK'
  <2>1. CASE OpenPurge(s) \/ ClosePurge(s)
    <3>1. id[s] \in Sinks
      BY <2>1 DEF OpenPurge, ClosePurge, ThreadsOK, Owns
    <3>2. msgq' = [msgq EXCEPT ![id[s]] = <<>>] /\ UNCHANGED <<ingest, log>>
      BY <2>1 DEF OpenPurge, ClosePurge, Purge, dispVars
    <3>3. <<>> \in Seq(Nat) /\ Len(<<>>) <= SinkDepth
      OBVIOUS
    <3> QED BY <3>1, <3>2, <3>3, OneQueue
  <2>2. CASE TakeGet(s)
    <3>1. id[s] \in Sinks
      BY <2>2 DEF TakeGet, ThreadsOK, Owns
    <3>2. CASE msgq[id[s]] = <<>>
      BY <2>2, <3>2 DEF TakeGet, QueuesOK, dispVars
    <3>3. CASE msgq[id[s]] # <<>>
      <4>1. Tail(msgq[id[s]]) \in Seq(Nat) /\ Len(Tail(msgq[id[s]])) <= SinkDepth
        BY <3>1, <3>3, TailFits DEF QueuesOK
      <4>2. msgq' = [msgq EXCEPT ![id[s]] = Tail(msgq[id[s]])] /\ UNCHANGED <<ingest, log>>
        BY <2>2, <3>3 DEF TakeGet, dispVars
      <4> QED BY <3>1, <4>1, <4>2, OneQueue
    <3> QED BY <3>2, <3>3
  <2>3. ASSUME UNCHANGED <<ingest, msgq, log>> PROVE QueuesOK'
    BY <2>3 DEF QueuesOK
  <2> QED
    BY <1>11, <2>1, <2>2, <2>3 DEF Session, OpenSearch, OpenCall, OpenLock, OpenFind, OpenFull, TakeCheck,
       TakeTimeout, TakeCount, CloseCall, CloseLock, CloseClear, LockSinks, sinkVars, dispVars
<1> QED
  BY <1>1, <1>2, <1>3, <1>4, <1>5, <1>6, <1>7, <1>8, <1>9, <1>10, <1>11
     DEF Next, Producer, Dispatcher

-----------------------------------------------------------------------------
(* One counter of one sink grows.                                          *)
LEMMA OneCounter ==
  ASSUME stats \in [Sinks -> [SinkCounters -> Nat]], NEW i \in Sinks, NEW c \in SinkCounters,
         stats' = [stats EXCEPT ![i][c] = @ + 1]
  PROVE  /\ stats' \in [Sinks -> [SinkCounters -> Nat]]
         /\ \A j \in Sinks, d \in SinkCounters : stats[j][d] <= stats'[j][d]
  OBVIOUS

(* The counters stay natural numbers.                                      *)
LEMMA CountersStep == ASSUME CountersOK, ThreadsOK, BeforeOK, Next PROVE CountersOK'
<1>1. ASSUME NEW len \in Lens, PublishRejected(len) \/ Publish(len) PROVE CountersOK'
  BY <1>1 DEF PublishRejected, Publish, CountersOK, BridgeCounters, sinkVars
<1>2. CASE PublishDropOldest \/ PublishRetry
  BY <1>2 DEF PublishDropOldest, PublishRetry, CountersOK, BridgeCounters, sinkVars
<1>3. CASE DispGet \/ DispLock \/ DispPut
  BY <1>3 DEF DispGet, DispLock, DispPut, CountersOK, sinkVars
<1>4. CASE DispDropOldest \/ DispRetry
  <2>1. dispIdx \in Sinks
    BY <1>4 DEF DispDropOldest, DispRetry, ThreadsOK
  <2>2. UNCHANGED stats \/ stats' = [stats EXCEPT ![dispIdx]["dropped_oldest"] = @ + 1]
    BY <1>4 DEF DispDropOldest, DispRetry, CountDrop
  <2>3. UNCHANGED bridge_stats
    BY <1>4 DEF DispDropOldest, DispRetry
  <2> QED BY <2>1, <2>2, <2>3, OneCounter DEF CountersOK, SinkCounters
<1>5. CASE DispCount
  <2>1. dispIdx \in Sinks
    BY <1>5 DEF DispCount, ThreadsOK
  <2>2. stats[dispIdx].dropped_oldest - before \in Nat
    BY <1>5, <2>1 DEF DispCount, BeforeOK, CountersOK, SinkCounters, ThreadsOK
  <2>3. bridge_stats' \in [BridgeCounters -> Nat]
    BY <1>5, <2>2 DEF DispCount, CountersOK, BridgeCounters
  <2>4. stats' = [stats EXCEPT ![dispIdx]["queued"] = @ + 1]
    BY <1>5 DEF DispCount
  <2> QED BY <2>1, <2>3, <2>4, OneCounter DEF CountersOK, SinkCounters
<1>6. CASE DispFinish
  BY <1>6 DEF DispFinish, CountersOK, BridgeCounters, sinkVars
<1>7. ASSUME NEW s \in Sessions, Session(s) PROVE CountersOK'
  <2>1. CASE OpenFind(s)
    BY <2>1 DEF OpenFind, ResetStats, ZeroStats, CountersOK
  <2>2. CASE TakeCount(s)
    <3>1. id[s] \in Sinks
      BY <2>2 DEF TakeCount, ThreadsOK, Owns
    <3>2. stats' = [stats EXCEPT ![id[s]]["consumed"] = @ + 1] /\ UNCHANGED bridge_stats
      BY <2>2 DEF TakeCount
    <3> QED BY <3>1, <3>2, OneCounter DEF CountersOK, SinkCounters
  <2>3. ASSUME UNCHANGED <<bridge_stats, stats>> PROVE CountersOK'
    BY <2>3 DEF CountersOK
  <2> QED
    BY <1>7, <2>1, <2>2, <2>3 DEF Session, OpenSearch, OpenCall, OpenLock, OpenFull, OpenPurge, TakeCheck, TakeGet,
       TakeTimeout, CloseCall, CloseLock, CloseClear, ClosePurge, LockSinks, sinkVars
<1> QED
  BY <1>1, <1>2, <1>3, <1>4, <1>5, <1>6, <1>7 DEF Next, Producer, Dispatcher

-----------------------------------------------------------------------------
(* The threads' own state keeps its type.                                  *)
LEMMA ThreadsStep == ASSUME QueuesOK, CountersOK, ThreadsOK, Next PROVE ThreadsOK'
<1> USE SizesAssumption
<1>1. ASSUME NEW len \in Lens, PublishRejected(len) \/ Publish(len) PROVE ThreadsOK'
  <2>1. bridge_stats.frames_in + 1 \in Nat
    BY DEF CountersOK, BridgeCounters
  <2> QED BY <1>1, <2>1 DEF PublishRejected, Publish, PutIngest, ThreadsOK, Owns, sinkVars, prodVars, dispVars, sessVars
<1>2. CASE PublishDropOldest \/ PublishRetry
  <2>1. bridge_stats.frames_in \in Nat
    BY DEF CountersOK, BridgeCounters
  <2> QED BY <1>2, <2>1 DEF PublishDropOldest, PublishRetry, PutIngest, ThreadsOK, Owns, sinkVars, dispVars, sessVars
<1>3. CASE DispGet
  <2>1. ingest # <<>> => Head(ingest) \in Nat
    BY DEF QueuesOK
  <2> QED BY <1>3, <2>1 DEF DispGet, ThreadsOK, Owns, sinkVars, prodVars, sessVars
<1>4. CASE DispLock \/ DispFinish
  BY <1>4 DEF DispLock, DispFinish, ThreadsOK, Owns, sinkVars, prodVars, sessVars
<1>5. CASE DispPut
  <2>1. \A i \in Sinks : stats[i].dropped_oldest \in Nat
    BY DEF CountersOK, SinkCounters
  <2>2. dispIdx' \in Sinks /\ before' \in Nat
    BY <1>5, <2>1 DEF DispPut, ActiveAhead, ThreadsOK
  <2>3. dispIdx' \in 0..MaxSinks /\ dispPc' \in {"drop", "count"}
    BY <1>5, <2>2 DEF DispPut, Sinks
  <2>4. \/ UNCHANGED <<sessPc, frame>>
        \/ \E s \in Sessions : /\ sessPc[s] = "wait"
                             /\ sessPc' = [sessPc EXCEPT ![s] = "got"]
                             /\ frame' = [frame EXCEPT ![s] = dispFrame]
    BY <1>5 DEF DispPut, PutSink, Waiters
  <2> QED BY <1>5, <2>2, <2>3, <2>4 DEF DispPut, ThreadsOK, Owns, prodVars
<1>6. CASE DispDropOldest
  BY <1>6 DEF DispDropOldest, ThreadsOK, Owns, prodVars, sessVars
<1>7. CASE DispRetry
  BY <1>7 DEF DispRetry, PutSink, Waiters, ThreadsOK, Owns, prodVars
<1>8. CASE DispCount
  BY <1>8 DEF DispCount, ThreadsOK, Owns, prodVars, sessVars, Sinks
<1>9. ASSUME NEW s \in Sessions, Session(s) PROVE ThreadsOK'
  <2>1. CASE OpenCall(s) \/ OpenLock(s) \/ CloseLock(s) \/ OpenFull(s)
    BY <2>1 DEF OpenCall, OpenLock, CloseLock, LockSinks, OpenFull, Goto, ThreadsOK, Owns, sinkVars, prodVars, dispVars
  <2>2. CASE OpenFind(s)
    <3>1. Last0(log) \in Nat /\ Len(log) \in Nat
      BY Last0Type DEF QueuesOK
    <3> QED BY <2>2, <3>1 DEF OpenFind, Goto, ThreadsOK, Owns, prodVars, dispVars
  <2>3. CASE TakeGet(s)
    <3>1. id[s] \in Sinks
      BY <2>3 DEF TakeGet, ThreadsOK, Owns
    <3>2. msgq[id[s]] # <<>> => Head(msgq[id[s]]) \in Nat
      BY <3>1 DEF QueuesOK
    <3> QED BY <2>3, <3>2 DEF TakeGet, Goto, ThreadsOK, Owns, prodVars, dispVars
  <2>4. CASE OpenPurge(s) \/ TakeCheck(s) \/ TakeTimeout(s) \/ TakeCount(s) \/ CloseCall(s)
    BY <2>4 DEF OpenPurge, TakeCheck, TakeTimeout, TakeCount, CloseCall, Goto, ThreadsOK, Owns,
       sinkVars, prodVars, dispVars
  <2>5. CASE CloseClear(s) \/ ClosePurge(s)
    BY <2>5 DEF CloseClear, ClosePurge, Deactivate, Goto, ThreadsOK, Owns, prodVars, dispVars
  <2> QED BY <1>9, <2>1, <2>2, <2>3, <2>4, <2>5 DEF Session, OpenSearch
<1> QED
  BY <1>1, <1>2, <1>3, <1>4, <1>5, <1>6, <1>7, <1>8, <1>9 DEF Next, Producer, Dispatcher

-----------------------------------------------------------------------------
(* The mutex is held exactly where the code holds it.                      *)
LEMMA LockStep == ASSUME ThreadsOK, LockOK, Next PROVE LockOK'
<1> USE SessionsAssumption
<1>1. ASSUME NEW len \in Lens, PublishRejected(len) \/ Publish(len) PROVE LockOK'
  BY <1>1 DEF PublishRejected, Publish, PutIngest, LockOK, Scanning, dispVars, sessVars
<1>2. CASE PublishDropOldest \/ PublishRetry
  BY <1>2 DEF PublishDropOldest, PublishRetry, PutIngest, LockOK, Scanning, dispVars, sessVars
<1>3. CASE DispGet \/ DispLock \/ DispDropOldest \/ DispCount \/ DispFinish
  BY <1>3 DEF DispGet, DispLock, DispDropOldest, DispCount, DispFinish, LockFree, LockOK, Scanning, sessVars
<1>4. CASE DispPut \/ DispRetry
  <2>1. \/ UNCHANGED sessPc
        \/ \E s \in Sessions : sessPc[s] = "wait" /\ sessPc' = [sessPc EXCEPT ![s] = "got"]
    BY <1>4 DEF DispPut, DispRetry, PutSink, Waiters
  <2>2. UNCHANGED sinks_lock /\ Scanning /\ Scanning'
    BY <1>4 DEF DispPut, DispRetry, Scanning
  <2> QED BY <2>1, <2>2 DEF LockOK, ThreadsOK
<1>5. ASSUME NEW s \in Sessions, Session(s) PROVE LockOK'
  <2>1. UNCHANGED dispPc
    BY <1>5 DEF Session, OpenSearch, OpenCall, OpenLock, OpenFind, OpenFull, OpenPurge, TakeCheck, TakeGet,
       TakeTimeout, TakeCount, CloseCall, CloseLock, CloseClear, ClosePurge, LockSinks, dispVars
  <2>2. CASE OpenLock(s) \/ CloseLock(s)
    BY <2>1, <2>2 DEF OpenLock, CloseLock, LockSinks, LockFree, Goto, LockOK, Scanning, ThreadsOK
  <2>3. CASE OpenFull(s) \/ OpenPurge(s) \/ ClosePurge(s)
    BY <2>1, <2>3 DEF OpenFull, OpenPurge, ClosePurge, Goto, LockOK, Scanning, ThreadsOK
  <2>4. CASE OpenFind(s) \/ CloseClear(s)
    BY <2>1, <2>4 DEF OpenFind, CloseClear, Goto, LockOK, Scanning, ThreadsOK
  <2>5. CASE OpenCall(s) \/ TakeCheck(s) \/ TakeGet(s) \/ TakeTimeout(s) \/ TakeCount(s) \/ CloseCall(s)
    BY <2>1, <2>5 DEF OpenCall, TakeCheck, TakeGet, TakeTimeout, TakeCount, CloseCall, Goto, LockOK,
       Scanning, ThreadsOK
  <2> QED BY <1>5, <2>2, <2>3, <2>4, <2>5 DEF Session, OpenSearch
<1> QED
  BY <1>1, <1>2, <1>3, <1>4, <1>5 DEF Next, Producer, Dispatcher

(* A session resets the counters of a slot only while it holds the mutex,  *)
(* so the dispatcher's earlier reading is never above the counter.         *)
LEMMA BeforeStep == ASSUME CountersOK, ThreadsOK, LockOK, BeforeOK, Next PROVE BeforeOK'
<1>1. CASE UNCHANGED <<dispPc, before, dispIdx, stats>>
  BY <1>1 DEF BeforeOK
<1>3. CASE DispPut
  <2>1. dispIdx' \in Sinks /\ before' = stats[dispIdx'].dropped_oldest /\ UNCHANGED stats
    BY <1>3 DEF DispPut, ActiveAhead, ThreadsOK
  <2>2. stats[dispIdx'].dropped_oldest \in Nat
    BY <2>1 DEF CountersOK, SinkCounters
  <2> QED BY <2>1, <2>2 DEF BeforeOK
<1>4. CASE DispDropOldest \/ DispRetry
  <2>1. /\ dispIdx \in Sinks /\ before <= stats[dispIdx].dropped_oldest /\ before \in Nat
        /\ UNCHANGED <<before, dispIdx>>
    BY <1>4 DEF DispDropOldest, DispRetry, BeforeOK, ThreadsOK
  <2>2. UNCHANGED stats \/ stats' = [stats EXCEPT ![dispIdx]["dropped_oldest"] = @ + 1]
    BY <1>4 DEF DispDropOldest, DispRetry, CountDrop
  <2>3. stats[dispIdx].dropped_oldest \in Nat /\ stats'[dispIdx].dropped_oldest \in Nat
        /\ stats[dispIdx].dropped_oldest <= stats'[dispIdx].dropped_oldest
    BY <2>1, <2>2, OneCounter DEF CountersOK, SinkCounters
  <2> QED BY <2>1, <2>3 DEF BeforeOK
<1>5. CASE DispCount
  BY <1>5 DEF DispCount, BeforeOK
<1>6. ASSUME NEW s \in Sessions, OpenFind(s) PROVE BeforeOK'
  <2>1. dispPc \notin {"drop", "retry", "count"} /\ UNCHANGED dispPc
    BY <1>6, SessionsAssumption DEF OpenFind, LockOK, Scanning, dispVars
  <2> QED BY <2>1 DEF BeforeOK
<1>7. ASSUME NEW s \in Sessions, TakeCount(s) PROVE BeforeOK'
  <2>1. id[s] \in Sinks
    BY <1>7 DEF TakeCount, ThreadsOK, Owns
  <2>2. stats' = [stats EXCEPT ![id[s]]["consumed"] = @ + 1] /\ UNCHANGED <<dispPc, before, dispIdx>>
    BY <1>7 DEF TakeCount, dispVars
  <2> QED BY <2>1, <2>2 DEF BeforeOK, CountersOK, ThreadsOK, SinkCounters
<1>8. ASSUME NEW s \in Sessions, Session(s), ~OpenFind(s), ~TakeCount(s)
      PROVE  UNCHANGED <<dispPc, before, dispIdx, stats>>
  BY <1>8 DEF Session, OpenSearch, OpenCall, OpenLock, OpenFull, OpenPurge, TakeCheck, TakeGet, TakeTimeout,
     CloseCall, CloseLock, CloseClear, ClosePurge, LockSinks, dispVars, sinkVars
<1>9. ASSUME Producer \/ DispGet \/ DispLock \/ DispFinish PROVE BeforeOK'
  BY <1>9 DEF Producer, PublishRejected, Publish, PutIngest, PublishDropOldest, PublishRetry, DispGet,
     DispLock, DispFinish, dispVars, sinkVars, BeforeOK
<1> QED
  BY <1>1, <1>3, <1>4, <1>5, <1>6, <1>7, <1>8, <1>9 DEF Next, Dispatcher

-----------------------------------------------------------------------------
(* The inductive invariant behind the type invariant.                      *)
TypeInv == QueuesOK /\ CountersOK /\ ThreadsOK /\ LockOK /\ BeforeOK

LEMMA TypeInvInit == Init => TypeInv
  BY SizesAssumption, SessionsAssumption DEF Init, TypeInv, QueuesOK, CountersOK, ThreadsOK, LockOK,
     BeforeOK, Sinks, ZeroStats, Owns, Scanning

LEMMA TypeInvStep == TypeInv /\ [Next]_vars => TypeInv'
<1>1. CASE Next
  BY <1>1, QueuesStep, CountersStep, ThreadsStep, LockStep, BeforeStep DEF TypeInv
<1>2. CASE UNCHANGED vars
  BY <1>2 DEF vars, TypeInv, QueuesOK, CountersOK, ThreadsOK, LockOK, BeforeOK, Owns, Scanning,
     sinkVars, prodVars, dispVars, sessVars
<1> QED BY <1>1, <1>2

(* Every variable of the bridge keeps its type, no queue outgrows its      *)
(* buffer and no counter becomes negative, for every configuration:        *)
(* put_drop_oldest, the dispatcher's loop and sink_open/take/close.        *)
THEOREM TypeCorrect == Spec => []TypeOK
<1>1. TypeInv => TypeOK
  BY DEF TypeInv, TypeOK
<1> QED BY <1>1, TypeInvInit, TypeInvStep, PTL DEF Spec
-----------------------------------------------------------------------------
(* Exclusive slots.  ExclusiveSinks is inductive once it is known who      *)
(* holds the mutex: the slot that sink_open finds inactive could belong to *)
(* a session that is still inside sink_close, but that one holds the lock. *)
LEMMA ExclusiveStep == ASSUME ThreadsOK, LockOK, ExclusiveSinks, Next PROVE ExclusiveSinks'
<1>1. CASE UNCHANGED <<active, id, sessPc>>
  BY <1>1 DEF ExclusiveSinks, Owns
<1>2. CASE DispPut \/ DispRetry
  <2>1. UNCHANGED <<active, id>>
    BY <1>2 DEF DispPut, DispRetry
  <2>2. \/ UNCHANGED sessPc
        \/ \E s \in Sessions : sessPc[s] = "wait" /\ sessPc' = [sessPc EXCEPT ![s] = "got"]
    BY <1>2 DEF DispPut, DispRetry, PutSink, Waiters
  <2> QED BY <2>1, <2>2 DEF ExclusiveSinks, Owns, ThreadsOK
<1>3. ASSUME NEW s \in Sessions, Session(s) PROVE ExclusiveSinks'
  <2>1. CASE OpenFind(s)
    <3>1. PICK i \in Sinks : /\ i \notin active
                             /\ active' = active \cup {i}
                             /\ id' = [id EXCEPT ![s] = i]
      BY <2>1 DEF OpenFind
    <3>2. sessPc' = [sessPc EXCEPT ![s] = "purge"] /\ sessPc[s] = "find"
      BY <2>1 DEF OpenFind, Goto
    <3>3. \A t \in Sessions \ {s} : Owns(t) => sessPc[t] # "drain"
      BY <3>2 DEF LockOK
    <3>4. \A t \in Sessions \ {s} : Owns(t) => id[t] \in active /\ id[t] # i
      BY <3>1, <3>3 DEF ExclusiveSinks
    <3>5. \A t \in Sessions \ {s} : id'[t] = id[t] /\ sessPc'[t] = sessPc[t] /\ (Owns(t)' <=> Owns(t))
      BY <3>1, <3>2 DEF Owns, ThreadsOK
    <3>6. id'[s] = i /\ sessPc'[s] = "purge"
      BY <3>1, <3>2 DEF ThreadsOK
    <3> QED BY <3>1, <3>3, <3>4, <3>5, <3>6 DEF ExclusiveSinks
  <2>2. CASE CloseClear(s)
    <3>1. /\ active' = active \ {id[s]} /\ UNCHANGED id
          /\ sessPc' = [sessPc EXCEPT ![s] = "drain"] /\ sessPc[s] = "clear"
      BY <2>2 DEF CloseClear, Deactivate, Goto
    <3> QED BY <3>1 DEF ExclusiveSinks, Owns, ThreadsOK
  <2>3. CASE ClosePurge(s)
    <3>1. /\ UNCHANGED active /\ id' = [id EXCEPT ![s] = -1]
          /\ sessPc' = [sessPc EXCEPT ![s] = "none"]
      BY <2>3 DEF ClosePurge, Goto
    <3> QED BY <3>1 DEF ExclusiveSinks, Owns, ThreadsOK
  <2>4. CASE OpenCall(s) \/ OpenLock(s) \/ OpenFull(s)
    BY <2>4 DEF OpenCall, OpenLock, OpenFull, LockSinks, Goto, ExclusiveSinks, Owns, ThreadsOK, sinkVars
  <2>5. CASE OpenPurge(s) \/ TakeCheck(s) \/ TakeGet(s) \/ TakeTimeout(s) \/ TakeCount(s)
             \/ CloseCall(s) \/ CloseLock(s)
    <3>1. UNCHANGED <<active, id>>
      BY <2>5 DEF OpenPurge, TakeCheck, TakeGet, TakeTimeout, TakeCount, CloseCall, CloseLock,
         LockSinks, sinkVars
    <3>2. \E pc \in {"use", "take", "wait", "got", "close", "clear"} :
            sessPc' = [sessPc EXCEPT ![s] = pc]
      BY <2>5 DEF OpenPurge, TakeCheck, TakeGet, TakeTimeout, TakeCount, CloseCall, CloseLock,
         LockSinks, Goto
    <3>3. sessPc[s] \in {"purge", "use", "take", "wait", "got", "close"}
      BY <2>5 DEF OpenPurge, TakeCheck, TakeGet, TakeTimeout, TakeCount, CloseCall, CloseLock, LockSinks
    <3> QED BY <3>1, <3>2, <3>3 DEF ExclusiveSinks, Owns, ThreadsOK
  <2> QED BY <1>3, <2>1, <2>2, <2>3, <2>4, <2>5 DEF Session, OpenSearch
<1>4. ASSUME Producer \/ DispGet \/ DispLock \/ DispDropOldest \/ DispCount \/ DispFinish
      PROVE  UNCHANGED <<active, id, sessPc>>
  BY <1>4 DEF Producer, PublishRejected, Publish, PublishDropOldest, PublishRetry, DispGet, DispLock,
     DispDropOldest, DispCount, DispFinish, sinkVars, sessVars
<1> QED
  BY <1>1, <1>2, <1>3, <1>4 DEF Next, Dispatcher

(* Two sessions never use the same slot, and a slot stays active from its  *)
(* claim in sink_open to sink_close: sink_take, which reads the queue      *)
(* after it has released sinks_lock, reads its own.                        *)
THEOREM ExclusiveCorrect == Spec => []ExclusiveSinks
<1>1. Init => ExclusiveSinks
  BY DEF Init, ExclusiveSinks, Owns
<1>2. TypeInv /\ ExclusiveSinks /\ [Next]_vars => ExclusiveSinks'
  <2>1. CASE UNCHANGED vars
    BY <2>1 DEF vars, sinkVars, sessVars, ExclusiveSinks, Owns
  <2> QED BY <2>1, ExclusiveStep DEF TypeInv
<1> QED BY <1>1, <1>2, TypeInvInit, TypeInvStep, PTL DEF Spec
=============================================================================
