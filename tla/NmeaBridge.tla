----------------------------- MODULE NmeaBridge -----------------------------
(***************************************************************************)
(* The NMEA bridge, src/src/nmea_bridge.c: one producer (the UART thread)  *)
(* publishes frames into the ingest queue, the dispatcher thread copies    *)
(* each of them into the queue of every active sink under sinks_lock, and  *)
(* session threads open a sink, take frames from it and close it.          *)
(*                                                                         *)
(* A frame is identified by its rank among the accepted frames, the value  *)
(* of bridge_stats.frames_in when it was accepted; its bytes do not matter *)
(* here.  Every k_msgq and k_mutex call is one atomic step, and what the   *)
(* code does between two of them is split wherever another thread could    *)
(* see the difference.  The board has one core and a preemptive priority   *)
(* scheduler, so CanRun says which thread can take a step: the drop        *)
(* accounting of put_drop_oldest depends on it.                            *)
(*                                                                         *)
(* Definitions that stand right before another one and are used nowhere    *)
(* (UartPrioEqual, HasRoomOneTooMany, DropNewest...) are faulty variants   *)
(* of it: with one of them in its place a property below must fail.        *)
(***************************************************************************)
EXTENDS Integers, Sequences, FiniteSets

CONSTANTS MaxSinks,     \* CONFIG_..._NMEA_SINKS_MAX
          IngestDepth,  \* CONFIG_..._INGEST_QUEUE_DEPTH
          SinkDepth,    \* CONFIG_..._SINK_QUEUE_DEPTH
          FrameMaxLen,  \* CONFIG_..._NMEA_FRAME_MAX_LEN
          Lens,         \* the lengths the producer passes to publish_frame
          Sessions,     \* the threads that own a struct nmea_bridge_sink
          MaxFrames,    \* bound: accepted frames
          MaxRejects    \* bound: rejected publications

ASSUME SizesAssumption == /\ MaxSinks \in Nat \ {0}
                          /\ IngestDepth \in Nat \ {0}
                          /\ SinkDepth \in Nat \ {0}
                          /\ FrameMaxLen \in Nat \ {0}
                          /\ Lens \subseteq Nat
                          /\ MaxFrames \in Nat
                          /\ MaxRejects \in Nat
ASSUME SessionsAssumption == {"free", "dispatcher"} \cap Sessions = {}

Sinks == 0..(MaxSinks - 1)

VARIABLES
  ingest,       \* ingest_msgq
  bridge_stats, \* the bridge's counters
  active,       \* the slots i with sinks[i].active
  msgq, stats,  \* the other fields of sinks[i]
  sinks_lock,   \* the holder of the mutex
  prodPc,       \* where the producer is in publish_frame
  dispPc, dispFrame, dispIdx, before, any,  \* the dispatcher and its locals
  sessPc, id,   \* where each session is, and its sink->id
  frame,        \* the frame a session took last (at opening: the last one
                \* dispatched before it)
  log,          \* history: the frames dispatched so far
  joined        \* history: Len(log) when the session's sink was opened

prodVars == <<prodPc>>
dispVars == <<dispPc, dispFrame, dispIdx, before, any, log>>
sessVars == <<sessPc, id, frame, joined>>
sinkVars == <<active, msgq, stats>>
vars == <<ingest, bridge_stats, sinkVars, sinks_lock, prodVars, dispVars, sessVars>>

(* The fields of struct nmea_bridge_stats and struct nmea_sink_stats.      *)
BridgeCounters == {"frames_in", "ingest_dropped_oldest", "sink_dropped_oldest",
                   "publish_no_sinks", "publish_invalid", "publish_oversize"}
SinkCounters == {"queued", "dropped_oldest", "consumed"}

ZeroStats == [c \in SinkCounters |-> 0]

(* nmea_bridge_init, and the static initialisers.                          *)
Init ==
  /\ ingest = <<>>
  /\ bridge_stats = [c \in BridgeCounters |-> 0]
  /\ active = {}
  /\ msgq = [i \in Sinks |-> <<>>]
  /\ stats = [i \in Sinks |-> ZeroStats]
  /\ sinks_lock = "free"
  /\ prodPc = "idle"
  /\ dispPc = "get" /\ dispFrame = 0 /\ dispIdx = 0 /\ before = 0 /\ any = 0
  /\ sessPc = [s \in Sessions |-> "none"]
  /\ id = [s \in Sessions |-> -1]
  /\ frame = [s \in Sessions |-> 0]
  /\ log = <<>>
  /\ joined = [s \in Sessions |-> 0]

-----------------------------------------------------------------------------
(* Scheduling: one core, a smaller number is a higher priority.            *)

UartPrioEqual == 5
UartPrio == 4
DispatcherPrio == 5
SessionPrio == 7

(* The dispatcher is ready unless it is pended on the empty ingest queue   *)
(* or on the mutex.                                                        *)
DispReady == /\ dispPc # "wait"
             /\ dispPc = "lock" => sinks_lock = "free"

(* A thread of priority prio can run: no thread of a higher priority is    *)
(* ready.  Threads of equal priority are time-sliced.                      *)
CanRun(prio) == /\ prodPc # "idle" => prio <= UartPrio
                /\ DispReady => prio <= DispatcherPrio

-----------------------------------------------------------------------------
(* The kernel objects.                                                     *)

(* k_msgq_put succeeds: fewer than max_msgs are in the buffer.             *)
HasRoomOneTooMany(q, depth) == Len(q) <= depth
HasRoom(q, depth) == Len(q) < depth

(* k_msgq_get(q, &old, K_NO_WAIT): the oldest frame goes, if there is one. *)
DropNewest(q) == IF q = <<>> THEN q ELSE SubSeq(q, 1, Len(q) - 1)
DropOldest(q) == IF q = <<>> THEN q ELSE Tail(q)

(* k_msgq_purge(&sinks[i].msgq).                                           *)
PurgeForgotten(i) == i \in Sinks /\ UNCHANGED msgq
Purge(i) == msgq' = [msgq EXCEPT ![i] = <<>>]

(* k_mutex_lock returns to its caller.                                     *)
LockIgnored == TRUE
LockFree == sinks_lock = "free"

Last0(seq) == IF seq = <<>> THEN 0 ELSE seq[Len(seq)]

-----------------------------------------------------------------------------
(* nmea_bridge_publish_frame, called by the UART thread.                   *)

PublishRejected(len) ==
  /\ prodPc = "idle" /\ CanRun(UartPrio)
  /\ bridge_stats.publish_invalid + bridge_stats.publish_oversize < MaxRejects
  /\ \/ /\ len = 0
        /\ bridge_stats' = [bridge_stats EXCEPT !.publish_invalid = @ + 1]
     \/ /\ len > FrameMaxLen
        /\ bridge_stats' = [bridge_stats EXCEPT !.publish_oversize = @ + 1]
  /\ UNCHANGED <<ingest, sinkVars, sinks_lock, prodVars, dispVars, sessVars>>

(* k_msgq_put(&ingest_msgq, f, K_NO_WAIT) where there is room: a getter    *)
(* that is pended receives the frame, otherwise it is queued.              *)
PutIngest(f) ==
  IF dispPc = "wait"
  THEN /\ dispPc' = "lock" /\ dispFrame' = f
       /\ UNCHANGED ingest
  ELSE /\ ingest' = Append(ingest, f)
       /\ UNCHANGED <<dispPc, dispFrame>>

(* The checks, frames_in++ and the first put of put_drop_oldest.           *)
Publish(len) ==
  /\ prodPc = "idle" /\ CanRun(UartPrio)
  /\ len > 0 /\ len <= FrameMaxLen
  /\ bridge_stats.frames_in < MaxFrames
  /\ bridge_stats' = [bridge_stats EXCEPT !.frames_in = @ + 1]
  /\ IF HasRoom(ingest, IngestDepth)
     THEN PutIngest(bridge_stats.frames_in + 1) /\ UNCHANGED prodPc
     ELSE prodPc' = "drop" /\ UNCHANGED <<ingest, dispPc, dispFrame>>
  /\ UNCHANGED <<sinkVars, sinks_lock, dispIdx, before, any, log, sessVars>>

PublishDropOldest ==
  /\ prodPc = "drop" /\ CanRun(UartPrio)
  /\ ingest' = DropOldest(ingest)
  /\ bridge_stats' = [bridge_stats EXCEPT !.ingest_dropped_oldest = @ + 1]
  /\ prodPc' = "retry"
  /\ UNCHANGED <<sinkVars, sinks_lock, dispVars, sessVars>>

(* The second put; if it fails too, the new frame is the one lost.         *)
RetryForgotten ==
  /\ prodPc = "retry" /\ CanRun(UartPrio)
  /\ prodPc' = "idle"
  /\ UNCHANGED <<ingest, bridge_stats, sinkVars, sinks_lock, dispVars, sessVars>>
PublishRetry ==
  /\ prodPc = "retry" /\ CanRun(UartPrio)
  /\ prodPc' = "idle"
  /\ IF HasRoom(ingest, IngestDepth)
     THEN PutIngest(bridge_stats.frames_in) /\ UNCHANGED bridge_stats
     ELSE /\ bridge_stats' = [bridge_stats EXCEPT !.ingest_dropped_oldest = @ + 1]
          /\ UNCHANGED <<ingest, dispPc, dispFrame>>
  /\ UNCHANGED <<sinkVars, sinks_lock, dispIdx, before, any, log, sessVars>>

Producer == \/ \E len \in Lens : PublishRejected(len) \/ Publish(len)
            \/ PublishDropOldest
            \/ PublishRetry

-----------------------------------------------------------------------------
(* dispatcher_thread.                                                      *)

(* k_msgq_get(&ingest_msgq, &frame, K_FOREVER).                            *)
DispGet ==
  /\ dispPc = "get" /\ CanRun(DispatcherPrio)
  /\ IF ingest = <<>>
     THEN dispPc' = "wait" /\ UNCHANGED <<ingest, dispFrame>>
     ELSE /\ dispFrame' = Head(ingest) /\ ingest' = Tail(ingest)
          /\ dispPc' = "lock"
  /\ UNCHANGED <<bridge_stats, sinkVars, sinks_lock, prodVars, dispIdx, before, any, log, sessVars>>

DispLock ==
  /\ dispPc = "lock" /\ CanRun(DispatcherPrio)
  /\ LockFree
  /\ sinks_lock' = "dispatcher"
  /\ dispPc' = "scan" /\ dispIdx' = 0 /\ any' = 0
  /\ log' = Append(log, dispFrame)
  /\ UNCHANGED <<ingest, bridge_stats, sinkVars, prodVars, dispFrame, before, sessVars>>

(* The sinks the loop has still to visit.                                  *)
ActiveAhead == {i \in active : i >= dispIdx}

(* The session pended in k_msgq_get on the queue of sink i.                *)
Waiters(i) == {s \in Sessions : sessPc[s] = "wait" /\ id[s] = i}

(* k_msgq_put(&sinks[i].msgq, &frame, K_NO_WAIT) where there is room.      *)
PutSink(i) ==
  IF Waiters(i) # {}
  THEN /\ \E s \in Waiters(i) : /\ sessPc' = [sessPc EXCEPT ![s] = "got"]
                                /\ frame' = [frame EXCEPT ![s] = dispFrame]
       /\ UNCHANGED msgq
  ELSE /\ msgq' = [msgq EXCEPT ![i] = Append(@, dispFrame)]
       /\ UNCHANGED <<sessPc, frame>>

(* Skip the inactive sinks and try to put into the next active one.        *)
DispPut ==
  /\ dispPc = "scan" /\ CanRun(DispatcherPrio)
  /\ \E i \in ActiveAhead :
       /\ \A j \in ActiveAhead : i <= j
       /\ dispIdx' = i
       /\ before' = stats[i].dropped_oldest
       /\ IF HasRoom(msgq[i], SinkDepth)
          THEN PutSink(i) /\ dispPc' = "count"
          ELSE dispPc' = "drop" /\ UNCHANGED <<msgq, sessPc, frame>>
  /\ UNCHANGED <<ingest, bridge_stats, active, stats, sinks_lock, prodVars,
                 dispFrame, any, log, id, joined>>

CountDropForgotten(i) == i \in Sinks /\ UNCHANGED stats
CountDrop(i) == stats' = [stats EXCEPT ![i].dropped_oldest = @ + 1]

DispDropOldest ==
  /\ dispPc = "drop" /\ CanRun(DispatcherPrio)
  /\ msgq' = [msgq EXCEPT ![dispIdx] = DropOldest(@)]
  /\ CountDrop(dispIdx)
  /\ dispPc' = "retry"
  /\ UNCHANGED <<ingest, bridge_stats, active, sinks_lock, prodVars, dispFrame,
                 dispIdx, before, any, log, sessVars>>

DispRetry ==
  /\ dispPc = "retry" /\ CanRun(DispatcherPrio)
  /\ dispPc' = "count"
  /\ IF HasRoom(msgq[dispIdx], SinkDepth)
     THEN PutSink(dispIdx) /\ UNCHANGED stats
     ELSE CountDrop(dispIdx) /\ UNCHANGED <<msgq, sessPc, frame>>
  /\ UNCHANGED <<ingest, bridge_stats, active, sinks_lock, prodVars, dispFrame,
                 dispIdx, before, any, log, id, joined>>

DispCount ==
  /\ dispPc = "count" /\ CanRun(DispatcherPrio)
  /\ bridge_stats' = [bridge_stats EXCEPT
       !.sink_dropped_oldest = @ + stats[dispIdx].dropped_oldest - before]
  /\ stats' = [stats EXCEPT ![dispIdx].queued = @ + 1]
  /\ any' = 1
  /\ dispIdx' = dispIdx + 1
  /\ dispPc' = "scan"
  /\ UNCHANGED <<ingest, active, msgq, sinks_lock, prodVars, dispFrame, before, log, sessVars>>

DispFinish ==
  /\ dispPc = "scan" /\ CanRun(DispatcherPrio)
  /\ ActiveAhead = {}
  /\ bridge_stats' = IF any = 1 THEN bridge_stats
                     ELSE [bridge_stats EXCEPT !.publish_no_sinks = @ + 1]
  /\ sinks_lock' = "free"
  /\ dispPc' = "get"
  /\ UNCHANGED <<ingest, sinkVars, prodVars, dispFrame, dispIdx, before, any, log, sessVars>>

Dispatcher == \/ DispGet \/ DispLock \/ DispPut \/ DispDropOldest
              \/ DispRetry \/ DispCount \/ DispFinish

-----------------------------------------------------------------------------
(* nmea_bridge_sink_open, _take and _close, called by session threads.     *)

Goto(s, pc) == sessPc' = [sessPc EXCEPT ![s] = pc]

(* k_mutex_lock(&sinks_lock, K_FOREVER): s waits in state from.            *)
LockSinks(s, from, to) ==
  /\ sessPc[s] = from /\ CanRun(SessionPrio)
  /\ LockFree
  /\ sinks_lock' = s
  /\ Goto(s, to)
  /\ UNCHANGED <<ingest, bridge_stats, sinkVars, prodVars, dispVars, id, frame, joined>>

OpenCall(s) ==
  /\ sessPc[s] = "none" /\ CanRun(SessionPrio)
  /\ Goto(s, "open")
  /\ UNCHANGED <<ingest, bridge_stats, sinkVars, sinks_lock, prodVars, dispVars, id, frame, joined>>

OpenLock(s) == LockSinks(s, "open", "find")

(* memset(&sinks[i].stats, 0, ...).                                        *)
ResetForgotten(i) == i \in Sinks /\ UNCHANGED stats
ResetStats(i) == stats' = [stats EXCEPT ![i] = ZeroStats]

(* Claim the first inactive slot.                                          *)
OpenFind(s) ==
  /\ sessPc[s] = "find" /\ CanRun(SessionPrio)
  /\ \E i \in Sinks :
       /\ i \notin active /\ \A j \in Sinks : j < i => j \in active
       /\ active' = active \cup {i}
       /\ ResetStats(i)
       /\ id' = [id EXCEPT ![s] = i]
  /\ joined' = [joined EXCEPT ![s] = Len(log)]
  /\ frame' = [frame EXCEPT ![s] = Last0(log)]
  /\ Goto(s, "purge")
  /\ UNCHANGED <<ingest, bridge_stats, msgq, sinks_lock, prodVars, dispVars>>

(* All slots are taken: return -ENOMEM.                                    *)
OpenFull(s) ==
  /\ sessPc[s] = "find" /\ CanRun(SessionPrio)
  /\ active = Sinks
  /\ sinks_lock' = "free"
  /\ Goto(s, "none")
  /\ UNCHANGED <<ingest, bridge_stats, sinkVars, prodVars, dispVars, id, frame, joined>>

(* The search of the slots, whichever way it ends; it fails only where      *)
(* there are more sessions than slots, as in the run of UartBridge.        *)
OpenSearch(s) == sessPc[s] = "find" /\ (OpenFind(s) \/ OpenFull(s))

OpenPurge(s) ==
  /\ sessPc[s] = "purge" /\ CanRun(SessionPrio)
  /\ Purge(id[s])
  /\ sinks_lock' = "free"
  /\ Goto(s, "use")
  /\ UNCHANGED <<ingest, bridge_stats, active, stats, prodVars, dispVars, id, frame, joined>>

(* The locked look at active; an inactive sink gives -ENOTCONN.            *)
TakeCheck(s) ==
  /\ sessPc[s] = "use" /\ CanRun(SessionPrio)
  /\ LockFree
  /\ id[s] \in active
  /\ Goto(s, "take")
  /\ UNCHANGED <<ingest, bridge_stats, sinkVars, sinks_lock, prodVars, dispVars, id, frame, joined>>

(* k_msgq_get with a timeout: a frame, or pend.                            *)
TakeGet(s) ==
  /\ sessPc[s] = "take" /\ CanRun(SessionPrio)
  /\ IF msgq[id[s]] = <<>>
     THEN Goto(s, "wait") /\ UNCHANGED <<msgq, frame>>
     ELSE /\ frame' = [frame EXCEPT ![s] = Head(msgq[id[s]])]
          /\ msgq' = [msgq EXCEPT ![id[s]] = Tail(@)]
          /\ Goto(s, "got")
  /\ UNCHANGED <<ingest, bridge_stats, active, stats, sinks_lock, prodVars, dispVars, id, joined>>

(* The kernel's timer ends the wait, whatever thread runs.                 *)
TakeTimeout(s) ==
  /\ sessPc[s] = "wait"
  /\ Goto(s, "use")
  /\ UNCHANGED <<ingest, bridge_stats, sinkVars, sinks_lock, prodVars, dispVars, id, frame, joined>>

TakeCount(s) ==
  /\ sessPc[s] = "got" /\ CanRun(SessionPrio)
  /\ stats' = [stats EXCEPT ![id[s]].consumed = @ + 1]
  /\ Goto(s, "use")
  /\ UNCHANGED <<ingest, bridge_stats, active, msgq, sinks_lock, prodVars, dispVars, id, frame, joined>>

CloseCall(s) ==
  /\ sessPc[s] = "use" /\ CanRun(SessionPrio)
  /\ Goto(s, "close")
  /\ UNCHANGED <<ingest, bridge_stats, sinkVars, sinks_lock, prodVars, dispVars, id, frame, joined>>

CloseLock(s) == LockSinks(s, "close", "clear")

DeactivateForgotten(i) == i \in Sinks /\ UNCHANGED active
Deactivate(i) == active' = active \ {i}

CloseClear(s) ==
  /\ sessPc[s] = "clear" /\ CanRun(SessionPrio)
  /\ Deactivate(id[s])
  /\ Goto(s, "drain")
  /\ UNCHANGED <<ingest, bridge_stats, msgq, stats, sinks_lock, prodVars, dispVars, id, frame, joined>>

ClosePurge(s) ==
  /\ sessPc[s] = "drain" /\ CanRun(SessionPrio)
  /\ Purge(id[s])
  /\ id' = [id EXCEPT ![s] = -1]
  /\ sinks_lock' = "free"
  /\ Goto(s, "none")
  /\ UNCHANGED <<ingest, bridge_stats, active, stats, prodVars, dispVars, frame, joined>>

Session(s) == \/ OpenCall(s) \/ OpenLock(s) \/ OpenSearch(s) \/ OpenPurge(s)
              \/ TakeCheck(s) \/ TakeGet(s) \/ TakeTimeout(s) \/ TakeCount(s)
              \/ CloseCall(s) \/ CloseLock(s) \/ CloseClear(s) \/ ClosePurge(s)

Next == Producer \/ Dispatcher \/ \E s \in Sessions : Session(s)

Spec == Init /\ [][Next]_vars

(* The dispatcher and the tail of a publication always go on; a session    *)
(* that holds the mutex does too, because it inherits the priority of the  *)
(* dispatcher that waits for it.  Nothing makes a session open, take or    *)
(* close.                                                                  *)
Fairness == /\ WF_vars(PublishDropOldest \/ PublishRetry)
            /\ WF_vars(Dispatcher)
            /\ \A s \in Sessions :
                 WF_vars(\/ OpenSearch(s) \/ OpenPurge(s)
                         \/ CloseClear(s) \/ ClosePurge(s))

FairSpec == Spec /\ Fairness

-----------------------------------------------------------------------------
(* Properties.                                                             *)

Scanning == dispPc \in {"scan", "drop", "retry", "count"}

(* The session has a sink of its own: from the claim in sink_open to the   *)
(* end of sink_close.                                                      *)
Owns(s) == sessPc[s] \in {"purge", "use", "take", "wait", "got", "close", "clear", "drain"}

QueuesOK ==
  /\ ingest \in Seq(Nat) /\ Len(ingest) <= IngestDepth
  /\ msgq \in [Sinks -> Seq(Nat)]
  /\ \A i \in Sinks : Len(msgq[i]) <= SinkDepth
  /\ log \in Seq(Nat)
CountersOK ==
  /\ bridge_stats \in [BridgeCounters -> Nat]
  /\ stats \in [Sinks -> [SinkCounters -> Nat]]
ThreadsOK ==
  /\ active \subseteq Sinks
  /\ sinks_lock \in {"free", "dispatcher"} \cup Sessions
  /\ prodPc \in {"idle", "drop", "retry"}
  /\ dispPc \in {"get", "wait", "lock", "scan", "drop", "retry", "count"}
  /\ dispFrame \in Nat /\ dispIdx \in 0..MaxSinks /\ before \in Nat /\ any \in {0, 1}
  /\ dispPc \in {"drop", "retry", "count"} => dispIdx \in Sinks
  /\ sessPc \in [Sessions -> {"none", "open", "find", "purge", "use", "take", "wait",
                              "got", "close", "clear", "drain"}]
  /\ id \in [Sessions -> Sinks \cup {-1}]
  /\ \A s \in Sessions : Owns(s) => id[s] \in Sinks
  /\ frame \in [Sessions -> Nat]
  /\ joined \in [Sessions -> Nat]

(* Every variable keeps its type: no queue exceeds its buffer, no counter  *)
(* goes below zero (the dispatcher subtracts an earlier reading of         *)
(* dropped_oldest, which a session that opens the slot resets), and a      *)
(* session in the middle of a call has the index of a slot.                *)
TypeOK == QueuesOK /\ CountersOK /\ ThreadsOK

(* sinks_lock protects the slots: two sessions never hold the same slot,   *)
(* and a slot stays active from its claim until its own session closes it, *)
(* so that the take in progress never reads a slot given to another one.   *)
ExclusiveSinks ==
  \A s \in Sessions : Owns(s) =>
    /\ id[s] \in active <=> sessPc[s] # "drain"
    /\ \A t \in Sessions \ {s} : Owns(t) => id[t] # id[s]

(* Nothing is lost uncounted before the dispatcher: whenever no            *)
(* publication is in progress every accepted frame was dispatched, is in   *)
(* the dispatcher's hands, is queued, or is in ingest_dropped_oldest, and  *)
(* what is queued is exactly the newest accepted frames, in order.         *)
IngestExact ==
  prodPc = "idle" =>
    /\ bridge_stats.frames_in =
         Len(log) + (IF dispPc = "lock" THEN 1 ELSE 0) + Len(ingest)
           + bridge_stats.ingest_dropped_oldest
    /\ \A k \in 1..Len(ingest) : ingest[k] = bridge_stats.frames_in - Len(ingest) + k

(* The dispatcher has already logged the frame it distributes but has not  *)
(* put it into sink i yet.                                                 *)
Behind(i) == IF \/ dispPc \in {"scan", "drop", "retry"} /\ i >= dispIdx
                \/ dispPc = "count" /\ i > dispIdx
             THEN 1 ELSE 0

(* A sink's queue is exactly the most recent frames that were dispatched:  *)
(* dropping only ever removes the oldest, and nothing of an earlier owner  *)
(* of the slot is left in it.                                              *)
SinkQueueIsSuffix ==
  \A i \in active : (\E s \in Sessions : id[s] = i /\ sessPc[s] # "purge") =>
    \A k \in 1..Len(msgq[i]) : msgq[i][k] = log[Len(log) - Behind(i) - Len(msgq[i]) + k]

(* Nothing is lost uncounted in a sink: every frame dispatched since the   *)
(* sink was opened is queued in it, was taken by its session, or is in its *)
(* dropped_oldest, although sink_take removes it and counts it in two      *)
(* steps without the lock.                                                 *)
SinkExact ==
  \A s \in Sessions : Owns(s) /\ sessPc[s] # "drain" =>
    LET i == id[s]
    IN dispPc \notin {"retry", "count"} \/ dispIdx # i =>
         /\ stats[i].queued = Len(log) - Behind(i) - joined[s]
         /\ stats[i].queued = Len(msgq[i]) + stats[i].dropped_oldest + stats[i].consumed
                                + (IF sessPc[s] = "got" THEN 1 ELSE 0)

(* With a slot for every session, the BUILD_ASSERT of nmea_bridge.c:13, no *)
(* sink_open ever answers -ENOMEM.                                         *)
OpenNeverFails ==
  [][\A s \in Sessions : ~(sessPc[s] = "find" /\ sessPc'[s] = "none")]_vars

(* The bridge implements LossyFanOut: a session belongs to it from the     *)
(* claim of a slot until that slot is cleared, and is given the frame it   *)
(* takes.  A frame is dispatched when the dispatcher gets the lock.        *)
FanOut == INSTANCE LossyFanOut WITH
            Sinks <- Sessions,
            published <- bridge_stats.frames_in,
            dispatched <- Last0(log),
            member <- {s \in Sessions : Owns(s) /\ sessPc[s] # "drain"},
            last <- frame

ImplementsFanOut == FanOut!Spec

(* The dispatcher never stops: whatever sessions do with the mutex, an     *)
(* accepted frame, or a later one, is eventually dispatched to the sinks.  *)
EventuallyDispatched ==
  \A n \in 1..MaxFrames : (bridge_stats.frames_in >= n) ~> (Last0(log) >= n)

=============================================================================
