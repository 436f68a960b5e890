----------------------------- MODULE UartBridge -----------------------------
(***************************************************************************)
(* The path of a line from the wire to the sessions: the UART thread of    *)
(* UartNmea is the producer of NmeaBridge.  The newline of a line and the  *)
(* call of nmea_bridge_publish_frame with what the buffer then holds are   *)
(* one step; the thread receives nothing more until the call has returned. *)
(* The frame with rank k in the bridge is frames[k] of UartNmea.           *)
(***************************************************************************)
EXTENDS UartNmea

CONSTANTS MaxSinks, IngestDepth, SinkDepth, Sessions

VARIABLES ingest, bridge_stats, active, msgq, stats, sinks_lock, prodPc,
          dispPc, dispFrame, dispIdx, before, any, sessPc, id, frame, log, joined

(* Every line may be published; a single rejection would be one too many.  *)
B == INSTANCE NmeaBridge WITH Lens <- LineLens, MaxFrames <- MaxLines, MaxRejects <- 1

bridgeVars == <<ingest, bridge_stats, active, msgq, stats, sinks_lock, prodPc, dispPc, dispFrame,
                dispIdx, before, any, sessPc, id, frame, log, joined>>
vars == <<uartVars, bridgeVars>>

Init == UartInit /\ B!Init

(* nmea_bridge_publish_frame(line, line_len), its first step.              *)
PublishWithoutNewline(len) == B!PublishRejected(len - 1) \/ B!Publish(len - 1)
publish_frame(len) == B!PublishRejected(len) \/ B!Publish(len)

PublishLine == Store /\ AtNewline /\ publish_frame(Len(line) + 1)

(* Any other byte.                                                         *)
TakeByte == /\ prodPc = "idle"
            /\ Skip \/ Overlong \/ (Store /\ ~AtNewline)
            /\ UNCHANGED bridgeVars

NextLine == (\E l \in LineLens : SendLine(l)) /\ UNCHANGED bridgeVars

BridgeStep == /\ \/ B!PublishDropOldest \/ B!PublishRetry
                 \/ B!Dispatcher
                 \/ \E s \in Sessions : B!Session(s)
              /\ UNCHANGED uartVars

Next == PublishLine \/ TakeByte \/ NextLine \/ BridgeStep

Spec == Init /\ [][Next]_vars

(* The fairness of the bridge, none of the wire.                           *)
FairSpec == Spec /\ B!Fairness

-----------------------------------------------------------------------------
(* Properties.                                                             *)

(* Types, those of both parts included.                                    *)
TypeOK == UartTypeOK /\ B!TypeOK

(* The bridge accepts every line it is given: none is empty or longer than *)
(* a frame, so publish_invalid and publish_oversize, two of the reasons    *)
(* for the data quality warning, stay zero, and the ranks of the bridge    *)
(* are those of the lines.                                                 *)
NoRejects == /\ bridge_stats.publish_invalid = 0 /\ bridge_stats.publish_oversize = 0
             /\ bridge_stats.frames_in = Len(frames)

(* The warnings of the telemetry, from the counters they are made of.      *)
data_quality == overlong_lines + bridge_stats.publish_invalid + bridge_stats.publish_oversize > 0
frame_loss == bridge_stats.ingest_dropped_oldest + bridge_stats.sink_dropped_oldest > 0

(* What is on its way to session s, the oldest frame first.                *)
OnTheWay(s) == msgq[id[s]]
                 \o (IF dispPc = "lock" \/ B!Behind(id[s]) = 1 THEN <<dispFrame>> ELSE <<>>)
                 \o ingest

(* No warning, no loss: while neither warning is on, each line sent so far *)
(* is a frame, and each frame since a session opened its sink was taken by *)
(* it or is on its way to it, in the order of the wire.                    *)
QuietMeansComplete ==
  ~data_quality /\ ~frame_loss /\ prodPc = "idle" =>
    /\ Lost = {}
    /\ \A s \in Sessions :
         B!Owns(s) /\ sessPc[s] \notin {"purge", "drain"} /\ dispPc \notin {"retry", "count"} =>
           OnTheWay(s) = [k \in 1..(Len(frames) - frame[s]) |-> frame[s] + k]

(* The dispatcher never stops: whatever the sessions do with the mutex,    *)
(* with more of them than slots, an accepted line, or a later one, is      *)
(* eventually dispatched.                                                  *)
EventuallyDispatched == B!EventuallyDispatched
=============================================================================
