--------------------------- MODULE BridgeTelemetry --------------------------
(***************************************************************************)
(* src/src/bridge_telemetry.c: the snapshot the status page asks for.  The *)
(* web thread copies the counters of one component after the other,        *)
(* without a lock and at the lowest priority but one, so that the UART     *)
(* thread, the dispatcher and the sessions run in between; then it reads   *)
(* the clock and derives the NMEA input state from what the snapshot       *)
(* before this one had seen.                                               *)
(*                                                                         *)
(* Of the counters the model keeps those the derived states depend on, and *)
(* lines_rx, which counts the same lines as frames_in on the other side of *)
(* nmea_bridge_publish_frame.  A definition used nowhere is a faulty       *)
(* variant of the one it precedes.                                         *)
(***************************************************************************)
EXTENDS Integers

CONSTANTS Window,     \* BRIDGE_TELEMETRY_NMEA_INPUT_WINDOW_MS
          MaxSessions,
          MaxTime,    \* bound: the clock
          MaxCount    \* bound: lines, and frames lost

ASSUME TelemetryAssumption == {Window, MaxSessions, MaxTime, MaxCount} \subseteq Nat

VARIABLES now,          \* k_uptime_get
          uart,         \* uart_stats
          bridge,       \* bridge_stats
          sessions,     \* active_sessions
          uartPc,       \* the UART thread: "rx", or in the middle of a line
          accepted,     \* history: when the newest frame was accepted
          webPc, inputs,          \* the web thread and its copies
          telemetry_state,
          snapshot,
          copied, pause \* history: when the frame count was copied last, and
                        \* the longest time from a copy to the next snapshot

system == <<uart, bridge, sessions, uartPc, accepted>>
reader == <<webPc, inputs, telemetry_state, snapshot, copied, pause>>
vars == <<now, system, reader>>

Never == -1   \* INT64_MIN

Init == /\ now = 0
        /\ uart = [lines_rx |-> 0, overlong_lines |-> 0]
        /\ bridge = [frames_in |-> 0, rejected |-> 0, dropped_oldest |-> 0]
        /\ sessions = 0
        /\ uartPc = "rx"
        /\ accepted = Never
        /\ webPc = "idle"
        /\ inputs = [uart |-> uart, bridge |-> bridge, sessions |-> 0, accepted |-> Never]
        /\ telemetry_state = [initialized |-> FALSE, last_frames_in |-> 0, last_frame_ms |-> Never]
        /\ snapshot = [taken |-> FALSE, at |-> 0, of |-> inputs, connected |-> FALSE,
                       active |-> FALSE, data_quality |-> FALSE, frame_loss |-> FALSE]
        /\ copied = <<0, 0>> /\ pause = 0

Tick == now < MaxTime /\ now' = now + 1 /\ UNCHANGED <<system, reader>>

-----------------------------------------------------------------------------
(* The other threads.                                                      *)

(* nmea_bridge_publish_frame counts the frame ...                          *)
PublishFrame ==
  /\ uartPc = "rx" /\ uart.lines_rx < MaxCount
  /\ \/ bridge' = [bridge EXCEPT !.frames_in = @ + 1] /\ accepted' = now
     \/ bridge' = [bridge EXCEPT !.rejected = @ + 1] /\ UNCHANGED accepted
  /\ uartPc' = "published"
  /\ UNCHANGED <<now, uart, sessions, reader>>

(* ... and later, because it may wait for the status LED's mutex before    *)
(* that, the UART thread counts the line.                                  *)
CountLine ==
  /\ uartPc = "published" /\ uartPc' = "rx"
  /\ uart' = [uart EXCEPT !.lines_rx = @ + 1]
  /\ UNCHANGED <<now, bridge, sessions, accepted, reader>>

CountOverlong ==
  /\ uartPc = "rx" /\ uart.overlong_lines = 0
  /\ uart' = [uart EXCEPT !.overlong_lines = @ + 1]
  /\ UNCHANGED <<now, bridge, sessions, uartPc, accepted, reader>>

(* A queue drops its oldest frame.                                         *)
CountDrop ==
  /\ bridge.dropped_oldest = 0 /\ bridge.frames_in > 0
  /\ bridge' = [bridge EXCEPT !.dropped_oldest = @ + 1]
  /\ UNCHANGED <<now, uart, sessions, uartPc, accepted, reader>>

SessionsChange ==
  /\ sessions' \in {sessions - 1, sessions + 1} \cap 0..MaxSessions
  /\ UNCHANGED <<now, uart, bridge, uartPc, accepted, reader>>

-----------------------------------------------------------------------------
(* bridge_telemetry_get_snapshot: collect_inputs ...                       *)

Copied(from, to, c) ==
  /\ webPc = from /\ webPc' = to
  /\ inputs' = c
  /\ UNCHANGED <<now, system, telemetry_state, snapshot, pause>>

CopiesUart(from, to) == Copied(from, to, [inputs EXCEPT !.uart = uart]) /\ UNCHANGED copied
CopiesBridge(from, to) == /\ Copied(from, to, [inputs EXCEPT !.bridge = bridge, !.accepted = accepted])
                          /\ copied' = <<copied[2], now>>

CopyUart == CopiesUart("idle", "bridge")
CopyBridge == CopiesBridge("bridge", "sessions")
CopySessions == /\ Copied("sessions", "build", [inputs EXCEPT !.sessions = sessions])
                /\ UNCHANGED copied

(* ... and bridge_telemetry_build_snapshot: when the frame count last      *)
(* changed, as far as the snapshots can tell.                              *)
TimeForgotten == IF telemetry_state.initialized THEN telemetry_state.last_frame_ms
                 ELSE IF inputs.bridge.frames_in > 0 THEN now ELSE Never
last_bridge_frame_ms ==
  IF ~telemetry_state.initialized THEN IF inputs.bridge.frames_in > 0 THEN now ELSE Never
  ELSE IF inputs.bridge.frames_in # telemetry_state.last_frames_in THEN now
  ELSE telemetry_state.last_frame_ms

CountSeenForgotten == telemetry_state.last_frames_in
CountSeen == inputs.bridge.frames_in

Build ==
  LET last == last_bridge_frame_ms
  IN /\ webPc = "build" /\ webPc' = "idle"
     /\ telemetry_state' = [initialized |-> TRUE,
                            last_frames_in |-> CountSeen,
                            last_frame_ms |-> last]
     /\ snapshot' = [taken |-> TRUE, at |-> now, of |-> inputs,
                     connected |-> inputs.sessions > 0,
                     active |-> last # Never /\ now - last <= Window,
                     data_quality |-> inputs.uart.overlong_lines > 0 \/ inputs.bridge.rejected > 0,
                     frame_loss |-> inputs.bridge.dropped_oldest > 0]
     /\ pause' = IF now - copied[1] > pause THEN now - copied[1] ELSE pause
     /\ UNCHANGED <<now, system, inputs, copied>>

WebBridgeFirst ==
  \/ CopiesBridge("idle", "bridge") \/ CopiesUart("bridge", "sessions") \/ CopySessions \/ Build
Web == CopyUart \/ CopyBridge \/ CopySessions \/ Build

Next == \/ Tick \/ PublishFrame \/ CountLine \/ CountOverlong \/ CountDrop
        \/ SessionsChange \/ Web

Spec == Init /\ [][Next]_vars

-----------------------------------------------------------------------------
(* Properties.                                                             *)

(* "Idle" is never wrong: when a snapshot says so, no frame it knows of    *)
(* was accepted during the window before it, however rarely the status     *)
(* page asks.                                                              *)
IdleTruthful ==
  snapshot.taken /\ ~snapshot.active /\ snapshot.of.accepted # Never =>
    snapshot.at - snapshot.of.accepted > Window

(* One snapshot does not contradict itself: every line counted as received *)
(* is counted as accepted or rejected, although the two counters are       *)
(* copied at different times while lines keep coming.                      *)
SnapshotConsistent ==
  snapshot.of.uart.lines_rx <= snapshot.of.bridge.frames_in + snapshot.of.bridge.rejected

(* "The ESP NMEA bridge treats input as active when NMEA bridge            *)
(* accepted-frame counts increase during that window" (CONTEXT.md:32): the *)
(* increase is only noticed when the page asks, so an "active" may be      *)
(* late, but by no more than the longest pause between two requests.       *)
ActiveNotStale ==
  snapshot.active => snapshot.at - snapshot.of.accepted <= Window + pause
=============================================================================
