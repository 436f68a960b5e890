----------------------- MODULE BridgeTelemetryProofs ------------------------
(***************************************************************************)
(* Proofs about BridgeTelemetry, for every window and every interleaving   *)
(* of the threads that count with the one that copies.                     *)
(***************************************************************************)
EXTENDS BridgeTelemetry, TLAPS

UartStats == [lines_rx : Nat, overlong_lines : Nat]
BridgeStats == [frames_in : Nat, rejected : Nat, dropped_oldest : Nat]
Inputs == [uart : UartStats, bridge : BridgeStats, sessions : Int, accepted : Int]

Types ==
  /\ now \in Nat /\ accepted \in Int /\ sessions \in Int /\ pause \in Int
  /\ uart \in UartStats /\ bridge \in BridgeStats
  /\ uartPc \in {"rx", "published"}
  /\ webPc \in {"idle", "bridge", "sessions", "build"}
  /\ inputs \in Inputs
  /\ telemetry_state \in [initialized : BOOLEAN, last_frames_in : Nat, last_frame_ms : Int]
  /\ snapshot \in [taken : BOOLEAN, at : Int, of : Inputs, connected : BOOLEAN, active : BOOLEAN,
                   data_quality : BOOLEAN, frame_loss : BOOLEAN]
  /\ copied \in Int \X Int

(* The UART thread counts a frame as accepted or rejected, then its line.  *)
CountInv ==
  IF uartPc = "rx" THEN uart.lines_rx = bridge.frames_in + bridge.rejected
                   ELSE uart.lines_rx + 1 = bridge.frames_in + bridge.rejected

(* The copies, whatever is counted between them.                           *)
CopyInv ==
  /\ webPc = "bridge" => inputs.uart.lines_rx <= bridge.frames_in + bridge.rejected
  /\ webPc \in {"sessions", "build"} =>
       inputs.uart.lines_rx <= inputs.bridge.frames_in + inputs.bridge.rejected
  /\ SnapshotConsistent

(* The newest frame, the newest that was copied and when the copy before   *)
(* it was made: a frame that a copy is the first to see is no older.       *)
FrameInv ==
  /\ accepted <= now /\ (accepted = Never <=> bridge.frames_in = 0) /\ accepted >= Never
  /\ inputs.accepted <= now /\ (inputs.accepted = Never <=> inputs.bridge.frames_in = 0)
  /\ inputs.accepted >= Never
  /\ inputs.bridge.frames_in <= bridge.frames_in
  /\ telemetry_state.last_frames_in <= inputs.bridge.frames_in
  /\ bridge.frames_in = inputs.bridge.frames_in => accepted = inputs.accepted
  /\ copied[2] <= now /\ copied[1] <= now
  /\ bridge.frames_in # inputs.bridge.frames_in => accepted >= copied[2]
  /\ webPc \in {"sessions", "build"} /\ inputs.bridge.frames_in # telemetry_state.last_frames_in =>
       inputs.accepted >= copied[1]

(* What telemetry_state remembers of the snapshot before.                  *)
StateInv ==
  /\ ~telemetry_state.initialized =>
       telemetry_state.last_frames_in = 0 /\ telemetry_state.last_frame_ms = Never
  /\ webPc \in {"idle", "bridge"} => inputs.bridge.frames_in = telemetry_state.last_frames_in
  /\ inputs.bridge.frames_in = telemetry_state.last_frames_in =>
       /\ inputs.accepted <= telemetry_state.last_frame_ms
       /\ telemetry_state.last_frame_ms # Never =>
            /\ inputs.accepted # Never
            /\ telemetry_state.last_frame_ms - inputs.accepted <= pause
  /\ pause >= 0

TelemetryInv == Types /\ CountInv /\ CopyInv /\ FrameInv /\ StateInv /\ IdleTruthful /\ ActiveNotStale

-----------------------------------------------------------------------------
LEMMA TypesInit == Init => Types
<1> SUFFICES ASSUME Init PROVE Types
  OBVIOUS
<1>1. uart \in UartStats /\ bridge \in BridgeStats
  BY DEF Init, UartStats, BridgeStats
<1>2. inputs \in Inputs
  BY <1>1 DEF Init, Inputs, Never
<1>3. telemetry_state \in [initialized : BOOLEAN, last_frames_in : Nat, last_frame_ms : Int]
  BY DEF Init, Never
<1>4. snapshot \in [taken : BOOLEAN, at : Int, of : Inputs, connected : BOOLEAN, active : BOOLEAN,
                    data_quality : BOOLEAN, frame_loss : BOOLEAN]
  BY <1>2 DEF Init
<1> QED BY <1>1, <1>2, <1>3, <1>4 DEF Init, Types, Never

LEMMA TypesStep == ASSUME Types, [Next]_vars PROVE Types'
<1> USE TelemetryAssumption
<1>1. CASE Tick
  BY <1>1 DEF Tick, system, reader, Types
<1>2. CASE PublishFrame
  <2>1. bridge' \in BridgeStats
    BY <1>2 DEF PublishFrame, Types, BridgeStats
  <2>2. accepted' \in Int /\ uartPc' \in {"rx", "published"}
    BY <1>2 DEF PublishFrame, Types
  <2> QED BY <1>2, <2>1, <2>2 DEF PublishFrame, reader, Types
<1>3. CASE CountLine \/ CountOverlong
  <2>1. uart' \in UartStats
    BY <1>3 DEF CountLine, CountOverlong, Types, UartStats
  <2>2. uartPc' \in {"rx", "published"}
    BY <1>3 DEF CountLine, CountOverlong, Types
  <2> QED BY <1>3, <2>1, <2>2 DEF CountLine, CountOverlong, reader, Types
<1>4. CASE CountDrop
  <2>1. bridge' \in BridgeStats
    BY <1>4 DEF CountDrop, Types, BridgeStats
  <2> QED BY <1>4, <2>1 DEF CountDrop, reader, Types
<1>5. CASE SessionsChange
  <2>1. sessions' \in Int
    BY <1>5 DEF SessionsChange
  <2> QED BY <1>5, <2>1 DEF SessionsChange, reader, Types
<1>6. CASE CopyUart \/ CopyBridge \/ CopySessions
  <2>1. inputs' \in Inputs
    BY <1>6 DEF CopyUart, CopyBridge, CopySessions, CopiesUart, CopiesBridge, Copied, Types, Inputs
  <2>2. copied' \in Int \X Int
    BY <1>6 DEF CopyUart, CopyBridge, CopySessions, CopiesUart, CopiesBridge, Copied, Types
  <2>3. webPc' \in {"idle", "bridge", "sessions", "build"}
        /\ UNCHANGED <<now, system, telemetry_state, snapshot, pause>>
    BY <1>6 DEF CopyUart, CopyBridge, CopySessions, CopiesUart, CopiesBridge, Copied
  <2> QED BY <2>1, <2>2, <2>3 DEF system, Types
<1>7. CASE Build
  <2>1. last_bridge_frame_ms \in Int /\ CountSeen \in Nat
    BY DEF last_bridge_frame_ms, CountSeen, Types, Inputs, BridgeStats, Never
  <2>2. telemetry_state' \in [initialized : BOOLEAN, last_frames_in : Nat, last_frame_ms : Int]
    BY <1>7, <2>1 DEF Build
  <2>3. snapshot' \in [taken : BOOLEAN, at : Int, of : Inputs, connected : BOOLEAN, active : BOOLEAN,
                       data_quality : BOOLEAN, frame_loss : BOOLEAN]
    BY <1>7 DEF Build, Types
  <2>4. pause' \in Int
    BY <1>7 DEF Build, Types
  <2> QED BY <1>7, <2>2, <2>3, <2>4 DEF Build, system, Types
<1>8. CASE UNCHANGED vars
  BY <1>8 DEF vars, system, reader, Types
<1> QED BY <1>1, <1>2, <1>3, <1>4, <1>5, <1>6, <1>7, <1>8 DEF Next, Web

LEMMA Numbers ==
  ASSUME Types
  PROVE  /\ now \in Nat /\ accepted \in Int /\ pause \in Int
         /\ uart.lines_rx \in Nat /\ bridge.frames_in \in Nat /\ bridge.rejected \in Nat
         /\ inputs.uart.lines_rx \in Nat /\ inputs.bridge.frames_in \in Nat
         /\ inputs.bridge.rejected \in Nat /\ inputs.accepted \in Int
         /\ telemetry_state.last_frames_in \in Nat /\ telemetry_state.last_frame_ms \in Int
         /\ copied[1] \in Int /\ copied[2] \in Int
  BY DEF Types, UartStats, BridgeStats, Inputs

-----------------------------------------------------------------------------
(* The counters.                                                           *)
LEMMA CountStep == ASSUME Types, CountInv, [Next]_vars PROVE CountInv'
<1> USE Numbers
<1>1. CASE PublishFrame
  <2>1. /\ uartPc = "rx" /\ uartPc' = "published" /\ uart' = uart
        /\ bridge'.frames_in + bridge'.rejected = bridge.frames_in + bridge.rejected + 1
    BY <1>1 DEF PublishFrame, Types, BridgeStats
  <2> QED BY <2>1 DEF CountInv
<1>2. CASE CountLine
  <2>1. uartPc = "published" /\ uartPc' = "rx" /\ bridge' = bridge /\ uart'.lines_rx = uart.lines_rx + 1
    BY <1>2 DEF CountLine, Types, UartStats
  <2> QED BY <2>1 DEF CountInv
<1>3. CASE CountOverlong \/ CountDrop
  <2>1. /\ uartPc' = uartPc /\ uart'.lines_rx = uart.lines_rx
        /\ bridge'.frames_in = bridge.frames_in /\ bridge'.rejected = bridge.rejected
    BY <1>3 DEF CountOverlong, CountDrop, Types, UartStats, BridgeStats
  <2> QED BY <2>1 DEF CountInv
<1>4. CASE Tick \/ SessionsChange \/ Web \/ UNCHANGED vars
  <2>1. UNCHANGED <<uart, bridge, uartPc>>
    BY <1>4 DEF Tick, SessionsChange, Web, CopyUart, CopyBridge, CopySessions, CopiesUart, CopiesBridge,
       Copied, Build, vars, system
  <2> QED BY <2>1 DEF CountInv
<1> QED BY <1>1, <1>2, <1>3, <1>4 DEF Next

(* What the other threads do to what the web thread has copied.            *)
LEMMA OthersCount ==
  ASSUME Types, Tick \/ PublishFrame \/ CountLine \/ CountOverlong \/ CountDrop \/ SessionsChange
                \/ UNCHANGED vars
  PROVE  /\ UNCHANGED <<webPc, inputs, telemetry_state, snapshot, copied, pause>>
         /\ bridge'.frames_in + bridge'.rejected >= bridge.frames_in + bridge.rejected
         /\ now' \in Nat /\ now <= now'
         /\ \/ bridge'.frames_in = bridge.frames_in /\ accepted' = accepted
            \/ bridge'.frames_in = bridge.frames_in + 1 /\ accepted' = now /\ now' = now
<1>1. CASE PublishFrame
  BY <1>1, Numbers DEF PublishFrame, reader, Types, BridgeStats
<1>2. CASE CountDrop
  BY <1>2, Numbers DEF CountDrop, reader, Types, BridgeStats
<1>3. CASE Tick
  BY <1>3, Numbers DEF Tick, system, reader
<1>4. CASE CountLine \/ CountOverlong \/ SessionsChange \/ UNCHANGED vars
  BY <1>4, Numbers DEF CountLine, CountOverlong, SessionsChange, vars, system, reader
<1> QED BY <1>1, <1>2, <1>3, <1>4

(* A copy is one of the counters as they are.                              *)
LEMMA CopyValues ==
  ASSUME Types
  PROVE  /\ CopyUart =>
              /\ inputs'.uart = uart /\ inputs'.bridge = inputs.bridge /\ inputs'.accepted = inputs.accepted
              /\ webPc = "idle" /\ webPc' = "bridge" /\ UNCHANGED copied
         /\ CopyBridge =>
              /\ inputs'.uart = inputs.uart /\ inputs'.bridge = bridge /\ inputs'.accepted = accepted
              /\ webPc = "bridge" /\ webPc' = "sessions" /\ copied' = <<copied[2], now>>
         /\ CopySessions =>
              /\ inputs'.uart = inputs.uart /\ inputs'.bridge = inputs.bridge
              /\ inputs'.accepted = inputs.accepted
              /\ webPc = "sessions" /\ webPc' = "build" /\ UNCHANGED copied
         /\ CopyUart \/ CopyBridge \/ CopySessions =>
              UNCHANGED <<now, uart, bridge, accepted, telemetry_state, snapshot, pause>>
  BY DEF Types, Inputs, CopyUart, CopyBridge, CopySessions, CopiesUart, CopiesBridge, Copied, system

LEMMA CopyStep == ASSUME Types, CountInv, CopyInv, [Next]_vars PROVE CopyInv'
<1> USE Numbers
<1>1. CASE Web
  <2>1. CASE CopyUart
    <3>1. uart.lines_rx <= bridge.frames_in + bridge.rejected
      BY DEF CountInv
    <3> QED BY <2>1, <3>1, CopyValues DEF CopyInv, SnapshotConsistent
  <2>2. CASE CopyBridge
    BY <2>2, CopyValues DEF CopyInv, SnapshotConsistent
  <2>3. CASE CopySessions
    BY <2>3, CopyValues DEF CopyInv, SnapshotConsistent
  <2>4. CASE Build
    <3>1. webPc = "build" /\ webPc' = "idle" /\ snapshot'.of = inputs
      BY <2>4 DEF Build
    <3> QED BY <3>1 DEF CopyInv, SnapshotConsistent
  <2> QED BY <1>1, <2>1, <2>2, <2>3, <2>4 DEF Web
<1>2. CASE ~Web
  <2>1. /\ UNCHANGED <<webPc, inputs, snapshot>>
        /\ bridge'.frames_in + bridge'.rejected >= bridge.frames_in + bridge.rejected
    BY <1>2, OthersCount DEF Next
  <2>2. bridge'.frames_in + bridge'.rejected \in Int
    <3>1. Types'
      BY TypesStep
    <3> QED BY <3>1 DEF Types, BridgeStats
  <2> QED BY <2>1, <2>2 DEF CopyInv, SnapshotConsistent
<1> QED BY <1>1, <1>2

-----------------------------------------------------------------------------
(* The newest frame, and what is remembered of it.                         *)

(* What a snapshot takes as the time of the newest frame.                  *)
LEMMA BuildValues ==
  ASSUME Types, Build
  PROVE  /\ webPc = "build" /\ webPc' = "idle"
         /\ UNCHANGED <<now, bridge, accepted, inputs, copied>>
         /\ telemetry_state'.initialized = TRUE
         /\ telemetry_state'.last_frames_in = inputs.bridge.frames_in
         /\ telemetry_state'.last_frame_ms = last_bridge_frame_ms
         /\ last_bridge_frame_ms \in Int
         /\ snapshot'.taken = TRUE /\ snapshot'.at = now /\ snapshot'.of = inputs
         /\ snapshot'.active = (last_bridge_frame_ms # Never /\ now - last_bridge_frame_ms <= Window)
         /\ pause' = IF now - copied[1] > pause THEN now - copied[1] ELSE pause
<1>1. last_bridge_frame_ms \in Int
  BY Numbers DEF last_bridge_frame_ms, Never
<1>2. PICK l : l = last_bridge_frame_ms
  OBVIOUS
<1>3. /\ telemetry_state' = [initialized |-> TRUE, last_frames_in |-> CountSeen, last_frame_ms |-> l]
      /\ snapshot'.taken = TRUE /\ snapshot'.at = now /\ snapshot'.of = inputs
      /\ snapshot'.active = (l # Never /\ now - l <= Window)
  BY <1>2 DEF Build
<1> QED BY <1>1, <1>2, <1>3 DEF Build, CountSeen, system

LEMMA FrameStep == ASSUME Types, FrameInv, StateInv, [Next]_vars PROVE FrameInv'
<1> USE Numbers
<1>1. CASE ~Web
  <2>1. /\ UNCHANGED <<webPc, inputs, telemetry_state, copied>>
        /\ now' \in Nat /\ now <= now'
        /\ \/ bridge'.frames_in = bridge.frames_in /\ accepted' = accepted
           \/ bridge'.frames_in = bridge.frames_in + 1 /\ accepted' = now /\ now' = now
    BY <1>1, OthersCount DEF Next
  <2>2. CASE bridge'.frames_in = bridge.frames_in /\ accepted' = accepted
    BY <2>1, <2>2 DEF FrameInv, Never
  <2>3. CASE bridge'.frames_in = bridge.frames_in + 1 /\ accepted' = now /\ now' = now
    BY <2>1, <2>3 DEF FrameInv, Never
  <2> QED BY <2>1, <2>2, <2>3
<1>2. CASE CopyUart
  BY <1>2, CopyValues DEF FrameInv
<1>3. CASE CopyBridge
  <2>1. copied'[1] = copied[2] /\ copied'[2] = now
    BY <1>3, CopyValues
  <2>2. inputs.bridge.frames_in = telemetry_state.last_frames_in
    BY <1>3, CopyValues DEF StateInv
  <2> QED BY <1>3, <2>1, <2>2, CopyValues DEF FrameInv
<1>4. CASE CopySessions
  BY <1>4, CopyValues DEF FrameInv
<1>5. CASE Build
  BY <1>5, BuildValues DEF FrameInv
<1> QED BY <1>1, <1>2, <1>3, <1>4, <1>5 DEF Web

(* The time a snapshot takes lies between the newest frame it knows of and *)
(* the pause since the copy before.                                        *)
LEMMA BuildTime ==
  ASSUME Types, FrameInv, StateInv, Build
  PROVE  /\ inputs.accepted <= last_bridge_frame_ms
         /\ last_bridge_frame_ms # Never =>
              inputs.accepted # Never /\ last_bridge_frame_ms - inputs.accepted <= pause'
         /\ pause' >= pause /\ pause' >= now - copied[1] /\ pause' \in Int
<1> USE Numbers
<1>1. pause' >= pause /\ pause' >= now - copied[1] /\ pause' \in Int /\ webPc = "build"
  BY BuildValues
<1>2. CASE ~telemetry_state.initialized
  <2>1. CASE inputs.bridge.frames_in > 0
    <3>1. last_bridge_frame_ms = now
      BY <1>2, <2>1 DEF last_bridge_frame_ms
    <3>2. inputs.accepted >= copied[1] /\ inputs.accepted # Never /\ inputs.accepted <= now
      BY <1>1, <1>2, <2>1 DEF FrameInv, StateInv
    <3> QED BY <1>1, <3>1, <3>2
  <2>2. CASE inputs.bridge.frames_in = 0
    <3>1. last_bridge_frame_ms = Never
      BY <1>2, <2>2 DEF last_bridge_frame_ms
    <3> QED BY <1>1, <2>2, <3>1 DEF FrameInv, Never
  <2> QED BY <2>1, <2>2
<1>3. CASE telemetry_state.initialized /\ inputs.bridge.frames_in # telemetry_state.last_frames_in
  <2>1. last_bridge_frame_ms = now
    BY <1>3 DEF last_bridge_frame_ms
  <2>2. inputs.accepted >= copied[1] /\ inputs.accepted <= now
    BY <1>1, <1>3 DEF FrameInv
  <2>3. inputs.accepted # Never
    BY <1>3 DEF FrameInv
  <2> QED BY <1>1, <2>1, <2>2, <2>3
<1>4. CASE telemetry_state.initialized /\ inputs.bridge.frames_in = telemetry_state.last_frames_in
  <2>1. last_bridge_frame_ms = telemetry_state.last_frame_ms
    BY <1>4 DEF last_bridge_frame_ms
  <2> QED BY <1>1, <1>4, <2>1 DEF StateInv
<1> QED BY <1>2, <1>3, <1>4

LEMMA StateStep == ASSUME Types, FrameInv, StateInv, [Next]_vars PROVE StateInv'
<1> USE Numbers
<1>1. CASE ~Web
  BY <1>1, OthersCount DEF Next, StateInv
<1>2. CASE CopyUart \/ CopySessions
  BY <1>2, CopyValues DEF StateInv
<1>3. CASE CopyBridge
  BY <1>3, CopyValues DEF StateInv, FrameInv
<1>4. CASE Build
  <2>1. PICK l \in Int : l = last_bridge_frame_ms
    BY <1>4, BuildValues
  <2>2. /\ telemetry_state'.initialized /\ telemetry_state'.last_frames_in = inputs.bridge.frames_in
        /\ telemetry_state'.last_frame_ms = l /\ UNCHANGED inputs
    BY <1>4, <2>1, BuildValues
  <2>3. /\ inputs.accepted <= l
        /\ l # Never => inputs.accepted # Never /\ l - inputs.accepted <= pause'
        /\ pause' >= pause /\ pause' \in Int
    BY <1>4, <2>1, BuildTime
  <2> QED BY <2>2, <2>3 DEF StateInv
<1> QED BY <1>1, <1>2, <1>3, <1>4 DEF Web

LEMMA SnapshotStep ==
  ASSUME Types, FrameInv, StateInv, IdleTruthful, ActiveNotStale, [Next]_vars
  PROVE  IdleTruthful' /\ ActiveNotStale'
<1> USE Numbers, TelemetryAssumption
<1>1. CASE ~Build
  <2>1. UNCHANGED <<snapshot, pause>>
    BY <1>1, OthersCount, CopyValues DEF Next, Web
  <2> QED BY <2>1 DEF IdleTruthful, ActiveNotStale
<1>2. CASE Build
  <2>1. PICK l \in Int : l = last_bridge_frame_ms
    BY <1>2, BuildValues
  <2>2. /\ inputs.accepted <= l
        /\ l # Never => inputs.accepted # Never /\ l - inputs.accepted <= pause'
        /\ pause' \in Int
    BY <1>2, <2>1, BuildTime
  <2>3. /\ snapshot'.at = now /\ snapshot'.of.accepted = inputs.accepted
        /\ snapshot'.active = (l # Never /\ now - l <= Window)
    BY <1>2, <2>1, BuildValues
  <2>4. IdleTruthful'
    <3>1. ASSUME ~snapshot'.active, inputs.accepted # Never PROVE now - inputs.accepted > Window
      <4>1. l # Never
        BY <2>2, <3>1 DEF FrameInv, Never
      <4>2. ~(now - l <= Window)
        BY <2>3, <3>1, <4>1
      <4> QED BY <2>2, <4>2
    <3> QED BY <2>3, <3>1 DEF IdleTruthful
  <2>5. ActiveNotStale'
    <3>1. ASSUME snapshot'.active PROVE now - inputs.accepted <= Window + pause'
      <4>1. l # Never /\ now - l <= Window
        BY <2>3, <3>1
      <4> QED BY <2>2, <4>1
    <3> QED BY <2>3, <3>1 DEF ActiveNotStale
  <2> QED BY <2>4, <2>5
<1> QED BY <1>1, <1>2

-----------------------------------------------------------------------------
LEMMA TelemetryInvInit == Init => TelemetryInv
<1> SUFFICES ASSUME Init PROVE TelemetryInv
  OBVIOUS
<1>1. CountInv /\ CopyInv
  BY DEF Init, CountInv, CopyInv, SnapshotConsistent
<1>2. FrameInv /\ StateInv
  BY DEF Init, FrameInv, StateInv, Never
<1>3. IdleTruthful /\ ActiveNotStale
  BY DEF Init, IdleTruthful, ActiveNotStale
<1> QED BY <1>1, <1>2, <1>3, TypesInit DEF TelemetryInv

LEMMA TelemetryInvStep == TelemetryInv /\ [Next]_vars => TelemetryInv'
  BY TypesStep, CountStep, CopyStep, FrameStep, StateStep, SnapshotStep DEF TelemetryInv

LEMMA TelemetryInvariant == Spec => []TelemetryInv
  BY TelemetryInvInit, TelemetryInvStep, PTL DEF Spec

(* However rarely bridge_telemetry_get_snapshot is called, the state it    *)
(* derives is "idle" only when the newest frame it knows of is older than  *)
(* the window.                                                             *)
THEOREM IdleCorrect == Spec => []IdleTruthful
<1>1. TelemetryInv => IdleTruthful
  BY DEF TelemetryInv
<1> QED BY <1>1, TelemetryInvariant, PTL

(* collect_inputs copies the counters one by one in an order that keeps    *)
(* lines received no greater than frames accepted and rejected.            *)
THEOREM SnapshotCorrect == Spec => []SnapshotConsistent
<1>1. TelemetryInv => SnapshotConsistent
  BY DEF TelemetryInv, CopyInv
<1> QED BY <1>1, TelemetryInvariant, PTL

(* A derived "active" is late by no more than the longest pause between    *)
(* two calls of bridge_telemetry_get_snapshot.                             *)
THEOREM ActiveCorrect == Spec => []ActiveNotStale
<1>1. TelemetryInv => ActiveNotStale
  BY DEF TelemetryInv
<1> QED BY <1>1, TelemetryInvariant, PTL
=============================================================================
