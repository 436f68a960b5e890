----------------------------- MODULE BootProofs -----------------------------
(***************************************************************************)
(* Proofs about Boot and the Wi-Fi manager in it, for every set of build   *)
(* options, every set of readers and both kinds of event thread.           *)
(***************************************************************************)
EXTENDS Boot, TLAPS

MainPcs == {"before", "rotate", "mac", "up", "ap", "enable", "disconnect", "connect",
            "accepted", "returned", "done"}
RetryPcs == {"off", "waiting", "poll", "backoff", "disconnect", "connect", "accepted", "returned"}

(* The types of the Wi-Fi manager's other variables.                       *)
FlagsOK ==
  /\ sta_connected \in BOOLEAN /\ sta_has_addr \in BOOLEAN
  /\ sta_connect_requested \in BOOLEAN
RetryOK == sta_retry_backoff_s \in {5, 10, 20, 40, 60} /\ sta_retry_enabled \in BOOLEAN
LinkOK == link \in {"idle", "pending", "up"} /\ addr \in BOOLEAN
SetUpOK ==
  /\ config \in Configs
  /\ sta_up \in BOOLEAN /\ was_up \in BOOLEAN /\ up_failed \in BOOLEAN
  /\ dhcp_server \in BOOLEAN /\ ap \in BOOLEAN /\ ret \in BOOLEAN
FieldsOK ==
  /\ FlagsOK /\ RetryOK /\ LinkOK /\ SetUpOK
  /\ rpc \in [Readers -> {"out", "search", "mark", "has_addr"}]

(* Where main and the retry thread are.                                    *)
PcOK ==
  /\ pc \in [{"main", "retry"} -> MainPcs \cup RetryPcs]
  /\ pc["main"] \in MainPcs
  /\ pc["retry"] \in RetryPcs

(* main calls wifi_manager_start once.                                     *)
MainOK ==
  /\ mainPc \in {"bridge", "led", "uart", "sleep", "wifi", "server", "thread", "client",
                 "web", "done", "failed"}
  /\ mainPc \in {"bridge", "led", "uart", "sleep", "failed"} => pc["main"] = "before"
  /\ mainPc \in {"server", "thread", "client", "web", "done"} => pc["main"] = "done"

(* The retry thread is past its gate only when wifi_manager_start is over. *)
GateOK == /\ pc["retry"] \notin {"off", "waiting"} => sta_retry_enabled
          /\ sta_retry_enabled => pc["main"] = "done"

(* StartLeavesWhole at every step of wifi_manager_start.                   *)
StartOK ==
  /\ pc["main"] \in {"before", "rotate"} => ~was_up
  /\ pc["main"] \notin {"before", "rotate", "mac", "up"} /\ was_up => sta_up \/ up_failed
  /\ ap => dhcp_server
  /\ pc["main"] = "enable" => dhcp_server
  /\ pc["main"] \in Connecting \cup {"done"} /\ config.ap /\ ~ret => ap

-----------------------------------------------------------------------------
LEMMA PcStep == ASSUME PcOK, Next PROVE PcOK'
<1>1. CASE Wifi
  BY <1>1, ZenonT(30) DEF Wifi, Driver, ConnectSucceeds, ConnectFails, LinkLost, AddressAdded, LeaseBound, ApNews, DhcpStop, EventThread,
     OnConnected, OnConnectFailed, OnDisconnected, OnAddress, OnApNews, OnDhcpStop, Dequeue, RetryThread, Wait,
     Poll, Recheck, Retried, Connect, Disconnect, ConnectSkipped, ConnectAccepted, ConnectRefused,
     NoteRequested, StartWifi, StartStep, RotateSkipped, RotateDown, SetMac, IfaceUp, IfaceUpFails,
     ApDisabled, DhcpServerFails, DhcpServerStarts, EnableAp, AfterAp, Started, Reader, LookAtFlags,
     Search, Mark, MarkAddr, Goto, PcOK, MainPcs, RetryPcs
<1>2. CASE Main
  BY <1>2 DEF Main, InitBridge, StartLed, StartUart, UartNotReady, CallWifi, CallStart, WifiReturned,
     ServerDisabled, InitClientsLock, StartServer, StartClient, StartWeb, wifiVars, Goto, PcOK, MainPcs, RetryPcs
<1>3. CASE Thread
  BY <1>3 DEF Thread, Publish, Dispatch, Session, AllocSlot, CountSlots, wifiVars, PcOK
<1> QED BY <1>1, <1>2, <1>3 DEF Next

LEMMA FieldsStep == ASSUME FieldsOK, Next PROVE FieldsOK'
<1>1. UNCHANGED flags => FlagsOK'
  BY DEF flags, FieldsOK, FlagsOK
<1>2. UNCHANGED retry => RetryOK'
  BY DEF retry, FieldsOK, RetryOK
<1>3. UNCHANGED <<link, addr>> => LinkOK'
  BY DEF FieldsOK, LinkOK
<1>4. UNCHANGED startVars => SetUpOK'
  BY DEF startVars, rotateVars, FieldsOK, SetUpOK
<1>5. UNCHANGED rpc => rpc' \in [Readers -> {"out", "search", "mark", "has_addr"}]
  BY DEF FieldsOK
<1> USE <1>1, <1>2, <1>3, <1>4, <1>5 DEF FieldsOK
<1>6. CASE Driver
  BY <1>6 DEF Driver, ConnectSucceeds, ConnectFails, LinkLost, AddressAdded, LeaseBound, ApNews, DhcpStop, LinkOK
<1>7. CASE EventThread
  <2>1. UNCHANGED <<link, addr, rpc, startVars, sta_retry_enabled>>
    BY <1>7 DEF EventThread, OnConnected, OnConnectFailed, OnDisconnected, OnAddress, OnApNews, OnDhcpStop, Dequeue
  <2>2. RetryOK'
    BY <1>7, <2>1 DEF EventThread, OnConnected, OnConnectFailed, OnDisconnected, OnAddress, OnApNews, OnDhcpStop,
       RetryOK
  <2>3. FlagsOK'
    BY <1>7 DEF EventThread, OnConnected, OnConnectFailed, OnDisconnected, OnAddress, OnApNews, OnDhcpStop,
       ClearFlags, MarkReady, FlagsOK
  <2> QED BY <2>1, <2>2, <2>3
<1>8. CASE \E r \in Readers \cap running : Reader(r)
  <2>1. UNCHANGED <<retry, link, addr, startVars>>
    BY <1>8 DEF Reader, LookAtFlags, Search, Mark, MarkAddr
  <2>2. FlagsOK'
    BY <1>8 DEF Reader, LookAtFlags, Search, Mark, MarkAddr, flags, FlagsOK
  <2>3. rpc' \in [Readers -> {"out", "search", "mark", "has_addr"}]
    BY <1>8 DEF Reader, LookAtFlags, Search, Mark, MarkAddr
  <2> QED BY <2>1, <2>2, <2>3
<1>9. ASSUME NEW p, Connect(p) PROVE FieldsOK'
  <2>1. UNCHANGED <<retry, rpc, addr, config, rotateVars, dhcp_server, ap>>
    BY <1>9 DEF Connect, Disconnect, ConnectSkipped, ConnectAccepted, ConnectRefused, NoteRequested,
       startVars
  <2>2. ret' \in BOOLEAN
    BY <1>9 DEF Connect, Disconnect, ConnectSkipped, ConnectAccepted, ConnectRefused, NoteRequested,
       startVars, SetUpOK
  <2>3. SetUpOK'
    BY <2>1, <2>2 DEF rotateVars, SetUpOK
  <2>4. link' \in {"idle", "pending", "up"}
    BY <1>9 DEF Connect, Disconnect, ConnectSkipped, ConnectAccepted, ConnectRefused, NoteRequested,
       LinkOK
  <2>5. FlagsOK'
    BY <1>9 DEF Connect, Disconnect, ConnectSkipped, ConnectAccepted, ConnectRefused, NoteRequested,
       FlagsOK, flags
  <2> QED BY <2>1, <2>3, <2>4, <2>5 DEF LinkOK
<1>10. CASE Wait \/ Poll \/ Recheck
  BY <1>10 DEF Wait, Poll, Recheck
<1>11. CASE Retried \/ Started
  <2>1. CASE Started
    BY <2>1 DEF Started, RetryOK
  <2>2. CASE Retried
    <3>1. sta_retry_backoff_s \in {5, 10, 20, 40, 60}
      BY DEF RetryOK
    <3>2. NextBackoff \in {5, 10, 20, 40, 60}
      BY <3>1 DEF NextBackoff
    <3> QED BY <2>2, <3>2 DEF Retried, RetryOK
  <2> QED BY <1>11, <2>1, <2>2
<1>12. CASE StartStep
  <2>1. UNCHANGED <<flags, retry, rpc, link, addr>>
    BY <1>12 DEF StartStep, RotateSkipped, RotateDown, SetMac, IfaceUp, IfaceUpFails, ApDisabled,
       DhcpServerFails, DhcpServerStarts, EnableAp
  <2>2. SetUpOK'
    BY <1>12 DEF StartStep, RotateSkipped, RotateDown, SetMac, IfaceUp, IfaceUpFails, ApDisabled,
       DhcpServerFails, DhcpServerStarts, EnableAp, startVars, rotateVars, SetUpOK
  <2> QED BY <2>1, <2>2
<1>13. CASE Main \/ Thread
  BY <1>13 DEF Main, InitBridge, StartLed, StartUart, UartNotReady, CallWifi, CallStart, WifiReturned,
     ServerDisabled, InitClientsLock, StartServer, StartClient, StartWeb, Thread, Publish, Dispatch, Session, AllocSlot, CountSlots,
     wifiVars
<1> QED
  BY <1>6, <1>7, <1>8, <1>9, <1>10, <1>11, <1>12, <1>13 DEF Next, Wifi, RetryThread, StartWifi

(* Everything but main leaves its place alone, and what it sets up.        *)
LEMMA OthersLeaveMain ==
  ASSUME FieldsOK, PcOK, Driver \/ EventThread \/ RetryThread \/ \E r \in Readers : Reader(r)
  PROVE  pc'["main"] = pc["main"] /\ UNCHANGED <<sta_retry_enabled, startVars>>
<1>1. CASE Driver \/ EventThread \/ \E r \in Readers : Reader(r)
  BY <1>1 DEF Driver, ConnectSucceeds, ConnectFails, LinkLost, AddressAdded, LeaseBound, ApNews, DhcpStop, EventThread,
     OnConnected, OnConnectFailed, OnDisconnected, OnAddress, OnApNews, OnDhcpStop, Dequeue, Reader, LookAtFlags,
     Search, Mark, MarkAddr, retry
<1>2. CASE RetryThread
  <2>1. UNCHANGED sta_retry_enabled /\ \E l : pc' = [pc EXCEPT !["retry"] = l]
    BY <1>2 DEF RetryThread, Wait, Poll, Recheck, Retried, Connect, Disconnect, ConnectSkipped,
       ConnectAccepted, ConnectRefused, NoteRequested, Goto, retry
  <2>2. CASE ConnectRefused("retry")
    <3>1. ret' = (ret \/ FALSE)
      BY <2>2 DEF ConnectRefused
    <3>2. UNCHANGED ret
      BY <3>1 DEF FieldsOK, SetUpOK
    <3> QED BY <2>1, <2>2, <3>2 DEF ConnectRefused, PcOK, startVars
  <2>3. CASE ~ConnectRefused("retry")
    <3>1. UNCHANGED startVars
      BY <1>2, <2>3 DEF RetryThread, Wait, Poll, Recheck, Retried, Connect, Disconnect, ConnectSkipped,
         ConnectAccepted, NoteRequested
    <3> QED BY <2>1, <3>1 DEF PcOK
  <2> QED BY <2>2, <2>3
<1> QED BY <1>1, <1>2

LEMMA MainStepOK == ASSUME FieldsOK, PcOK, MainOK, Next PROVE MainOK'
<1>1. CASE Wifi /\ UNCHANGED bootVars
  <2>1. CASE mainPc = "wifi"
    BY <1>1, <2>1 DEF bootVars, MainOK
  <2>2. CASE mainPc # "wifi"
    <3>1. Driver \/ EventThread \/ RetryThread \/ \E r \in Readers : Reader(r)
      BY <1>1, <2>2 DEF Wifi
    <3> QED BY <1>1, <3>1, OthersLeaveMain DEF bootVars, MainOK
  <2> QED BY <2>1, <2>2
<1>2. CASE Main
  BY <1>2 DEF Main, MainStep, InitBridge, StartLed, StartUart, UartNotReady, CallWifi, CallStart,
     WifiReturned, ServerDisabled, InitClientsLock, StartServer, StartClient, StartWeb, wifiVars, Goto, PcOK, MainOK
<1>3. CASE Thread
  BY <1>3 DEF Thread, Publish, Dispatch, Session, AllocSlot, CountSlots, wifiVars, MainOK
<1> QED BY <1>1, <1>2, <1>3 DEF Next

LEMMA GateStep == ASSUME FieldsOK, PcOK, MainOK, GateOK, Next PROVE GateOK'
<1>1. CASE Driver \/ EventThread \/ \E r \in Readers \cap running : Reader(r)
  <2>1. UNCHANGED <<pc, sta_retry_enabled>>
    BY <1>1 DEF Driver, ConnectSucceeds, ConnectFails, LinkLost, AddressAdded, LeaseBound, ApNews, DhcpStop, EventThread,
       OnConnected, OnConnectFailed, OnDisconnected, OnAddress, OnApNews, OnDhcpStop, Dequeue, Reader, LookAtFlags,
       Search, Mark, MarkAddr, retry
  <2> QED BY <2>1 DEF GateOK
<1>2. CASE RetryThread
  <2>1. pc["retry"] = "waiting" => sta_retry_enabled
    BY <1>2 DEF RetryThread, Wait, Poll, Recheck, Retried, Connect, Disconnect, ConnectSkipped,
       ConnectAccepted, ConnectRefused, NoteRequested
  <2>2. pc["retry"] # "off"
    BY <1>2 DEF RetryThread, Wait, Poll, Recheck, Retried, Connect, Disconnect, ConnectSkipped,
       ConnectAccepted, ConnectRefused, NoteRequested
  <2> QED BY <1>2, <2>1, <2>2, OthersLeaveMain DEF GateOK
<1>3. CASE mainPc = "wifi" /\ StartWifi
  <2>1. pc["main"] # "done" /\ pc'["retry"] = pc["retry"]
    BY <1>3 DEF StartWifi, StartStep, RotateSkipped, RotateDown, SetMac, IfaceUp, IfaceUpFails,
       ApDisabled, DhcpServerFails, DhcpServerStarts, EnableAp, Started, Connect, Disconnect,
       ConnectSkipped, ConnectAccepted, ConnectRefused, NoteRequested, Goto, PcOK
  <2>2. UNCHANGED sta_retry_enabled \/ (sta_retry_enabled' /\ pc'["main"] = "done")
    BY <1>3 DEF StartWifi, StartStep, RotateSkipped, RotateDown, SetMac, IfaceUp, IfaceUpFails,
       ApDisabled, DhcpServerFails, DhcpServerStarts, EnableAp, Started, Connect, Disconnect,
       ConnectSkipped, ConnectAccepted, ConnectRefused, NoteRequested, Goto, PcOK, retry
  <2> QED BY <2>1, <2>2 DEF GateOK
<1>4. CASE Main
  <2>1. UNCHANGED sta_retry_enabled /\ pc'["retry"] = pc["retry"]
        /\ (pc["main"] = "done" => pc'["main"] = "done")
    BY <1>4 DEF Main, MainStep, InitBridge, StartLed, StartUart, UartNotReady, CallWifi, CallStart,
       WifiReturned, ServerDisabled, InitClientsLock, StartServer, StartClient, StartWeb, wifiVars, Goto, PcOK, retry
  <2> QED BY <2>1 DEF GateOK
<1>5. CASE Thread
  BY <1>5 DEF Thread, Publish, Dispatch, Session, AllocSlot, CountSlots, wifiVars, retry, GateOK
<1> QED BY <1>1, <1>2, <1>3, <1>4, <1>5 DEF Next, Wifi

LEMMA StartOKStep == ASSUME FieldsOK, PcOK, GateOK, StartOK, Next PROVE StartOK'
<1>1. CASE Driver \/ EventThread \/ RetryThread \/ \E r \in Readers \cap running : Reader(r)
  <2>1. pc'["main"] = pc["main"] /\ UNCHANGED startVars
    BY <1>1, OthersLeaveMain
  <2> QED BY <2>1 DEF startVars, rotateVars, StartOK
<1>2. CASE StartStep
  <2>1. CASE RotateSkipped \/ RotateDown \/ SetMac \/ IfaceUp \/ IfaceUpFails
    BY <2>1 DEF RotateSkipped, RotateDown, SetMac, IfaceUp, IfaceUpFails, Goto, PcOK, startVars,
       rotateVars, StartOK, Connecting
  <2>2. CASE ApDisabled \/ DhcpServerFails \/ DhcpServerStarts \/ EnableAp
    BY <2>2 DEF ApDisabled, DhcpServerFails, DhcpServerStarts, EnableAp, AfterAp, Goto, PcOK, startVars,
       rotateVars, StartOK, Connecting
  <2> QED BY <1>2, <2>1, <2>2 DEF StartStep
<1>3. CASE Connect("main") \/ Started
  <2>1. /\ pc["main"] \in Connecting /\ pc'["main"] \in Connecting \cup {"done"}
        /\ UNCHANGED <<config, rotateVars, dhcp_server, ap>> /\ (ret' \/ UNCHANGED ret)
    BY <1>3 DEF Started, Connect, Disconnect, ConnectSkipped, ConnectAccepted, ConnectRefused,
       NoteRequested, Goto, PcOK, startVars, Connecting
  <2> QED BY <2>1 DEF rotateVars, StartOK, Connecting
<1>4. CASE Main
  <2>1. /\ UNCHANGED startVars
        /\ \/ pc'["main"] = pc["main"]
           \/ pc["main"] = "before" /\ pc'["main"] \in {"rotate", "ap"}
    BY <1>4 DEF Main, InitBridge, StartLed, StartUart, UartNotReady, CallWifi, CallStart,
       WifiReturned, ServerDisabled, InitClientsLock, StartServer, StartClient, StartWeb, wifiVars, Goto, PcOK
  <2> QED BY <2>1 DEF StartOK, startVars, rotateVars, Connecting
<1>5. CASE Thread
  BY <1>5 DEF Thread, Publish, Dispatch, Session, AllocSlot, CountSlots, wifiVars, startVars, rotateVars,
     StartOK
<1> QED BY <1>1, <1>2, <1>3, <1>4, <1>5 DEF Next, Wifi, StartWifi

-----------------------------------------------------------------------------
(* The threads that exist and the mutexes that are set up by then.         *)
LocksOK ==
  /\ running \subseteq {"dispatcher", "stats", "retry", "led", "uart", "server", "client", "web"}
  /\ inits \subseteq {"sinks_lock", "clients_lock"}
  /\ ingest \in BOOLEAN
  /\ early \subseteq {"sinks_lock", "clients_lock"}
  /\ mainPc # "bridge" => "sinks_lock" \in inits
  /\ mainPc \in {"thread", "client", "web", "done"} /\ config.server => "clients_lock" \in inits
  /\ "uart" \in running \/ ingest => mainPc # "bridge"
  /\ "server" \in running => mainPc \in {"client", "web", "done"}
  /\ "client" \in running => mainPc \in {"web", "done"}
  /\ "web" \in running => mainPc = "done"
  /\ InitBeforeUse

LEMMA LocksStep == ASSUME MainOK, LocksOK, Next PROVE LocksOK'
<1>1. CASE Main
  <2>1. UNCHANGED <<config, ingest, early>>
    BY <1>1 DEF Main, MainStep, InitBridge, StartLed, StartUart, UartNotReady, CallWifi, CallStart,
       WifiReturned, ServerDisabled, InitClientsLock, StartServer, StartClient, StartWeb, wifiVars, startVars
  <2>2. CASE InitBridge \/ StartLed \/ StartUart \/ UartNotReady
    BY <2>1, <2>2 DEF InitBridge, StartLed, StartUart, UartNotReady, MainStep, LocksOK, InitBeforeUse
  <2>3. CASE CallWifi \/ WifiReturned
    BY <2>1, <2>3 DEF CallWifi, WifiReturned, MainStep, wifiVars, LocksOK, InitBeforeUse
  <2>4. CASE ServerDisabled \/ InitClientsLock \/ StartServer
    BY <2>1, <2>4 DEF ServerDisabled, InitClientsLock, StartServer, MainStep, LocksOK, InitBeforeUse
  <2>5. CASE StartClient \/ StartWeb
    BY <2>1, <2>5 DEF StartClient, StartWeb, MainStep, LocksOK, InitBeforeUse
  <2> QED BY <1>1, <2>2, <2>3, <2>4, <2>5 DEF Main
<1>2. CASE Thread
  <2>1. UNCHANGED <<config, mainPc, running, inits>>
    BY <1>2 DEF Thread, Publish, Dispatch, Session, AllocSlot, CountSlots, wifiVars, startVars
  <2>2. \/ UNCHANGED early
        \/ ingest /\ early' = early \cup ({"sinks_lock"} \ inits)
        \/ running \cap {"server", "client"} # {} /\ early' = early \cup ({"sinks_lock"} \ inits)
        \/ "server" \in running /\ early' = early \cup ({"clients_lock"} \ inits)
        \/ "web" \in running /\ early' = early \cup ({"clients_lock"} \ inits)
    BY <1>2 DEF Thread, Publish, Dispatch, Session, AllocSlot, CountSlots, Takes
  <2>3. UNCHANGED ingest \/ ingest' = FALSE \/ (ingest' = TRUE /\ "uart" \in running)
    BY <1>2 DEF Thread, Publish, Dispatch, Session, AllocSlot, CountSlots
  <2>4. ingest' \in BOOLEAN /\ ("uart" \in running' \/ ingest' => mainPc' # "bridge")
    <3>1. CASE UNCHANGED ingest
      BY <2>1, <3>1, Zenon DEF LocksOK
    <3>2. CASE ingest' = FALSE
      BY <2>1, <3>2 DEF LocksOK
    <3>3. CASE ingest' = TRUE /\ "uart" \in running
      BY <2>1, <3>3 DEF LocksOK
    <3> QED BY <2>3, <3>1, <3>2, <3>3
  <2> QED BY <2>1, <2>2, <2>4 DEF LocksOK, InitBeforeUse
<1>3. CASE Wifi /\ UNCHANGED bootVars
  <2>1. UNCHANGED config
    BY <1>3 DEF Wifi, Driver, ConnectSucceeds, ConnectFails, LinkLost, AddressAdded, LeaseBound, ApNews, DhcpStop, EventThread,
       OnConnected, OnConnectFailed, OnDisconnected, OnAddress, OnApNews, OnDhcpStop, Dequeue, RetryThread, Wait,
       Poll, Recheck, Retried, Connect, Disconnect, ConnectSkipped, ConnectAccepted, ConnectRefused,
       NoteRequested, StartWifi, StartStep, RotateSkipped, RotateDown, SetMac, IfaceUp, IfaceUpFails,
       ApDisabled, DhcpServerFails, DhcpServerStarts, EnableAp, Started, Reader, LookAtFlags, Search,
       Mark, MarkAddr, startVars
  <2> QED BY <1>3, <2>1 DEF bootVars, LocksOK, InitBeforeUse
<1> QED BY <1>1, <1>2, <1>3 DEF Next

-----------------------------------------------------------------------------
(* The inductive invariant behind the order of the boot.                   *)
BootInv == FieldsOK /\ PcOK /\ MainOK /\ GateOK /\ StartOK /\ LocksOK

LEMMA BootInvInit == Init => BootInv
<1> SUFFICES ASSUME Init PROVE BootInv
  OBVIOUS
<1>1. /\ pc["main"] = "before" /\ pc["retry"] \in {"waiting", "off"}
      /\ pc \in [{"main", "retry"} -> {"before", "waiting", "off"}]
  BY DEF Init, WifiInit
<1>2. FieldsOK
  BY DEF Init, WifiInit, FieldsOK, FlagsOK, RetryOK, LinkOK, SetUpOK
<1>3. PcOK /\ MainOK /\ GateOK /\ StartOK
  BY <1>1 DEF Init, WifiInit, PcOK, MainPcs, RetryPcs, MainOK, GateOK, StartOK, Connecting
<1>4. LocksOK
  BY DEF Init, LocksOK, InitBeforeUse
<1> QED BY <1>2, <1>3, <1>4 DEF BootInv

LEMMA BootInvStep == BootInv /\ [Next]_vars => BootInv'
<1> SUFFICES ASSUME BootInv, [Next]_vars PROVE BootInv'
  OBVIOUS
<1>1. CASE Next
  BY <1>1, FieldsStep, PcStep, MainStepOK, GateStep, StartOKStep, LocksStep DEF BootInv
<1>2. CASE UNCHANGED vars
  <2>1. UNCHANGED <<flags, retry, pc, rpc, link, addr, startVars, mainPc, running, inits, ingest, early>>
    BY <1>2 DEF vars, wifiVars, bootVars
  <2>2. FieldsOK'
    BY <2>1 DEF BootInv, FieldsOK, FlagsOK, RetryOK, LinkOK, SetUpOK, flags, retry, startVars, rotateVars
  <2>3. PcOK' /\ MainOK' /\ GateOK' /\ StartOK' /\ LocksOK'
    BY <2>1 DEF BootInv, PcOK, MainOK, GateOK, StartOK, LocksOK, InitBeforeUse, retry, startVars,
       rotateVars
  <2> QED BY <2>2, <2>3 DEF BootInv
<1> QED BY <1>1, <1>2

LEMMA BootInvariant == Spec => []BootInv
  BY BootInvInit, BootInvStep, PTL DEF Spec

(* No thread takes sinks_lock before nmea_bridge_init, nor clients_lock    *)
(* before tcp_nmea_server_start where the server is configured, in         *)
(* whatever order the threads run.                                         *)
THEOREM BootOrderCorrect == Spec => []InitBeforeUse
<1>1. BootInv => InitBeforeUse
  BY DEF BootInv, LocksOK
<1> QED BY <1>1, BootInvariant, PTL

(* sta_retry_enabled keeps sta_retry_thread away from connect_sta and      *)
(* disconnect_sta until wifi_manager_start is done with them.              *)
THEOREM OneConnectorCorrect == Spec => []OneConnector
<1>1. BootInv => OneConnector
  BY DEF BootInv, GateOK, OneConnector, Connecting
<1> QED BY <1>1, BootInvariant, PTL

(* wifi_manager_start leaves the station's interface as it found it, and   *)
(* no access point without its DHCP server, whichever of its steps failed, *)
(* except net_if_up itself: after that failure the interface stays down.   *)
THEOREM StartLeavesWholeCorrect == Spec => []StartLeavesWhole
<1>1. BootInv => StartLeavesWhole
  BY DEF BootInv, StartOK, StartLeavesWhole
<1> QED BY <1>1, BootInvariant, PTL

-----------------------------------------------------------------------------
(* The event queue and the histories.                                      *)
EventKinds == {"connected", "failed", "disconnected", "address", "stopped", "ap"}
QueueOK == events \in Seq(EventKinds) /\ Len(events) <= EventQueueSize /\ lost \in BOOLEAN
RaceOK == /\ overtaken \subseteq Readers \cup {"main", "retry"}
          /\ stale \subseteq {"sta_connected", "sta_connect_requested"}
NewsOK == QueueOK /\ RaceOK

(* What a step does to the queue: nothing, an event in, the first out.     *)
LEMMA QueueEffect ==
  ASSUME Next
  PROVE  \/ UNCHANGED <<events, lost>>
         \/ \E e \in EventKinds : Raise(e)
         \/ events # <<>> /\ events' = Tail(events) /\ UNCHANGED lost
<1>1. CASE Driver
  BY <1>1 DEF Driver, ConnectSucceeds, ConnectFails, LinkLost, AddressAdded, LeaseBound, ApNews,
     DhcpStop, EventKinds
<1>2. CASE EventThread
  BY <1>2 DEF EventThread, OnConnected, OnConnectFailed, OnDisconnected, OnAddress, OnApNews,
     OnDhcpStop, Dequeue
<1>3. CASE \E r \in Readers \cap running : Reader(r)
  BY <1>3 DEF Reader, LookAtFlags, Search, Mark, MarkAddr, news
<1>4. ASSUME NEW p, Connect(p)
      PROVE  UNCHANGED <<events, lost>> \/ \E e \in EventKinds : Raise(e)
  BY <1>4 DEF Connect, Disconnect, ConnectSkipped, ConnectAccepted, ConnectRefused, NoteRequested,
     news, EventKinds
<1>5. CASE Wait \/ Poll \/ Recheck \/ Retried \/ Started
  BY <1>5 DEF Wait, Poll, Recheck, Retried, Started, news
<1>6. CASE StartStep
  BY <1>6 DEF StartStep, RotateSkipped, RotateDown, SetMac, IfaceUp, IfaceUpFails, ApDisabled,
     DhcpServerFails, DhcpServerStarts, EnableAp, ApAddress, news, EventKinds
<1>7. CASE Main \/ Thread
  BY <1>7 DEF Main, InitBridge, StartLed, StartUart, UartNotReady, CallWifi, CallStart, WifiReturned,
     ServerDisabled, InitClientsLock, StartServer, StartClient, StartWeb, Thread, Publish, Dispatch,
     Session, AllocSlot, CountSlots, wifiVars, news
<1> QED BY <1>1, <1>2, <1>3, <1>4, <1>5, <1>6, <1>7 DEF Next, Wifi, RetryThread, StartWifi

LEMMA QueueStep == ASSUME QueueOK, Next PROVE QueueOK'
<1>1. CASE UNCHANGED <<events, lost>>
  BY <1>1 DEF QueueOK
<1>2. ASSUME NEW e \in EventKinds, Raise(e) PROVE QueueOK'
  <2>1. CASE Len(events) < EventQueueSize
    <3>1. events' = Append(events, e) /\ UNCHANGED lost /\ events \in Seq(EventKinds)
      BY <1>2, <2>1 DEF Raise, QueueOK
    <3>2. events' \in Seq(EventKinds) /\ Len(events') = Len(events) + 1 /\ Len(events) \in Nat
      BY <3>1
    <3> QED BY <2>1, <3>1, <3>2, WifiAssumption DEF QueueOK
  <2>2. CASE ~(Len(events) < EventQueueSize)
    BY <1>2, <2>2 DEF Raise, QueueOK, BadNews
  <2> QED BY <2>1, <2>2
<1>3. CASE events # <<>> /\ events' = Tail(events) /\ UNCHANGED lost
  BY <1>3, WifiAssumption DEF QueueOK
<1> QED BY <1>1, <1>2, <1>3, QueueEffect

(* Nothing else than the event thread, a reader and the end of a request   *)
(* touches the histories.                                                  *)
LEMMA RaceEffect ==
  ASSUME Next
  PROVE  \/ UNCHANGED race
         \/ EventThread
         \/ \E r \in Readers : Reader(r)
         \/ \E p \in {"main", "retry"} : ConnectRefused(p) \/ NoteRequested(p)
<1>1. CASE Driver
  BY <1>1 DEF Driver, ConnectSucceeds, ConnectFails, LinkLost, AddressAdded, LeaseBound, ApNews,
     DhcpStop
<1>2. ASSUME NEW p, Connect(p) PROVE UNCHANGED race \/ ConnectRefused(p) \/ NoteRequested(p)
  BY <1>2 DEF Connect, Disconnect, ConnectSkipped, ConnectAccepted, news
<1>3. CASE Wait \/ Poll \/ Recheck \/ Retried \/ Started
  BY <1>3 DEF Wait, Poll, Recheck, Retried, Started, news
<1>4. CASE StartStep
  BY <1>4 DEF StartStep, RotateSkipped, RotateDown, SetMac, IfaceUp, IfaceUpFails, ApDisabled,
     DhcpServerFails, DhcpServerStarts, EnableAp, news
<1>5. CASE Main \/ Thread
  BY <1>5 DEF Main, InitBridge, StartLed, StartUart, UartNotReady, CallWifi, CallStart, WifiReturned,
     ServerDisabled, InitClientsLock, StartServer, StartClient, StartWeb, Thread, Publish, Dispatch,
     Session, AllocSlot, CountSlots, wifiVars, news
<1> QED BY <1>1, <1>2, <1>3, <1>4, <1>5 DEF Next, Wifi, RetryThread, StartWifi

LEMMA RaceStep == ASSUME RaceOK, Next PROVE RaceOK'
<1>1. CASE UNCHANGED race
  BY <1>1 DEF race, RaceOK
<1>2. CASE EventThread
  BY <1>2 DEF EventThread, OnConnected, OnConnectFailed, OnDisconnected, OnAddress, OnApNews,
     OnDhcpStop, MarkReady, ClearFlags, TooLate, race, RaceOK
<1>3. ASSUME NEW r \in Readers, Reader(r) PROVE RaceOK'
  BY <1>3 DEF Reader, LookAtFlags, Search, Mark, MarkAddr, Wrote, news, race, RaceOK
<1>4. ASSUME NEW p \in {"main", "retry"}, ConnectRefused(p) \/ NoteRequested(p) PROVE RaceOK'
  BY <1>4 DEF ConnectRefused, NoteRequested, Wrote, RaceOK
<1> QED BY <1>1, <1>2, <1>3, <1>4, RaceEffect

TypeInv == BootInv /\ NewsOK

LEMMA TypeInvariant == Spec => []TypeInv
<1>1. Init => NewsOK
  <2>1. <<>> \in Seq(EventKinds) /\ Len(<<>>) <= EventQueueSize
    BY WifiAssumption
  <2> QED BY <2>1 DEF Init, WifiInit, NewsOK, QueueOK, RaceOK
<1>2. NewsOK /\ [Next]_vars => NewsOK'
  <2>1. CASE Next
    BY <2>1, QueueStep, RaceStep DEF NewsOK
  <2>2. CASE UNCHANGED vars
    BY <2>2 DEF vars, wifiVars, news, race, NewsOK, QueueOK, RaceOK
  <2> QED BY <2>1, <2>2
<1> QED BY <1>1, <1>2, BootInvInit, BootInvStep, PTL DEF Spec, TypeInv

(* The types of the composition, whatever events the driver, the DHCP      *)
(* client and the access point raise and whatever their order: an event    *)
(* that finds the queue full is lost, the queue stays within its bound.    *)
THEOREM BootTypeCorrect == Spec => []TypeOK
<1>1. TypeInv => TypeOK
  <2> SUFFICES ASSUME TypeInv PROVE TypeOK
    OBVIOUS
  <2>1. WifiTypeOK
    BY DEF TypeInv, BootInv, FieldsOK, FlagsOK, RetryOK, LinkOK, SetUpOK, PcOK, MainPcs, RetryPcs, NewsOK,
       QueueOK, RaceOK, WifiTypeOK
  <2> QED BY <2>1 DEF TypeInv, BootInv, MainOK, LocksOK, TypeOK
<1> QED BY <1>1, TypeInvariant, PTL

-----------------------------------------------------------------------------
(* Why a flag that is set is true, or about to be put right.  A handler    *)
(* may set a flag for an event only if the link is still up or the news of *)
(* its end come later in the queue, and a thread may do so under the same  *)
(* condition unless the news have overtaken it.                            *)
BadQueued == \E e \in BadNews : Queued(e)
Announces(i) == events[i] = "connected" \/ (events[i] = "address" /\ addr)
EndFollows(i) == \E j \in 1..Len(events) : j > i /\ events[j] = "disconnected"

Covered == \A i \in 1..Len(events) : Announces(i) => link = "up" \/ EndFollows(i)
RequestOK == sta_connect_requested => link # "idle" \/ BadQueued \/ "sta_connect_requested" \in stale
AcceptedOK == \A p \in {"main", "retry"} :
                pc[p] = "accepted" => link # "idle" \/ BadQueued \/ p \in overtaken
ConnectedOK == sta_connected => link = "up" \/ Queued("disconnected") \/ "sta_connected" \in stale
ReadersOK == \A r \in Readers :
               rpc[r] \in {"search", "mark"} => link = "up" \/ Queued("disconnected") \/ r \in overtaken
Told == Covered /\ RequestOK /\ AcceptedOK /\ ConnectedOK /\ ReadersOK

(* Before the first request the station has no link and no address, and in *)
(* a build with a preemptible event thread nobody is overtaken.            *)
IdleFirst == pc["main"] \in {"before", "rotate", "mac", "up", "ap", "enable"} => link = "idle" /\ ~addr
Preempted == ~config.cooperative => overtaken = {} /\ stale = {}

AnswerInv == IdleFirst /\ Preempted /\ (lost \/ Told)

-----------------------------------------------------------------------------
(* The queue grows at its end ...                                          *)
LEMMA AppendElements ==
  ASSUME NEW es \in Seq(EventKinds), NEW e \in EventKinds
  PROVE  \A i \in 1..Len(Append(es, e)) :
           (i \in 1..Len(es) /\ Append(es, e)[i] = es[i]) \/ Append(es, e)[i] = e
<1>1. /\ Len(es) \in Nat /\ Len(Append(es, e)) = Len(es) + 1
      /\ \A i \in 1..Len(es) : Append(es, e)[i] = es[i]
      /\ Append(es, e)[Len(es) + 1] = e
  OBVIOUS
<1>2. \A i \in 1..(Len(es) + 1) : i \in 1..Len(es) \/ i = Len(es) + 1
  BY <1>1
<1> QED BY <1>1, <1>2

LEMMA AppendKeeps ==
  ASSUME NEW es \in Seq(EventKinds), NEW e \in EventKinds
  PROVE  /\ Len(es) + 1 \in 1..Len(Append(es, e)) /\ Append(es, e)[Len(es) + 1] = e
         /\ \A i \in 1..Len(es) : i \in 1..Len(Append(es, e)) /\ Append(es, e)[i] = es[i]
OBVIOUS

LEMMA AppendQueued ==
  ASSUME NewsOK, NEW e \in EventKinds, events' = Append(events, e)
  PROVE  Queued(e)' /\ \A k : Queued(k) => Queued(k)'
  BY AppendKeeps DEF NewsOK, QueueOK, Queued

(* ... and what is in it stays covered when the link does not go down, or  *)
(* goes down with the news of it.                                          *)
LEMMA AppendCovered ==
  ASSUME NewsOK, Covered, NEW e \in EventKinds, events' = Append(events, e),
         addr' => addr,
         \/ e = "disconnected"
         \/ link' = link /\ e # "connected" /\ (e = "address" => ~addr')
         \/ link # "up" /\ e = "failed"
  PROVE  Covered'
<1> SUFFICES ASSUME NEW i \in 1..Len(events'), Announces(i)', link' # "up" PROVE EndFollows(i)'
  BY DEF Covered
<1> DEFINE es == events
           n == Len(es)
<1>1. n \in Nat /\ events \in Seq(EventKinds)
  BY DEF NewsOK, QueueOK
<1>2. /\ n + 1 \in 1..Len(events') /\ events'[n + 1] = e
      /\ \A j \in 1..n : j \in 1..Len(events') /\ events'[j] = events[j]
  BY <1>1, AppendKeeps
<1>3. (i \in 1..n /\ events'[i] = events[i]) \/ events'[i] = e
  BY <1>1, AppendElements
<1>4. CASE i \in 1..n /\ events'[i] = events[i]
  <2>1. Announces(i)
    BY <1>4 DEF Announces
  <2>2. CASE e = "disconnected"
    <3>1. n + 1 > i
      BY <1>1, <1>4
    <3> QED BY <1>2, <2>2, <3>1 DEF EndFollows
  <2>3. CASE link # "up"
    <3>1. PICK j \in 1..n : j > i /\ events[j] = "disconnected"
      BY <1>4, <2>1, <2>3 DEF Covered, EndFollows
    <3> QED BY <1>2, <3>1 DEF EndFollows
  <2> QED BY <2>2, <2>3
<1>5. CASE events'[i] = e
  BY <1>5 DEF Announces
<1> QED BY <1>3, <1>4, <1>5

(* The event thread takes the first.                                       *)
LEMMA TailEvents ==
  ASSUME NewsOK, events # <<>>, events' = Tail(events)
  PROVE  /\ Len(events) \in Nat \ {0} /\ Len(events') = Len(events) - 1
         /\ \A i \in 1..Len(events') : i + 1 \in 1..Len(events) /\ events'[i] = events[i + 1]
         /\ \A j \in 1..Len(events) : j > 1 => j - 1 \in 1..Len(events') /\ events'[j - 1] = events[j]
         /\ Head(events) = events[1]
<1>1. \A es \in Seq(EventKinds) : es # <<>> =>
        /\ Len(es) \in Nat \ {0} /\ Len(Tail(es)) = Len(es) - 1
        /\ \A i \in 1..Len(Tail(es)) : i + 1 \in 1..Len(es) /\ Tail(es)[i] = es[i + 1]
        /\ \A j \in 1..Len(es) : j > 1 => j - 1 \in 1..Len(Tail(es)) /\ Tail(es)[j - 1] = es[j]
        /\ Head(es) = es[1]
  OBVIOUS
<1> QED BY <1>1 DEF NewsOK, QueueOK

LEMMA TailQueued ==
  ASSUME NewsOK, events # <<>>, events' = Tail(events)
  PROVE  \A k : Queued(k) => k = Head(events) \/ Queued(k)'
<1> TAKE k
<1> SUFFICES ASSUME NEW i \in 1..Len(events), events[i] = k, i # 1 PROVE Queued(k)'
  BY TailEvents DEF Queued
<1>1. i > 1
  BY TailEvents
<1> QED BY <1>1, TailEvents DEF Queued

LEMMA TailCovered ==
  ASSUME NewsOK, Covered, events # <<>>, events' = Tail(events), UNCHANGED <<link, addr>>
  PROVE  Covered'
<1> SUFFICES ASSUME NEW i \in 1..Len(events'), Announces(i)', link # "up" PROVE EndFollows(i)'
  BY DEF Covered
<1>1. i + 1 \in 1..Len(events) /\ Announces(i + 1)
  BY TailEvents DEF Announces
<1>2. PICK j \in 1..Len(events) : j > i + 1 /\ events[j] = "disconnected"
  BY <1>1 DEF Covered, EndFollows
<1>3. j > 1 /\ j - 1 > i
  BY <1>2, TailEvents
<1> QED BY <1>2, <1>3, TailEvents DEF EndFollows

LEMMA HeadCovered ==
  ASSUME NewsOK, Covered, events # <<>>, events' = Tail(events), UNCHANGED link, Announces(1)
  PROVE  link' = "up" \/ Queued("disconnected")'
<1>1. 1 \in 1..Len(events)
  BY TailEvents
<1> SUFFICES ASSUME link # "up" PROVE Queued("disconnected")'
  OBVIOUS
<1>2. PICK j \in 1..Len(events) : j > 1 /\ events[j] = "disconnected"
  BY <1>1 DEF Covered, EndFollows
<1> QED BY <1>2, TailEvents DEF Queued

-----------------------------------------------------------------------------
(* The steps that leave queue, link and flags alone ...                    *)
LEMMA ToldKept ==
  ASSUME Told, UNCHANGED <<link, addr, events, sta_connected, sta_connect_requested, race, rpc>>,
         \A p \in {"main", "retry"} : pc'[p] = "accepted" => pc[p] = "accepted"
  PROVE  Told'
  BY DEF Told, Covered, Announces, EndFollows, RequestOK, AcceptedOK, ConnectedOK, ReadersOK,
     BadQueued, Queued, race

(* ... the ones that raise an event ...                                    *)
LEMMA ToldRaise ==
  ASSUME NewsOK, Told, NEW e \in EventKinds, events' = Append(events, e), addr' => addr,
         UNCHANGED <<sta_connected, sta_connect_requested, race, rpc>>,
         \A p \in {"main", "retry"} : pc'[p] = "accepted" => pc[p] = "accepted",
         \/ e = "disconnected"
         \/ link' = link /\ e # "connected" /\ (e = "address" => ~addr')
         \/ link # "up" /\ e = "failed"
  PROVE  Told'
<1>1. Queued(e)' /\ \A k : Queued(k) => Queued(k)'
  BY AppendQueued
<1>2. BadQueued => BadQueued'
  BY <1>1 DEF BadQueued
<1>3. e \in BadNews => BadQueued'
  BY <1>1 DEF BadQueued
<1>4. Covered'
  BY AppendCovered DEF Told
<1> QED
  BY <1>1, <1>2, <1>3, <1>4 DEF Told, RequestOK, AcceptedOK, ConnectedOK, ReadersOK, BadNews, race

(* ... and the ones with the link up, whatever they raise.                 *)
LEMMA ToldUp ==
  ASSUME Told, link' = "up", UNCHANGED <<sta_connected, sta_connect_requested, race, rpc>>
  PROVE  Told'
  BY DEF Told, Covered, RequestOK, AcceptedOK, ConnectedOK, ReadersOK

LEMMA DriverTold == ASSUME TypeInv, Told, ~lost', Driver PROVE Told'
<1> USE DEF TypeInv
<1>1. CASE ConnectSucceeds \/ AddressAdded \/ LeaseBound
  <2>1. link' = "up" /\ UNCHANGED <<sta_connected, sta_connect_requested, race, rpc>>
    BY <1>1 DEF ConnectSucceeds, AddressAdded, LeaseBound, flags
  <2> QED BY <2>1, ToldUp
<1>2. CASE ConnectFails
  <2>1. events' = Append(events, "failed")
    BY <1>2 DEF ConnectFails, Raise, BadNews
  <2> QED BY <1>2, <2>1, ToldRaise DEF ConnectFails, EventKinds, flags
<1>3. CASE LinkLost
  <2>1. events' = Append(events, "disconnected")
    BY <1>3 DEF LinkLost, Raise, BadNews
  <2> QED BY <1>3, <2>1, ToldRaise DEF LinkLost, EventKinds, flags
<1>4. CASE DhcpStop
  <2>1. CASE events' = Append(events, "stopped")
    BY <1>4, <2>1, ToldRaise DEF DhcpStop, EventKinds, flags
  <2>2. CASE UNCHANGED events
    BY <1>4, <2>2 DEF DhcpStop, flags, race, Told, Covered, Announces, EndFollows, RequestOK, AcceptedOK,
       ConnectedOK, ReadersOK, BadQueued, Queued
  <2> QED BY <1>4, <2>1, <2>2 DEF DhcpStop, Raise
<1>5. CASE ApNews
  <2>1. CASE events' = Append(events, "ap")
    BY <1>5, <2>1, ToldRaise DEF ApNews, EventKinds, flags
  <2>2. CASE UNCHANGED events
    BY <1>5, <2>2, ToldKept DEF ApNews, flags
  <2> QED BY <1>5, <2>1, <2>2 DEF ApNews, Raise
<1> QED BY <1>1, <1>2, <1>3, <1>4, <1>5 DEF Driver

LEMMA EventThreadTold == ASSUME TypeInv, Told, EventThread PROVE Told'
<1> USE DEF TypeInv
<1>1. /\ events # <<>> /\ events' = Tail(events) /\ UNCHANGED <<pc, rpc, link, addr>>
  BY DEF EventThread, OnConnected, OnConnectFailed, OnDisconnected, OnAddress, OnDhcpStop, OnApNews,
     Dequeue
<1>2. Covered'
  BY <1>1, TailCovered DEF Told
<1>3. \A k : Queued(k) => k = Head(events) \/ Queued(k)'
  BY <1>1, TailQueued
<1>4. Head(events) \notin BadNews => (BadQueued => BadQueued')
  BY <1>3 DEF BadQueued
<1>5. Announces(1) => link' = "up" \/ Queued("disconnected")'
  BY <1>1, HeadCovered DEF Told
<1>6. Head(events) = events[1]
  BY <1>1, TailEvents
<1>7. CASE OnConnected
  <2>1. Head(events) = "connected" /\ (link' = "up" \/ Queued("disconnected")')
    BY <1>5, <1>6, <1>7 DEF OnConnected, Dequeue, Announces
  <2>2. /\ ~sta_connect_requested' /\ stale' = {} /\ overtaken' = overtaken \ Readers
    BY <1>7 DEF OnConnected
  <2>3. AcceptedOK'
    BY <1>1, <1>4, <2>1, <2>2, WifiAssumption DEF BadNews, Told, AcceptedOK
  <2> QED BY <1>2, <2>1, <2>2, <2>3 DEF Told, RequestOK, ConnectedOK, ReadersOK
<1>8. CASE OnConnectFailed \/ OnDisconnected
  <2>1. ~sta_connected' /\ ~sta_connect_requested' /\ overtaken' = overtaken \cup TooLate
    BY <1>8 DEF OnConnectFailed, OnDisconnected, ClearFlags
  <2>2. AcceptedOK'
    <3> SUFFICES ASSUME NEW p \in {"main", "retry"}, pc'[p] = "accepted", link' = "idle"
                 PROVE  p \in overtaken'
      BY DEF AcceptedOK
    <3> QED BY <1>1, <2>1 DEF TooLate
  <2>3. ReadersOK'
    <3> SUFFICES ASSUME NEW r \in Readers, rpc'[r] \in {"search", "mark"}, link' # "up"
                 PROVE  r \in overtaken'
      BY DEF ReadersOK
    <3> QED BY <1>1, <2>1 DEF TooLate
  <2> QED BY <1>2, <2>1, <2>2, <2>3 DEF Told, RequestOK, ConnectedOK
<1>9. CASE OnAddress
  <2>1. Head(events) = "address" /\ UNCHANGED sta_connect_requested
    BY <1>9 DEF OnAddress, Dequeue
  <2>2. CASE addr
    <3>1. link' = "up" \/ Queued("disconnected")'
      BY <1>5, <1>6, <2>1, <2>2 DEF Announces
    <3>2. stale' = stale \ {"sta_connected"} /\ overtaken' = overtaken \ Readers
      BY <1>9, <2>2 DEF OnAddress, MarkReady
    <3>3. AcceptedOK' /\ RequestOK'
      BY <1>1, <1>4, <2>1, <3>2, WifiAssumption DEF BadNews, Told, AcceptedOK, RequestOK
    <3> QED BY <1>2, <3>1, <3>3 DEF Told, ConnectedOK, ReadersOK
  <2>3. CASE ~addr
    <3>1. UNCHANGED <<sta_connected, stale, overtaken>>
      BY <1>9, <2>3 DEF OnAddress, MarkReady, race
    <3>2. Queued("disconnected") => Queued("disconnected")'
      BY <1>3, <2>1
    <3> QED BY <1>1, <1>2, <1>4, <2>1, <3>1, <3>2 DEF BadNews, Told, AcceptedOK, RequestOK, ConnectedOK,
           ReadersOK
  <2> QED BY <2>2, <2>3
<1>10. CASE OnDhcpStop \/ OnApNews
  <2>1. Head(events) \in {"stopped", "ap"} /\ UNCHANGED <<sta_connected, sta_connect_requested, stale, overtaken>>
    BY <1>10 DEF OnDhcpStop, OnApNews, Dequeue, race, flags
  <2>2. Queued("disconnected") => Queued("disconnected")'
    BY <1>3, <2>1
  <2> QED BY <1>1, <1>2, <1>4, <2>1, <2>2 DEF BadNews, Told, AcceptedOK, RequestOK, ConnectedOK, ReadersOK
<1> QED BY <1>7, <1>8, <1>9, <1>10 DEF EventThread

(* The connectors.                                                         *)
LEMMA ConnectTold ==
  ASSUME TypeInv, Told, ~lost', NEW p \in {"main", "retry"}, Connect(p)
  PROVE  Told'
<1> USE DEF TypeInv
<1>1. \A q \in {"main", "retry"} : q # p => pc'[q] = pc[q]
  BY DEF Connect, Disconnect, ConnectSkipped, ConnectAccepted, ConnectRefused, NoteRequested, Goto,
     BootInv, PcOK
<1>2. CASE Disconnect(p)
  <2>1. pc'[p] # "accepted"
    BY <1>2 DEF Disconnect, Goto, BootInv, PcOK
  <2>2. CASE link = "idle"
    BY <1>1, <1>2, <2>1, <2>2, ToldKept DEF Disconnect, flags
  <2>3. CASE link # "idle"
    <3>1. events' = Append(events, "disconnected")
      BY <1>2, <2>3 DEF Disconnect, Raise, BadNews
    <3> QED BY <1>1, <1>2, <2>1, <3>1, ToldRaise DEF Disconnect, EventKinds, flags
  <2> QED BY <2>2, <2>3
<1>3. CASE ConnectSkipped(p)
  <2>1. pc'[p] # "accepted"
    BY <1>3 DEF ConnectSkipped, Goto, BootInv, PcOK
  <2> QED BY <1>1, <1>3, <2>1, ToldKept DEF ConnectSkipped, flags, news
<1>4. CASE ConnectAccepted(p)
  <2>1. /\ link = "idle" /\ link' = "pending"
        /\ UNCHANGED <<addr, events, rpc, stale, overtaken, sta_connected, sta_connect_requested>>
    BY <1>4 DEF ConnectAccepted, flags, news, race
  <2> QED BY <2>1 DEF Told, Covered, Announces, EndFollows, RequestOK, AcceptedOK, ConnectedOK, ReadersOK,
         Queued
<1>5. CASE ConnectRefused(p)
  <2>1. /\ ~sta_connect_requested' /\ stale' = stale \ {"sta_connect_requested"} /\ pc'[p] # "accepted"
        /\ UNCHANGED <<link, addr, events, rpc, overtaken, sta_connected>>
    BY <1>5 DEF ConnectRefused, Goto, BootInv, PcOK
  <2> QED BY <1>1, <2>1 DEF Told, Covered, Announces, EndFollows, RequestOK, AcceptedOK, ConnectedOK,
         ReadersOK, BadQueued, Queued
<1>6. CASE NoteRequested(p)
  <2>1. /\ pc[p] = "accepted" /\ pc'[p] # "accepted" /\ overtaken' = overtaken \ {p}
        /\ UNCHANGED <<link, addr, events, rpc, sta_connected>>
        /\ p \in overtaken => "sta_connect_requested" \in stale'
        /\ "sta_connected" \in stale => "sta_connected" \in stale'
    BY <1>6 DEF NoteRequested, Wrote, Goto, BootInv, PcOK
  <2>2. p \notin Readers
    BY WifiAssumption
  <2> QED BY <1>1, <2>1, <2>2 DEF Told, Covered, Announces, EndFollows, RequestOK, AcceptedOK, ConnectedOK,
         ReadersOK, BadQueued, Queued
<1> QED BY <1>2, <1>3, <1>4, <1>5, <1>6 DEF Connect

(* The readers.                                                            *)
LEMMA ReaderTold ==
  ASSUME TypeInv, Told, NEW r \in Readers, Reader(r)
  PROVE  Told'
<1> USE DEF TypeInv
<1>1. rpc \in [Readers -> {"out", "search", "mark", "has_addr"}]
  BY DEF BootInv, FieldsOK
<1>2. UNCHANGED <<pc, link, addr, events, sta_connect_requested>>
  BY DEF Reader, LookAtFlags, Search, Mark, MarkAddr, flags, news
<1>3. \A q \in Readers : q # r => rpc'[q] = rpc[q]
  BY <1>1 DEF Reader, LookAtFlags, Search, Mark, MarkAddr
<1>4. Covered'
  BY <1>2 DEF Told, Covered, Announces, EndFollows
<1>5. r \notin {"main", "retry"}
  BY WifiAssumption
<1>6. "sta_connect_requested" \in stale => "sta_connect_requested" \in stale'
  BY DEF Reader, LookAtFlags, Search, Mark, MarkAddr, Wrote, news, race
<1>7. \A q \in (Readers \cup {"main", "retry"}) : (q # r /\ q \in overtaken) => q \in overtaken'
  BY DEF Reader, LookAtFlags, Search, Mark, MarkAddr, Wrote, news, race
<1>8. RequestOK' /\ AcceptedOK'
  BY <1>2, <1>5, <1>6, <1>7 DEF Told, RequestOK, AcceptedOK, BadQueued, Queued
<1>9. ConnectedOK' /\ (rpc'[r] \in {"search", "mark"} =>
                        link' = "up" \/ Queued("disconnected")' \/ r \in overtaken')
  <2>1. CASE LookAtFlags(r)
    BY <1>2, <2>1 DEF LookAtFlags, flags, Told, ConnectedOK, Queued
  <2>2. CASE Search(r)
    <3>1. rpc[r] = "search" /\ UNCHANGED <<sta_connected, stale>>
      BY <2>2 DEF Search, flags
    <3>2. (addr /\ UNCHANGED overtaken) \/ rpc'[r] = "out"
      BY <1>1, <2>2 DEF Search
    <3> QED BY <1>2, <3>1, <3>2 DEF Told, ConnectedOK, ReadersOK, Queued
  <2>3. CASE Mark(r)
    <3>1. /\ rpc[r] = "mark" /\ rpc'[r] = "has_addr"
          /\ r \in overtaken => "sta_connected" \in stale'
      BY <1>1, <2>3 DEF Mark, Wrote
    <3> QED BY <1>2, <3>1 DEF Told, ConnectedOK, ReadersOK, Queued
  <2>4. CASE MarkAddr(r)
    <3>1. rpc'[r] = "out" /\ UNCHANGED <<sta_connected, stale>>
      BY <1>1, <2>4 DEF MarkAddr, news, race
    <3> QED BY <1>2, <3>1 DEF Told, ConnectedOK, Queued
  <2> QED BY <2>1, <2>2, <2>3, <2>4 DEF Reader
<1>10. ReadersOK'
  BY <1>2, <1>3, <1>7, <1>9 DEF Told, ReadersOK, Queued
<1> QED BY <1>4, <1>8, <1>9, <1>10 DEF Told

(* The rest of wifi_manager_start and of sta_retry_thread.                 *)
LEMMA OtherTold ==
  ASSUME TypeInv, IdleFirst, Told,
         StartStep \/ Started \/ Wait \/ Poll \/ Recheck \/ Retried \/ Main \/ Thread
  PROVE  Told'
<1>1. /\ UNCHANGED <<link, addr, sta_connected, sta_connect_requested, race, rpc>>
      /\ \A p \in {"main", "retry"} : pc'[p] = "accepted" => pc[p] = "accepted"
  <2>1. CASE StartStep
    BY <2>1 DEF StartStep, RotateSkipped, RotateDown, SetMac, IfaceUp, IfaceUpFails, ApDisabled,
       DhcpServerFails, DhcpServerStarts, EnableAp, AfterAp, Goto, TypeInv, BootInv, PcOK, flags, news
  <2>2. CASE Started \/ Wait \/ Poll \/ Recheck \/ Retried
    BY <2>2 DEF Started, Wait, Poll, Recheck, Retried, Goto, TypeInv, BootInv, PcOK, flags, news
  <2>3. CASE Main \/ Thread
    BY <2>3 DEF Main, InitBridge, StartLed, StartUart, UartNotReady, CallWifi, CallStart,
       WifiReturned, ServerDisabled, InitClientsLock, StartServer, StartClient, StartWeb, Thread,
       Publish, Dispatch, Session, AllocSlot, CountSlots, wifiVars, Goto, TypeInv, BootInv, PcOK, flags,
       news
  <2> QED BY <2>1, <2>2, <2>3
<1>2. UNCHANGED events \/ (events' = Append(events, "address") /\ pc["main"] = "ap")
  <2>1. CASE StartStep
    BY <2>1 DEF StartStep, RotateSkipped, RotateDown, SetMac, IfaceUp, IfaceUpFails, ApDisabled,
       DhcpServerFails, DhcpServerStarts, EnableAp, ApAddress, Raise, news
  <2>2. CASE Started \/ Wait \/ Poll \/ Recheck \/ Retried
    BY <2>2 DEF Started, Wait, Poll, Recheck, Retried, news
  <2>3. CASE Main \/ Thread
    BY <2>3 DEF Main, InitBridge, StartLed, StartUart, UartNotReady, CallWifi, CallStart,
       WifiReturned, ServerDisabled, InitClientsLock, StartServer, StartClient, StartWeb, Thread,
       Publish, Dispatch, Session, AllocSlot, CountSlots, wifiVars, news
  <2> QED BY <2>1, <2>2, <2>3
<1>3. CASE UNCHANGED events
  BY <1>1, <1>3, ToldKept
<1>4. CASE events' = Append(events, "address") /\ pc["main"] = "ap"
  BY <1>1, <1>4, ToldRaise DEF TypeInv, EventKinds, IdleFirst
<1> QED BY <1>2, <1>3, <1>4

LEMMA ToldStep ==
  ASSUME TypeInv, IdleFirst, lost \/ Told, Next
  PROVE  (lost \/ Told)'
<1>1. lost => lost'
  BY QueueEffect DEF Raise, TypeInv, NewsOK, QueueOK
<1> SUFFICES ASSUME Told, ~lost' PROVE Told'
  BY <1>1
<1>2. CASE Driver \/ EventThread
  BY <1>2, DriverTold, EventThreadTold
<1>3. CASE \E r \in Readers : Reader(r)
  BY <1>3, ReaderTold
<1>4. CASE Connect("main") \/ Connect("retry")
  BY <1>4, ConnectTold
<1>5. CASE StartStep \/ Started \/ Wait \/ Poll \/ Recheck \/ Retried \/ Main \/ Thread
  BY <1>5, OtherTold
<1> QED BY <1>2, <1>3, <1>4, <1>5 DEF Next, Wifi, RetryThread, StartWifi

LEMMA IdleFirstStep == ASSUME TypeInv, IdleFirst, Next PROVE IdleFirst'
<1> DEFINE First == {"before", "rotate", "mac", "up", "ap", "enable"}
<1>1. CASE Driver \/ EventThread \/ RetryThread \/ \E r \in Readers \cap running : Reader(r)
  <2>1. pc'["main"] = pc["main"]
    BY <1>1, OthersLeaveMain DEF TypeInv, BootInv
  <2> SUFFICES ASSUME pc["main"] \in First PROVE UNCHANGED <<link, addr>>
    BY <2>1 DEF IdleFirst
  <2>2. pc["retry"] \in {"off", "waiting"} /\ link = "idle" /\ ~addr
    BY DEF TypeInv, BootInv, GateOK, IdleFirst
  <2> QED BY <1>1, <2>2 DEF Driver, ConnectSucceeds, ConnectFails, LinkLost, AddressAdded, LeaseBound,
         ApNews, DhcpStop, EventThread, OnConnected, OnConnectFailed, OnDisconnected, OnAddress, OnApNews,
         OnDhcpStop, Dequeue, RetryThread, Wait, Poll, Recheck, Retried, Connect, Disconnect,
         ConnectSkipped, ConnectAccepted, ConnectRefused, NoteRequested, Reader, LookAtFlags, Search,
         Mark, MarkAddr
<1>2. CASE StartStep
  <2>1. pc["main"] \in First /\ UNCHANGED <<link, addr>>
    BY <1>2 DEF StartStep, RotateSkipped, RotateDown, SetMac, IfaceUp, IfaceUpFails, ApDisabled,
       DhcpServerFails, DhcpServerStarts, EnableAp
  <2> QED BY <2>1 DEF IdleFirst
<1>3. CASE Connect("main") \/ Started
  BY <1>3 DEF Started, Connect, Disconnect, ConnectSkipped, ConnectAccepted, ConnectRefused,
     NoteRequested, Goto, TypeInv, BootInv, PcOK, IdleFirst
<1>4. CASE Main \/ Thread
  <2>1. UNCHANGED <<link, addr>> /\ (pc'["main"] = pc["main"] \/ pc["main"] = "before")
    BY <1>4 DEF Main, InitBridge, StartLed, StartUart, UartNotReady, CallWifi, CallStart,
       WifiReturned, ServerDisabled, InitClientsLock, StartServer, StartClient, StartWeb, Thread,
       Publish, Dispatch, Session, AllocSlot, CountSlots, wifiVars
  <2> QED BY <2>1 DEF IdleFirst
<1> QED BY <1>1, <1>2, <1>3, <1>4 DEF Next, Wifi, StartWifi

(* A preemptible event thread finds every other thread asleep.             *)
LEMMA PreemptedStep == ASSUME TypeInv, Preempted, Next PROVE Preempted'
<1>1. UNCHANGED config
  BY DEF Next, Wifi, Driver, ConnectSucceeds, ConnectFails, LinkLost, AddressAdded, LeaseBound, ApNews,
     DhcpStop, EventThread, OnConnected, OnConnectFailed, OnDisconnected, OnAddress, OnApNews,
     OnDhcpStop, Dequeue, RetryThread, Wait, Poll, Recheck, Retried, Connect, Disconnect,
     ConnectSkipped, ConnectAccepted, ConnectRefused, NoteRequested, StartWifi, StartStep,
     RotateSkipped, RotateDown, SetMac, IfaceUp, IfaceUpFails, ApDisabled, DhcpServerFails,
     DhcpServerStarts, EnableAp, Started, Reader, LookAtFlags, Search, Mark, MarkAddr, startVars, Main,
     InitBridge, StartLed, StartUart, UartNotReady, CallWifi, CallStart, WifiReturned, ServerDisabled,
     InitClientsLock, StartServer, StartClient, StartWeb, Thread, Publish, Dispatch, Session, AllocSlot,
     CountSlots, wifiVars
<1> SUFFICES ASSUME ~config.cooperative, overtaken = {}, stale = {}
             PROVE  overtaken' = {} /\ stale' = {}
  BY <1>1 DEF Preempted
<1>2. CASE UNCHANGED race
  BY <1>2 DEF race
<1>3. CASE EventThread
  <2>1. Asleep
    BY <1>3 DEF EventThread, OnConnected, OnConnectFailed, OnDisconnected, OnAddress, OnApNews,
       OnDhcpStop, Dequeue, EventThreadRuns
  <2>2. TooLate = {}
    BY <2>1 DEF Asleep, Sleeping, TooLate, TypeInv, BootInv, PcOK
  <2> QED BY <1>3, <2>2 DEF EventThread, OnConnected, OnConnectFailed, OnDisconnected, OnAddress,
         OnApNews, OnDhcpStop, ClearFlags, MarkReady, race
<1>4. ASSUME NEW r \in Readers, Reader(r) PROVE overtaken' = {} /\ stale' = {}
  BY <1>4 DEF Reader, LookAtFlags, Search, Mark, MarkAddr, Wrote, news, race
<1>5. ASSUME NEW p \in {"main", "retry"}, ConnectRefused(p) \/ NoteRequested(p)
      PROVE  overtaken' = {} /\ stale' = {}
  BY <1>5 DEF ConnectRefused, NoteRequested, Wrote
<1> QED BY <1>2, <1>3, <1>4, <1>5, RaceEffect

LEMMA AnswerInvariant == Spec => []AnswerInv
<1>1. Init => AnswerInv
  BY DEF Init, WifiInit, AnswerInv, IdleFirst, Preempted, Told, Covered, RequestOK, AcceptedOK,
     ConnectedOK, ReadersOK
<1>2. TypeInv /\ AnswerInv /\ [Next]_vars => AnswerInv'
  <2> SUFFICES ASSUME TypeInv, AnswerInv, [Next]_vars PROVE AnswerInv'
    OBVIOUS
  <2>1. CASE Next
    BY <2>1, ToldStep, IdleFirstStep, PreemptedStep DEF AnswerInv
  <2>2. CASE UNCHANGED vars
    BY <2>2, ToldKept DEF vars, wifiVars, flags, news, startVars, race, AnswerInv, IdleFirst, Preempted
  <2> QED BY <2>1, <2>2
<1> QED BY <1>1, <1>2, TypeInvariant, PTL DEF Spec

(* A recorded request is answered: whenever sta_connect_requested is set,  *)
(* the driver is at it or the news of its end are in the queue, unless the *)
(* queue has lost news or, in a build with a cooperative event thread, the *)
(* request was recorded after its end had been handled.  For every number  *)
(* of readers and every length of the queue.                               *)
THEOREM RequestAnsweredCorrect == Spec => []RequestAnswered
<1>1. AnswerInv => RequestAnswered
  BY DEF AnswerInv, Preempted, Told, RequestOK, BadQueued, RequestAnswered, Excused
<1> QED BY <1>1, AnswerInvariant, PTL

(* The same for sta_connected, which two handlers and every reader set.    *)
THEOREM ConnectedTruthfulCorrect == Spec => []ConnectedTruthful
<1>1. AnswerInv => ConnectedTruthful
  BY DEF AnswerInv, Preempted, Told, ConnectedOK, ConnectedTruthful, Excused
<1> QED BY <1>1, AnswerInvariant, PTL
=============================================================================
