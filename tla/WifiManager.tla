---------------------------- MODULE WifiManager -----------------------------
(***************************************************************************)
(* src/src/wifi_manager.c: wifi_manager_start, and who connects the        *)
(* station afterwards, who tells the program what became of it, and the    *)
(* flags they share without a lock.                                        *)
(*   - the connectors: main, in wifi_manager_start, and sta_retry_thread,  *)
(*     a static thread that waits for sta_retry_enabled;                   *)
(*   - the event thread of net_mgmt, which runs wifi_event_handler and     *)
(*     ipv4_event_handler on the events of a bounded queue, each in one    *)
(*     piece;                                                              *)
(*   - readers: threads that call wifi_manager_sta_ready (TCP client, web  *)
(*     server), which also writes the flags;                               *)
(*   - the driver, the DHCP client and the DHCP server, external.          *)
(* Both interfaces exist.  sta_ipv4_logged (which only guards a log        *)
(* message), power saving and the bytes of the addresses are left out.     *)
(***************************************************************************)
EXTENDS Integers, Sequences

CONSTANTS Readers,         \* threads that call wifi_manager_sta_ready
          Configs,         \* Kconfig: records of BOOLEAN options
          EventQueueSize   \* CONFIG_NET_MGMT_EVENT_QUEUE_SIZE

ASSUME WifiAssumption ==
  /\ EventQueueSize \in Nat \ {0}
  /\ "main" \notin Readers /\ "retry" \notin Readers

VARIABLES sta_connected, sta_has_addr, sta_connect_requested, sta_retry_backoff_s,
          sta_retry_enabled,
          pc,      \* the connectors, "main" and "retry"
          rpc,     \* the readers
          link,    \* driver: "idle", "pending" (connecting), "up"
          addr,    \* sta_dhcp_addr finds an address in the interface's table
          events,  \* the event queue
          lost,    \* history: bad news of the link found the queue full
          overtaken,   \* history: threads that bad news has come too early for
          stale,       \* history: flags whose last writer was overtaken
          config,      \* the options the program was built with
          sta_up,      \* net_if_is_admin_up(sta_iface)
          was_up, up_failed,  \* rotate_sta_mac: its locals was_up and up_ret # 0
          dhcp_server, \* the DHCP server of the access point runs
          ap,          \* the driver has accepted to enable the access point
          ret          \* wifi_manager_start: TRUE when it returns an error

flags == <<sta_connected, sta_has_addr, sta_connect_requested>>
retry == <<sta_retry_backoff_s, sta_retry_enabled>>
rotateVars == <<sta_up, was_up, up_failed>>
race == <<overtaken, stale>>
news == <<events, lost, race>>
startVars == <<config, rotateVars, dhcp_server, ap, ret>>
wifiVars == <<flags, retry, pc, rpc, link, addr, news, startVars>>

(* Before the first connection nothing says whether the driver has brought *)
(* the interface up.                                                       *)
WifiInit ==
  /\ sta_connected = FALSE /\ sta_has_addr = FALSE /\ sta_connect_requested = FALSE
  /\ sta_retry_backoff_s = 5 /\ sta_retry_enabled = FALSE
  /\ config \in Configs
  /\ pc = [p \in {"main", "retry"} |->
            IF p = "main" THEN "before" ELSE IF config.sta /\ config.ssid THEN "waiting" ELSE "off"]
  /\ rpc = [r \in Readers |-> "out"]
  /\ link = "idle" /\ addr = FALSE
  /\ events = <<>> /\ lost = FALSE /\ overtaken = {} /\ stale = {}
  /\ sta_up \in BOOLEAN /\ was_up = FALSE /\ up_failed = FALSE
  /\ dhcp_server = FALSE /\ ap = FALSE /\ ret = FALSE

(* The event thread is cooperative, CONFIG_NET_TC_THREAD_COOPERATIVE and   *)
(* the default: it runs before all threads of the program, whatever they   *)
(* are doing.  Or it is the last of the preemptible ones and runs only     *)
(* while the others (main 0, readers 7 and 8, sta_retry_thread 10) sleep.  *)
Sleeping == {"before", "off", "waiting", "poll", "backoff", "connect", "done"}
Asleep == /\ \A p \in DOMAIN pc : pc[p] \in Sleeping
          /\ \A r \in Readers : rpc[r] = "out"
EventThreadRuns == config.cooperative \/ Asleep

Goto(p, label) == pc' = [pc EXCEPT ![p] = label]

-----------------------------------------------------------------------------
(* The driver and the DHCP client.  An event that finds the queue full is  *)
(* lost.                                                                   *)
BadNews == {"failed", "disconnected"}
Raise(e) == IF Len(events) < EventQueueSize
            THEN events' = Append(events, e) /\ UNCHANGED lost
            ELSE UNCHANGED events /\ lost' = (lost \/ e \in BadNews)

ConnectSucceeds == /\ link = "pending" /\ link' = "up" /\ Raise("connected")
                   /\ UNCHANGED <<flags, retry, pc, rpc, addr, race, startVars>>
ConnectFails == /\ link = "pending" /\ link' = "idle" /\ Raise("failed")
                /\ UNCHANGED <<flags, retry, pc, rpc, addr, race, startVars>>
LinkLost == /\ link = "up" /\ link' = "idle" /\ Raise("disconnected")
            /\ UNCHANGED <<flags, retry, pc, rpc, addr, race, startVars>>

(* The DHCP client adds the address, then reports the lease, and again     *)
(* whenever it has renewed it.                                             *)
AddressAdded == /\ link = "up" /\ ~addr /\ addr' = TRUE /\ Raise("address")
                /\ UNCHANGED <<flags, retry, pc, rpc, link, race, startVars>>
LeaseBound == /\ link = "up" /\ addr /\ Raise("address")
              /\ UNCHANGED <<flags, retry, pc, rpc, link, addr, race, startVars>>
DhcpStop == /\ link # "up" /\ addr /\ addr' = FALSE /\ Raise("stopped")
            /\ UNCHANGED <<flags, retry, pc, rpc, link, race, startVars>>

(* The access point is enabled or disabled, a client joins or leaves.      *)
ApNews == /\ ap /\ Raise("ap")
          /\ UNCHANGED <<flags, retry, pc, rpc, link, addr, race, startVars>>

Driver == \/ ConnectSucceeds \/ ConnectFails \/ LinkLost
          \/ AddressAdded \/ LeaseBound \/ DhcpStop \/ ApNews

-----------------------------------------------------------------------------
(* The event handlers.                                                     *)

Dequeue(e) == /\ EventThreadRuns
              /\ events # <<>> /\ Head(events) = e
              /\ events' = Tail(events)
              /\ UNCHANGED <<lost, sta_retry_enabled, pc, rpc, link, addr, startVars>>

(* mark_sta_ipv4_ready, in one piece as the event thread runs it.          *)
MarkReady == IF addr THEN /\ sta_connected' = TRUE /\ sta_has_addr' = TRUE
                          /\ stale' = stale \ {"sta_connected"} /\ overtaken' = overtaken \ Readers
                     ELSE UNCHANGED <<sta_connected, sta_has_addr, race>>

OnConnected == /\ Dequeue("connected")
               /\ sta_connected' = TRUE
               /\ sta_has_addr' = (sta_has_addr \/ addr)
               /\ sta_connect_requested' = FALSE
               /\ sta_retry_backoff_s' = 5
               /\ stale' = {} /\ overtaken' = overtaken \ Readers

(* Threads that are about to set a flag for a link that is no more: they   *)
(* will undo what a handler of bad news does now.                          *)
TooLate == {r \in Readers : rpc[r] \in {"search", "mark"} /\ link # "up"}
             \cup {p \in {"main", "retry"} : pc[p] = "accepted" /\ link = "idle"}

(* A failed connect and a lost link clear the same flags.                  *)
ClearRequestedForgotten == /\ sta_connected' = FALSE /\ sta_has_addr' = FALSE
                           /\ UNCHANGED sta_connect_requested
                           /\ stale' = {} /\ overtaken' = overtaken \cup TooLate
ClearFlags == /\ sta_connected' = FALSE /\ sta_has_addr' = FALSE /\ sta_connect_requested' = FALSE
              /\ stale' = {} /\ overtaken' = overtaken \cup TooLate

OnConnectFailed == Dequeue("failed") /\ ClearFlags /\ UNCHANGED sta_retry_backoff_s

OnDisconnectIgnored == /\ Dequeue("disconnected")
                       /\ UNCHANGED <<flags, sta_retry_backoff_s, race>>
OnDisconnected == Dequeue("disconnected") /\ ClearFlags /\ UNCHANGED sta_retry_backoff_s

(* An address of either interface, or a lease: the interface is not looked *)
(* at, the station's table is.                                             *)
OnAddress == /\ Dequeue("address") /\ MarkReady
             /\ UNCHANGED <<sta_connect_requested, sta_retry_backoff_s>>

OnDhcpStop == /\ Dequeue("stopped")
              /\ sta_has_addr' = FALSE
              /\ UNCHANGED <<sta_connected, sta_connect_requested, sta_retry_backoff_s, race>>

OnApNews == Dequeue("ap") /\ UNCHANGED <<flags, sta_retry_backoff_s, race>>

EventThread == \/ OnConnected \/ OnConnectFailed \/ OnDisconnected
               \/ OnAddress \/ OnDhcpStop \/ OnApNews

-----------------------------------------------------------------------------
(* wifi_manager_start up to the station, run by main.  Its callbacks are   *)
(* in place and its interfaces known before anything can raise an event.   *)

CallStart == /\ pc["main"] = "before"
             /\ Goto("main", IF config.rotate THEN "rotate" ELSE "ap")
             /\ UNCHANGED <<flags, retry, rpc, link, addr, news, startVars>>

(* rotate_sta_mac: the mode cannot be set, or no link address is there, or *)
(* the interface, when it is up, does not go down: no rotation.            *)
RotateSkipped == /\ pc["main"] = "rotate" /\ Goto("main", "ap")
                 /\ UNCHANGED <<flags, retry, rpc, link, addr, news, startVars>>

RotateDown == /\ pc["main"] = "rotate" /\ Goto("main", "mac")
              /\ was_up' = sta_up /\ sta_up' = FALSE
              /\ UNCHANGED <<flags, retry, rpc, link, addr, news,
                             config, up_failed, dhcp_server, ap, ret>>

(* The address is set or not; an interface that was up is brought up again *)
(* in both cases, which may fail.                                          *)
SetMacReturnsEarly ==
  /\ pc["main"] = "mac"
  /\ pc' \in {[pc EXCEPT !["main"] = l] : l \in {"up", "ap"}}
  /\ UNCHANGED <<flags, retry, rpc, link, addr, news, startVars>>
SetMac == /\ pc["main"] = "mac"
          /\ Goto("main", IF was_up THEN "up" ELSE "ap")
          /\ UNCHANGED <<flags, retry, rpc, link, addr, news, startVars>>

IfaceUp == /\ pc["main"] = "up" /\ Goto("main", "ap")
           /\ sta_up' = TRUE
           /\ UNCHANGED <<flags, retry, rpc, link, addr, news,
                          config, was_up, up_failed, dhcp_server, ap, ret>>
IfaceUpFails == /\ pc["main"] = "up" /\ Goto("main", "ap")
                /\ up_failed' = TRUE
                /\ UNCHANGED <<flags, retry, rpc, link, addr, news,
                               config, sta_up, was_up, dhcp_server, ap, ret>>

(* enable_ap: start_dhcp_server, then the access point; the first that     *)
(* fails is the last that is tried.                                        *)
AfterAp == IF config.sta THEN "disconnect" ELSE "returned"

ApDisabled == /\ pc["main"] = "ap" /\ ~config.ap
              /\ Goto("main", AfterAp)
              /\ UNCHANGED <<flags, retry, rpc, link, addr, news, startVars>>

(* The access point's own address raises an event unless it is refused.    *)
ApAddress == Raise("address") \/ UNCHANGED <<events, lost>>

DhcpServerFails ==
  /\ pc["main"] = "ap" /\ config.ap
  /\ Goto("main", AfterAp) /\ ret' = TRUE
  /\ ApAddress
  /\ UNCHANGED <<flags, retry, rpc, link, addr, race, config, rotateVars, dhcp_server, ap>>

DhcpServerStarts ==
  /\ pc["main"] = "ap" /\ config.ap
  /\ Goto("main", "enable") /\ dhcp_server' = TRUE
  /\ ApAddress
  /\ UNCHANGED <<flags, retry, rpc, link, addr, race, config, rotateVars, ap, ret>>

EnableAp == /\ pc["main"] = "enable"
            /\ Goto("main", AfterAp)
            /\ \/ ap' = TRUE /\ UNCHANGED ret
               \/ ret' = TRUE /\ UNCHANGED ap
            /\ UNCHANGED <<flags, retry, rpc, link, addr, news, config, rotateVars, dhcp_server>>

StartStep == \/ RotateSkipped \/ RotateDown \/ SetMac \/ IfaceUp \/ IfaceUpFails
             \/ ApDisabled \/ DhcpServerFails \/ DhcpServerStarts \/ EnableAp

-----------------------------------------------------------------------------
(* The connectors: the end of wifi_manager_start and sta_retry_thread.     *)

(* A connection, or the answer to a request that is still to come.         *)
Busy == sta_connected \/ sta_connect_requested

NextBackoffUncapped == sta_retry_backoff_s * 2
NextBackoff == IF sta_retry_backoff_s * 2 < 60 THEN sta_retry_backoff_s * 2 ELSE 60

(* sta_retry_thread waits until wifi_manager_start lets it go.             *)
WaitNot == /\ pc["retry"] = "waiting" /\ Goto("retry", "poll")
           /\ UNCHANGED <<flags, retry, rpc, link, addr, news, startVars>>
Wait == /\ pc["retry"] = "waiting" /\ sta_retry_enabled /\ Goto("retry", "poll")
        /\ UNCHANGED <<flags, retry, rpc, link, addr, news, startVars>>

(* The loop looks at the flags every second until both are FALSE ...       *)
Poll == /\ pc["retry"] = "poll"
        /\ Goto("retry", IF Busy THEN "poll" ELSE "backoff")
        /\ UNCHANGED <<flags, retry, rpc, link, addr, news, startVars>>

(* ... sleeps for sta_retry_backoff_s and looks again.                     *)
RecheckInverted == /\ pc["retry"] = "backoff"
                   /\ Goto("retry", IF Busy THEN "disconnect" ELSE "poll")
                   /\ UNCHANGED <<flags, retry, rpc, link, addr, news, startVars>>
Recheck == /\ pc["retry"] = "backoff"
           /\ Goto("retry", IF Busy THEN "poll" ELSE "disconnect")
           /\ UNCHANGED <<flags, retry, rpc, link, addr, news, startVars>>

(* disconnect_sta: the driver drops what it has; then 500 ms of sleep.     *)
Disconnect(p) == /\ pc[p] = "disconnect"
                 /\ Goto(p, "connect")
                 /\ IF link = "idle" THEN UNCHANGED <<link, events, lost>>
                                     ELSE link' = "idle" /\ Raise("disconnected")
                 /\ UNCHANGED <<flags, retry, rpc, addr, race, startVars>>

(* connect_sta: nothing to do without an SSID ...                          *)
ConnectSkipped(p) == /\ pc[p] = "connect" /\ ~config.ssid
                     /\ Goto(p, "returned")
                     /\ UNCHANGED <<flags, retry, rpc, link, addr, news, startVars>>

(* ... net_mgmt(NET_REQUEST_WIFI_CONNECT) is accepted ...                  *)
ConnectAccepted(p) == /\ pc[p] = "connect" /\ config.ssid /\ link = "idle" /\ sta_up
                      /\ link' = "pending"
                      /\ Goto(p, "accepted")
                      /\ UNCHANGED <<flags, retry, rpc, addr, news, startVars>>

(* ... or refused.                                                         *)
ConnectRefused(p) ==
  /\ pc[p] = "connect" /\ config.ssid
  /\ sta_connect_requested' = FALSE
  /\ stale' = stale \ {"sta_connect_requested"}
  /\ Goto(p, "returned")
  /\ ret' = (ret \/ p = "main")
  /\ UNCHANGED <<sta_connected, sta_has_addr, retry, rpc, link, addr, events, lost, overtaken,
                 config, rotateVars, dhcp_server, ap>>

(* Thread t has set a flag.                                                *)
Wrote(t, flag) == /\ stale' = IF t \in overtaken THEN stale \cup {flag} ELSE stale \ {flag}
                  /\ overtaken' = overtaken \ {t}

(* After net_mgmt has returned the request is recorded.                    *)
NoteRequested(p) ==
  /\ pc[p] = "accepted"
  /\ sta_connect_requested' = TRUE
  /\ Wrote(p, "sta_connect_requested")
  /\ Goto(p, "returned")
  /\ UNCHANGED <<sta_connected, sta_has_addr, retry, rpc, link, addr, events, lost, startVars>>

(* The end of wifi_manager_start: the retry thread may go on.              *)
Started == /\ pc["main"] = "returned"
           /\ sta_retry_enabled' = TRUE
           /\ Goto("main", "done")
           /\ UNCHANGED <<flags, sta_retry_backoff_s, rpc, link, addr, news, startVars>>

(* The retry thread doubles the backoff whatever connect_sta returned.     *)
Retried == /\ pc["retry"] = "returned"
           /\ sta_retry_backoff_s' = NextBackoff
           /\ Goto("retry", "poll")
           /\ UNCHANGED <<flags, sta_retry_enabled, rpc, link, addr, news, startVars>>

Connect(p) == \/ Disconnect(p) \/ ConnectSkipped(p) \/ ConnectAccepted(p)
              \/ ConnectRefused(p) \/ NoteRequested(p)

StartWifi == StartStep \/ Connect("main") \/ Started
RetryThread == Wait \/ Poll \/ Recheck \/ Connect("retry") \/ Retried

-----------------------------------------------------------------------------
(* wifi_manager_sta_ready, called by reader r: the look at the flags, the  *)
(* search of the address table, the two writes.  Who goes by a stale flag  *)
(* is as late as the one who set it.                                       *)

LookAtFlags(r) == /\ rpc[r] = "out" /\ sta_connected /\ ~sta_has_addr
                  /\ rpc' = [rpc EXCEPT ![r] = "search"]
                  /\ overtaken' = IF "sta_connected" \in stale THEN overtaken \cup {r} ELSE overtaken
                  /\ UNCHANGED <<flags, retry, pc, link, addr, events, lost, stale, startVars>>

Search(r) == /\ rpc[r] = "search"
             /\ IF addr THEN rpc' = [rpc EXCEPT ![r] = "mark"] /\ UNCHANGED overtaken
                        ELSE rpc' = [rpc EXCEPT ![r] = "out"] /\ overtaken' = overtaken \ {r}
             /\ UNCHANGED <<flags, retry, pc, link, addr, events, lost, stale, startVars>>

Mark(r) == /\ rpc[r] = "mark"
           /\ sta_connected' = TRUE
           /\ Wrote(r, "sta_connected")
           /\ rpc' = [rpc EXCEPT ![r] = "has_addr"]
           /\ UNCHANGED <<sta_has_addr, sta_connect_requested, retry, pc, link, addr, events, lost,
                          startVars>>

MarkAddr(r) == /\ rpc[r] = "has_addr"
               /\ sta_has_addr' = TRUE
               /\ rpc' = [rpc EXCEPT ![r] = "out"]
               /\ UNCHANGED <<sta_connected, sta_connect_requested, retry, pc, link, addr, news,
                              startVars>>

Reader(r) == LookAtFlags(r) \/ Search(r) \/ Mark(r) \/ MarkAddr(r)

-----------------------------------------------------------------------------
(* Properties.                                                             *)

Queued(e) == \E i \in 1..Len(events) : events[i] = e

(* Types, and the doubling backoff of 5 to 60 seconds.                     *)
WifiTypeOK ==
  /\ sta_connected \in BOOLEAN /\ sta_has_addr \in BOOLEAN
  /\ sta_connect_requested \in BOOLEAN
  /\ sta_retry_backoff_s \in {5, 10, 20, 40, 60}
  /\ sta_retry_enabled \in BOOLEAN
  /\ config \in Configs
  /\ pc["main"] \in {"before", "rotate", "mac", "up", "ap", "enable", "disconnect", "connect",
                     "accepted", "returned", "done"}
  /\ pc["retry"] \in {"off", "waiting", "poll", "backoff", "disconnect", "connect", "accepted",
                      "returned"}
  /\ rpc \in [Readers -> {"out", "search", "mark", "has_addr"}]
  /\ link \in {"idle", "pending", "up"} /\ addr \in BOOLEAN
  /\ sta_up \in BOOLEAN /\ was_up \in BOOLEAN /\ up_failed \in BOOLEAN
  /\ dhcp_server \in BOOLEAN /\ ap \in BOOLEAN /\ ret \in BOOLEAN
  /\ Len(events) <= EventQueueSize
  /\ lost \in BOOLEAN
  /\ overtaken \subseteq Readers \cup {"main", "retry"}
  /\ stale \subseteq {"sta_connected", "sta_connect_requested"}

(* main and the retry thread are never both on their way to a connection:  *)
(* they share connect_sta's static sta_config, and the disconnect of one   *)
(* would take down the other's connection.                                 *)
Connecting == {"disconnect", "connect", "accepted", "returned"}
OneConnector == pc["main"] \in Connecting => pc["retry"] \notin Connecting

(* What wifi_manager_start leaves behind is whole, whichever of its steps  *)
(* failed, with one exception.  The rotation of the address leaves an      *)
(* interface up that it found up, also when the address was refused.  The  *)
(* exception is net_if_up (wifi_manager.c:324): when that fails the        *)
(* interface stays down, which is logged and not tried again.  There is no *)
(* access point without its DHCP server, whose clients would get no        *)
(* address, and the caller is told when there is none.                     *)
StartLeavesWhole ==
  /\ pc["main"] \notin {"before", "rotate", "mac", "up"} /\ was_up => sta_up \/ up_failed
  /\ ap => dhcp_server
  /\ pc["main"] = "done" /\ config.ap /\ ~ret => ap

(* The two exceptions of the properties below: the queue has lost news of  *)
(* the link, or, with a cooperative event thread, a flag was set by a      *)
(* thread that the news had overtaken.                                     *)
Excused(flag) == lost \/ (config.cooperative /\ flag \in stale)

(* A recorded request has an end coming: sta_connect_requested holds back  *)
(* the retry thread, so nothing else would clear it.  Losing the news, or  *)
(* recording the request after they were handled, are the only ways in     *)
(* which the retry thread comes to wait for nothing.                       *)
RequestAnswered ==
  sta_connect_requested =>
    link # "idle" \/ (\E e \in BadNews : Queued(e)) \/ Excused("sta_connect_requested")

(* The station is taken for connected only while it is, or until the news  *)
(* that it is not have been handled, with the same two exceptions: a TRUE  *)
(* that stays holds back the retry thread for good.                        *)
ConnectedTruthful ==
  sta_connected => link = "up" \/ Queued("disconnected") \/ Excused("sta_connected")

(* After a failed connect or a lost link the station tries again: "STA     *)
(* connect to %s failed ...; retry in %us" (wifi_manager.c:115).           *)
Idle == link = "idle" /\ sta_retry_enabled /\ config.sta /\ config.ssid
KeepsTrying == Idle ~> (pc["retry"] = "connect")

(* The same with its exceptions: nothing but lost news and, in cooperative *)
(* builds, overtaken threads makes the station stop.                       *)
TriesAgain ==
  Idle ~> (pc["retry"] = "connect" \/ Excused("sta_connected") \/ Excused("sta_connect_requested"))

(* The status page shows "linked" (app.js:31) for what                     *)
(* wifi_manager_sta_ready returns, and "idle" otherwise: it does not show  *)
(* "linked" when the link is gone and the program has been told.           *)
LinkedTruthful == sta_connected /\ sta_has_addr => link = "up" \/ Queued("disconnected")
=============================================================================
