---------------------------- MODULE TcpNmeaClient ---------------------------
(***************************************************************************)
(* client_thread of src/src/tcp_nmea_client.c: connect to the configured   *)
(* host or the STA gateway, run a session, back off, start again.          *)
(***************************************************************************)
EXTENDS TcpNmeaSession

CONSTANT MaxBackoff  \* 30, in seconds

ASSUME BackoffAssumption == MaxBackoff \in Nat \ {0}

VARIABLES sta_ready,   \* wifi_manager_sta_ready, or a gateway is known
          backoff_s,
          connecting   \* the LED policy's client_connecting

clientVars == <<sta_ready, backoff_s, connecting>>

ClientInit == sta_ready = FALSE /\ backoff_s = 1 /\ connecting = FALSE

(* The Wi-Fi manager, see WifiManager.                                     *)
StaChanges == ClientEnabled /\ sta_ready' = ~sta_ready /\ UNCHANGED <<sessVars, backoff_s, connecting>>

NextBackoffUncapped(b) == b * 2
NextBackoff(b) == IF b * 2 < MaxBackoff THEN b * 2 ELSE MaxBackoff

(* get_tcp_nmea_server_host succeeds; until it does the thread polls.      *)
GotHost == /\ ClientEnabled /\ pc[ClientThread] = "off" /\ sta_ready
           /\ Goto(ClientThread, "socket")
           /\ connecting' = TRUE
           /\ UNCHANGED <<sock, wire, sfd, sent, sinks, active_sessions, led_sessions,
                          sta_ready, backoff_s>>

(* connect_server: there is a socket or there is none ...                  *)
SocketFails == /\ ClientEnabled /\ pc[ClientThread] = "socket"
               /\ Goto(ClientThread, "sleep")
               /\ UNCHANGED <<sock, wire, sfd, sent, sinks, active_sessions, led_sessions, clientVars>>

OpenSocket == /\ ClientEnabled /\ pc[ClientThread] = "socket"
              /\ Goto(ClientThread, "connect")
              /\ \E f \in Fds : OpenFd(f) /\ sfd' = [sfd EXCEPT ![ClientThread] = f]
              /\ UNCHANGED <<sent, sinks, active_sessions, led_sessions, clientVars>>

(* ... which is closed when the host cannot be connected to ...            *)
ConnectFailsForGood ==
  /\ ClientEnabled /\ pc[ClientThread] = "connect"
  /\ CloseFd(sfd[ClientThread])
  /\ Goto(ClientThread, "exiting")
  /\ UNCHANGED <<wire, sfd, sent, sinks, active_sessions, led_sessions, clientVars>>
ConnectFailLeaksFd ==
  /\ ClientEnabled /\ pc[ClientThread] = "connect"
  /\ Goto(ClientThread, "sleep")
  /\ UNCHANGED <<sock, wire, sfd, sent, sinks, active_sessions, led_sessions, clientVars>>
ConnectFails == /\ ClientEnabled /\ pc[ClientThread] = "connect"
                /\ CloseFd(sfd[ClientThread])
                /\ Goto(ClientThread, "sleep")
                /\ UNCHANGED <<wire, sfd, sent, sinks, active_sessions, led_sessions, clientVars>>

(* ... and becomes the session's when it can.  The peer may have closed    *)
(* the connection before zsock_connect returns.                            *)
StillConnecting ==
  /\ ClientEnabled /\ pc[ClientThread] = "connect"
  /\ Goto(ClientThread, "open") /\ backoff_s' = 1
  /\ UNCHANGED <<sock, wire, sfd, sent, sinks, active_sessions, led_sessions, sta_ready, connecting>>
Connects == /\ ClientEnabled /\ pc[ClientThread] = "connect"
            /\ Goto(ClientThread, "open")
            /\ connecting' = FALSE /\ backoff_s' = 1
            /\ UNCHANGED <<sock, wire, sfd, sent, sinks, active_sessions, led_sessions, sta_ready>>

SessionReturned == /\ ClientEnabled /\ pc[ClientThread] = "returned"
                   /\ Goto(ClientThread, "sleep")
                   /\ connecting' = TRUE
                   /\ UNCHANGED <<sock, wire, sfd, sent, sinks, active_sessions, led_sessions,
                                  sta_ready, backoff_s>>

(* k_sleep(K_SECONDS(backoff_s)), then the next backoff.                   *)
BackOff == /\ ClientEnabled /\ pc[ClientThread] = "sleep"
           /\ Goto(ClientThread, "off")
           /\ backoff_s' = NextBackoff(backoff_s)
           /\ UNCHANGED <<sock, wire, sfd, sent, sinks, active_sessions, led_sessions,
                          sta_ready, connecting>>

ClientStep == \/ GotHost \/ SocketFails \/ OpenSocket \/ ConnectFails \/ Connects
              \/ SessionReturned \/ BackOff
=============================================================================
