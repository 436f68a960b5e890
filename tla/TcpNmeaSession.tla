--------------------------- MODULE TcpNmeaSession ---------------------------
(***************************************************************************)
(* tcp_nmea_session_run, src/src/tcp_nmea_session.c: one connected socket  *)
(* that carries frames from a sink of the bridge to a peer.  Each thread   *)
(* in Threads may be in one call of it; TcpNmeaServer and TcpNmeaClient    *)
(* model who calls it and what they do after it returns.                   *)
(*                                                                         *)
(* File descriptors are reused as soon as they are closed; the listener    *)
(* has one of its own, which is not in Fds.  Of a socket                   *)
(* the model keeps what the session can find out: the peer has closed it   *)
(* ("fin", recv returns 0, data can still be sent) or it is broken         *)
(* ("reset", recv and send fail).  Of the bridge it keeps how many sinks   *)
(* are in use; NmeaBridge models the rest.  A definition used nowhere is a *)
(* faulty variant of the one it precedes.                                  *)
(***************************************************************************)
EXTENDS Integers

CONSTANTS MaxClients,  \* CONFIG_..._TCP_NMEA_SERVER_MAX_CLIENTS
          ClientEnabled,  \* CONFIG_..._TCP_NMEA_CLIENT_ENABLE
          MaxSinks,    \* CONFIG_..._NMEA_SINKS_MAX
          Fds, NoFd,   \* file descriptors, and -1
          FrameLen     \* the bytes of a frame

Slots == 0..(MaxClients - 1)
ClientThread == -1
Threads == Slots \cup IF ClientEnabled THEN {ClientThread} ELSE {}

(* The BUILD_ASSERT of nmea_bridge.c, with the server enabled.             *)
ASSUME SinksAssumption == /\ MaxClients \in Nat \ {0}
                          /\ MaxSinks \in Nat
                          /\ ClientEnabled \in BOOLEAN
                          /\ MaxSinks >= MaxClients + (IF ClientEnabled THEN 1 ELSE 0)
ASSUME FdsAssumption == NoFd \notin Fds /\ FrameLen \in Nat \ {0}

VARIABLES sock,    \* the state of each descriptor's socket
          wire,    \* history: bytes of an incomplete frame the peer was sent
          pc,      \* where each thread is
          sfd,     \* the fd parameter of the call
          sent,    \* sent_total of send_all, 0 after the last byte
          sinks,   \* how many sinks of the bridge are in use
          active_sessions,
          led_sessions     \* the session count of the status LED policy

sessVars == <<sock, wire, pc, sfd, sent, sinks, active_sessions, led_sessions>>

SessionInit == /\ sock = [f \in Fds |-> "free"]
               /\ wire = [f \in Fds |-> 0]
               /\ pc = [t \in Threads |-> "off"]
               /\ sfd = [t \in Threads |-> NoFd]
               /\ sent = [t \in Threads |-> 0]
               /\ sinks = 0
               /\ active_sessions = 0
               /\ led_sessions = 0

Goto(t, next) == pc' = [pc EXCEPT ![t] = next]

(* zsock_accept and zsock_socket return a descriptor that was free.        *)
OpenFd(f) == /\ sock[f] = "free"
             /\ sock' = [sock EXCEPT ![f] = "open"]
             /\ wire' = [wire EXCEPT ![f] = 0]

CloseFd(f) == sock' = [sock EXCEPT ![f] = "free"]

(* The call: the thread enters tcp_nmea_session_run(f, ...).               *)
Enter(t, f) == Goto(t, "open") /\ sfd' = [sfd EXCEPT ![t] = f]

-----------------------------------------------------------------------------
(* Without a sink the session closes the socket and returns.               *)
OpenSink(t) ==
  /\ pc[t] = "open"
  /\ IF sinks < MaxSinks
     THEN Goto(t, "inc") /\ sinks' = sinks + 1 /\ UNCHANGED sock
     ELSE Goto(t, "returned") /\ CloseFd(sfd[t]) /\ UNCHANGED sinks
  /\ UNCHANGED <<wire, sfd, sent, active_sessions, led_sessions>>

Inc(t) == /\ pc[t] = "inc" /\ Goto(t, "started")
          /\ active_sessions' = active_sessions + 1
          /\ UNCHANGED <<sock, wire, sfd, sent, sinks, led_sessions>>

LedStarted(t) == /\ pc[t] = "started" /\ Goto(t, "drain")
                 /\ led_sessions' = led_sessions + 1
                 /\ UNCHANGED <<sock, wire, sfd, sent, sinks, active_sessions>>

(* drain_socket_rx: what the peer sent is thrown away.                     *)
Drain(t) ==
  /\ pc[t] = "drain"
  /\ Goto(t, IF sock[sfd[t]] = "open" THEN "take" ELSE "ended")
  /\ UNCHANGED <<sock, wire, sfd, sent, sinks, active_sessions, led_sessions>>

(* nmea_bridge_sink_take: a frame within 250 ms, or none.  It never finds  *)
(* the sink gone, -ENOTCONN: see ExclusiveSinks of NmeaBridge.             *)
Take(t) ==
  /\ pc[t] = "take"
  /\ \/ Goto(t, "send") /\ sent' = [sent EXCEPT ![t] = 0]
     \/ Goto(t, "drain") /\ UNCHANGED sent
  /\ UNCHANGED <<sock, wire, sfd, sinks, active_sessions, led_sessions>>

(* send_all: zsock_send takes some bytes of the rest of the frame.  Until  *)
(* it does (EAGAIN, EINTR, or blocked in the kernel) the session waits.    *)
(* After the last byte the LED shows a forwarded frame, and the socket is  *)
(* drained again.                                                          *)
SendForgetsProgress(t) ==
  /\ pc[t] = "send" /\ sock[sfd[t]] # "reset"
  /\ \E n \in 1..FrameLen :
       /\ wire' = [wire EXCEPT ![sfd[t]] = (@ + n) % FrameLen]
       /\ Goto(t, IF n = FrameLen THEN "drain" ELSE "send")
  /\ UNCHANGED <<sock, sfd, sent, sinks, active_sessions, led_sessions>>
SendSome(t) ==
  /\ pc[t] = "send" /\ sock[sfd[t]] # "reset"
  /\ \E n \in 1..(FrameLen - sent[t]) :
       /\ sent' = [sent EXCEPT ![t] = (@ + n) % FrameLen]
       /\ wire' = [wire EXCEPT ![sfd[t]] = (@ + n) % FrameLen]
       /\ Goto(t, IF sent[t] + n = FrameLen THEN "drain" ELSE "send")
  /\ UNCHANGED <<sock, sfd, sinks, active_sessions, led_sessions>>

(* Any other error ends the session.                                       *)
SendFailLeaksSink(t) ==
  /\ pc[t] = "send" /\ sock[sfd[t]] = "reset"
  /\ Goto(t, "close")
  /\ UNCHANGED <<sock, wire, sfd, sent, sinks, active_sessions, led_sessions>>
SendFail(t) ==
  /\ pc[t] = "send" /\ sock[sfd[t]] = "reset"
  /\ Goto(t, "ended")
  /\ UNCHANGED <<sock, wire, sfd, sent, sinks, active_sessions, led_sessions>>

LedEndedForgotten(t) == /\ pc[t] = "ended" /\ Goto(t, "dec")
                        /\ UNCHANGED <<sock, wire, sfd, sent, sinks, active_sessions, led_sessions>>
LedEnded(t) == /\ pc[t] = "ended" /\ Goto(t, "dec")
               /\ led_sessions' = led_sessions - 1
               /\ UNCHANGED <<sock, wire, sfd, sent, sinks, active_sessions>>

Dec(t) == /\ pc[t] = "dec" /\ Goto(t, "sinkclose")
          /\ active_sessions' = active_sessions - 1
          /\ UNCHANGED <<sock, wire, sfd, sent, sinks, led_sessions>>

SinkClose(t) == /\ pc[t] = "sinkclose" /\ Goto(t, "close")
                /\ sinks' = sinks - 1
                /\ UNCHANGED <<sock, wire, sfd, sent, active_sessions, led_sessions>>

Close(t) == /\ pc[t] = "close" /\ Goto(t, "returned")
            /\ CloseFd(sfd[t])
            /\ UNCHANGED <<wire, sfd, sent, sinks, active_sessions, led_sessions>>

SessionStep(t) == \/ OpenSink(t) \/ Inc(t) \/ LedStarted(t) \/ Drain(t) \/ Take(t)
                  \/ SendSome(t) \/ SendFail(t) \/ LedEnded(t) \/ Dec(t)
                  \/ SinkClose(t) \/ Close(t)

(* The peer, or the network; an error other than EAGAIN is one the socket  *)
(* does not recover from.                                                  *)
PeerCloses(f) == /\ sock[f] = "open"
                 /\ sock' = [sock EXCEPT ![f] = "fin"]
                 /\ UNCHANGED <<wire, pc, sfd, sent, sinks, active_sessions, led_sessions>>
PeerResets(f) == /\ sock[f] \in {"open", "fin"}
                 /\ sock' = [sock EXCEPT ![f] = "reset"]
                 /\ UNCHANGED <<wire, pc, sfd, sent, sinks, active_sessions, led_sessions>>

(* The session's socket is open and its own from the call to the close;    *)
(* the client's is from zsock_socket on.                                   *)
InSession(t) == pc[t] \in {"open", "inc", "started", "drain", "take", "send", "ended",
                           "dec", "sinkclose", "close"}
HoldsFd(t) == InSession(t) \/ pc[t] = "connect"
=============================================================================
