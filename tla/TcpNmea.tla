------------------------------- MODULE TcpNmea ------------------------------
(***************************************************************************)
(* The TCP side of the bridge: the server with its slots and the client,   *)
(* which share the session code, the descriptors, the bridge's sinks and   *)
(* the session counts.                                                     *)
(***************************************************************************)
EXTENDS TcpNmeaServer, TcpNmeaClient

vars == <<sessVars, srvVars, clientVars>>

Init == SessionInit /\ ServerInit /\ ClientInit

Next == \/ (ServerStep \/ PeerConnects) /\ UNCHANGED clientVars
        \/ (ClientStep \/ StaChanges) /\ UNCHANGED srvVars
        \/ \E i \in Slots : SlotStep(i) /\ UNCHANGED clientVars
        \/ \E t \in Threads : SessionStep(t) /\ UNCHANGED <<srvVars, clientVars>>
        \/ \E f \in Fds : (PeerCloses(f) \/ PeerResets(f)) /\ UNCHANGED <<srvVars, clientVars>>

Spec == Init /\ [][Next]_vars

(* Every thread goes on where the code alone decides.  Nothing is assumed  *)
(* of a peer: it need not read, so no zsock_send, which has no timeout, is *)
(* sure to return; and it may send without a pause, so that                *)
(* drain_socket_rx never finds the socket empty while the peer has not     *)
(* closed it.  A connect ends, as the stack gives up on a host that does   *)
(* not answer.                                                             *)
Proceeds(t) == \/ OpenSink(t) \/ Inc(t) \/ LedStarted(t) \/ Take(t)
               \/ Drain(t) /\ sock[sfd[t]] # "open"
               \/ SendFail(t) \/ LedEnded(t) \/ Dec(t) \/ SinkClose(t) \/ Close(t)

Fairness == /\ WF_vars((Accept \/ Alloc \/ Reject \/ Spawn) /\ UNCHANGED clientVars)
            /\ \A i \in Slots : WF_vars(SlotStep(i) /\ UNCHANGED clientVars)
            /\ \A t \in Threads : WF_vars(Proceeds(t) /\ UNCHANGED <<srvVars, clientVars>>)
            /\ WF_vars(ClientStep /\ UNCHANGED srvVars)

FairSpec == Spec /\ Fairness

-----------------------------------------------------------------------------
(* Properties.                                                             *)

TypeOK ==
  /\ sock \in [Fds -> {"free", "open", "fin", "reset"}]
  /\ wire \in [Fds -> 0..(FrameLen - 1)]
  /\ pc \in [Threads -> {"off", "open", "inc", "started", "drain", "take", "send", "ended", "dec",
                         "sinkclose", "close", "returned", "release", "exiting", "lost",
                         "socket", "connect", "sleep"}]
  /\ sfd \in [Threads -> Fds \cup {NoFd}]
  /\ sent \in [Threads -> 0..(FrameLen - 1)]
  /\ sinks \in 0..MaxSinks
  /\ active_sessions \in Nat /\ led_sessions \in Nat
  /\ pending \in 0..Backlog
  /\ srvPc \in {"start", "stopped", "accept", "alloc", "spawn"}
  /\ srvFd \in Fds \cup {NoFd} /\ srvSlot \in Slots
  /\ active \subseteq Slots /\ fd \in [Slots -> Fds \cup {NoFd}]
  /\ sta_ready \in BOOLEAN /\ connecting \in BOOLEAN
  /\ backoff_s \in 1..MaxBackoff

(* No descriptor is closed twice or under another session: the socket of a *)
(* session or of the connecting client is open, no two share one, and the  *)
(* server hands over a socket nobody else has.                             *)
FdExclusive ==
  /\ \A t \in Threads : HoldsFd(t) =>
       /\ sock[sfd[t]] # "free"
       /\ \A u \in Threads \ {t} : HoldsFd(u) => sfd[u] # sfd[t]
       /\ srvPc \in {"alloc", "spawn"} => sfd[t] # srvFd
  /\ srvPc \in {"alloc", "spawn"} => sock[srvFd] # "free"

(* No leak: a descriptor in use belongs to a session, to the client that   *)
(* is connecting, to the server thread or to a thread that k_thread_create *)
(* lost.                                                                   *)
NoFdLeak ==
  \A f \in Fds : sock[f] # "free" =>
    \/ \E t \in Threads : HoldsFd(t) /\ sfd[t] = f
    \/ srvPc \in {"alloc", "spawn"} /\ srvFd = f
    \/ \E i \in Slots : pc[i] = "lost" /\ fd[i] = f

(* A session always gets a sink: it gives its own back before its slot can *)
(* be given to another peer, and there is one for every thread.            *)
SinkAvailable == \A t \in Threads : pc[t] = "open" => sinks < MaxSinks

(* The counts are nested: what the LED and the telemetry show as connected *)
(* never exceeds the sessions that have a sink.                            *)
CountsNested == led_sessions <= active_sessions /\ active_sessions <= sinks

(* The peer is sent whole frames: between two frames nothing of one is     *)
(* pending on the socket, and after a failure in the middle of a frame     *)
(* nothing more is sent.                                                   *)
WholeFrames ==
  \A t \in Threads : InSession(t) =>
    /\ pc[t] = "send" => wire[sfd[t]] = sent[t]
    /\ pc[t] \in {"open", "inc", "started", "drain", "take"} => wire[sfd[t]] = 0

(* The LED shows the client connecting while, and only while, it retries:  *)
(* never during a session.                                                 *)
ConnectingTruthful ==
  ClientEnabled => /\ InSession(ClientThread) => ~connecting
                   /\ pc[ClientThread] \in {"socket", "connect", "sleep"} => connecting

(* "until the peer closes or sending fails" (CONTEXT.md:18): a session     *)
(* whose peer has closed or broken the connection ends and gives its slot  *)
(* back, with one exception: a peer that has closed its side, reads no     *)
(* more and never resets keeps the session in zsock_send for ever.  (The   *)
(* slot of a thread that was lost is PeerGetsSession's; a peer that        *)
(* vanishes without a word has not closed anything.)                       *)
NeverReads(i) == pc[i] = "send" /\ sock[sfd[i]] = "fin"
SlotsComeBack ==
  \A i \in Slots :
    (InSession(i) /\ sock[sfd[i]] # "open") ~> (i \notin active \/ []NeverReads(i))

(* The client tries again after every session and every failed connect, as *)
(* soon as the station is ready: sessions and failures never end it.       *)
ClientReconnects ==
  (ClientEnabled /\ ~HoldsFd(ClientThread)) ~> (pc[ClientThread] = "socket" \/ ~sta_ready)

(* The listener "creates one TCP NMEA session per peer" (CONTEXT.md:20):   *)
(* the thread created for an accepted peer runs its session.               *)
PeerGetsSession == \A i \in Slots : pc[i] # "lost"
=============================================================================
