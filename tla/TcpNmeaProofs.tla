--------------------------- MODULE TcpNmeaProofs ----------------------------
(***************************************************************************)
(* Proofs about TcpNmea, for every number of clients and descriptors,      *)
(* every length of a frame, with and without the client, and whether or    *)
(* not the server may run before a released thread has ended.              *)
(***************************************************************************)
EXTENDS TcpNmea, FiniteSetTheorems, TLAPS

(* The steps of a session at which it has its socket, its sink, and is     *)
(* counted by the telemetry and by the LED; the connecting client has a    *)
(* socket, too.                                                            *)
LitPcs == {"drain", "take", "send", "ended"}
CountedPcs == LitPcs \cup {"started", "dec"}
SinkPcs == CountedPcs \cup {"inc", "sinkclose"}
SessPcs == SinkPcs \cup {"open", "close"}
HoldPcs == SessPcs \cup {"connect"}

SlotPcs == SessPcs \cup {"off", "returned", "release", "exiting", "lost"}
ClientPcs == HoldPcs \cup {"off", "returned", "socket", "sleep"}

At(S) == {t \in Threads : pc[t] \in S}
Handed == srvPc \in {"alloc", "spawn"}

Types ==
  /\ sock \in [Fds -> {"free", "open", "fin", "reset"}]
  /\ wire \in [Fds -> 0..(FrameLen - 1)]
  /\ sfd \in [Threads -> Fds \cup {NoFd}]
  /\ sent \in [Threads -> 0..(FrameLen - 1)]
ServerTypes ==
  /\ pending \in 0..Backlog
  /\ srvPc \in {"start", "stopped", "accept", "alloc", "spawn"}
  /\ srvFd \in Fds \cup {NoFd} /\ srvSlot \in Slots
  /\ active \subseteq Slots /\ fd \in [Slots -> Fds \cup {NoFd}]
ClientTypes ==
  /\ sta_ready \in BOOLEAN /\ connecting \in BOOLEAN
  /\ backoff_s \in 1..MaxBackoff

(* Where the threads are; a slot is free only when its thread has left     *)
(* client_thread, and released without a descriptor.                       *)
PcInv ==
  /\ pc \in [Threads -> SlotPcs \cup ClientPcs]
  /\ \A i \in Slots : pc[i] \in SlotPcs
  /\ ClientEnabled => pc[ClientThread] \in ClientPcs
  /\ \A i \in Slots : i \notin active => pc[i] \in {"off", "exiting"}
  /\ srvPc = "spawn" => srvSlot \in active /\ pc[srvSlot] \in {"off", "exiting"}
  /\ \A i \in Slots : pc[i] = "release" => fd[i] = NoFd

(* FdExclusive and NoFdLeak.                                               *)
Holding == At(HoldPcs)
FdInv ==
  /\ \A t \in Holding : sfd[t] \in Fds /\ sock[sfd[t]] # "free"
  /\ \A t, u \in Holding : t # u => sfd[t] # sfd[u]
  /\ Handed => /\ srvFd \in Fds /\ sock[srvFd] # "free"
               /\ \A t \in Holding : sfd[t] # srvFd
  /\ \A f \in Fds : sock[f] # "free" =>
       \/ \E t \in Holding : sfd[t] = f
       \/ Handed /\ srvFd = f
       \/ \E i \in Slots : pc[i] = "lost" /\ fd[i] = f

(* Every count is that of the threads between its two steps.               *)
CountInv == /\ sinks = Cardinality(At(SinkPcs))
            /\ active_sessions = Cardinality(At(CountedPcs))
            /\ led_sessions = Cardinality(At(LitPcs))

(* WholeFrames; nothing is sent on a socket before it is a session's.      *)
WireInv ==
  /\ Handed => wire[srvFd] = 0
  /\ \A t \in Holding : pc[t] = "connect" => wire[sfd[t]] = 0
  /\ WholeFrames

TcpInv == /\ Types /\ ServerTypes /\ ClientTypes /\ PcInv /\ FdInv /\ CountInv /\ WireInv
          /\ ConnectingTruthful

-----------------------------------------------------------------------------
(* The threads, one for each slot and the client's.                        *)
LEMMA ThreadFacts ==
  /\ IsFiniteSet(Threads) /\ Cardinality(Threads) <= MaxSinks
  /\ Slots \subseteq Threads /\ ClientThread \notin Slots
  /\ ClientEnabled => ClientThread \in Threads
  /\ \A t \in Threads : t \in Slots \/ (ClientEnabled /\ t = ClientThread)
<1>1. IsFiniteSet(Slots) /\ Cardinality(Slots) = MaxClients /\ ClientThread \notin Slots
  <2>1. 0 \in Int /\ MaxClients - 1 \in Int /\ MaxClients \in Nat \ {0}
    BY SinksAssumption
  <2>2. IsFiniteSet(Slots)
    BY <2>1, FS_Interval DEF Slots
  <2>3. Cardinality(Slots) = IF 0 > MaxClients - 1 THEN 0 ELSE MaxClients - 1 - 0 + 1
    BY <2>1, FS_Interval DEF Slots
  <2>4. Cardinality(Slots) = MaxClients
    BY <2>1, <2>3
  <2>5. ClientThread \notin Slots
    BY DEF Slots, ClientThread
  <2> QED BY <2>2, <2>4, <2>5
<1>2. CASE ~ClientEnabled
  <2>1. Threads = Slots
    BY <1>2 DEF Threads
  <2>2. MaxClients <= MaxSinks
    BY <1>2, SinksAssumption
  <2> QED BY <1>1, <1>2, <2>1, <2>2
<1>3. CASE ClientEnabled
  <2>1. Threads = Slots \cup {ClientThread}
    BY <1>3 DEF Threads
  <2>2. IsFiniteSet(Threads) /\ Cardinality(Threads) = MaxClients + 1
    BY <1>1, <2>1, FS_AddElement
  <2>3. MaxClients + 1 <= MaxSinks
    BY <1>3, SinksAssumption
  <2> QED BY <1>1, <1>3, <2>1, <2>2, <2>3
<1> QED BY <1>2, <1>3

-----------------------------------------------------------------------------
(* Types.                                                                  *)
LEMMA TypesStep == ASSUME Types, ServerTypes, PcInv, Next PROVE Types'
<1> USE DEF Types
<1>1. ASSUME NEW t \in Threads, SessionStep(t) PROVE Types'
  <2>1. CASE OpenSink(t) \/ Close(t)
    BY <2>1 DEF OpenSink, Close, CloseFd
  <2>2. CASE Inc(t) \/ LedStarted(t) \/ Drain(t) \/ SendFail(t) \/ LedEnded(t) \/ Dec(t) \/ SinkClose(t)
    BY <2>2 DEF Inc, LedStarted, Drain, SendFail, LedEnded, Dec, SinkClose
  <2>3. CASE Take(t)
    <3>1. 0 \in 0..(FrameLen - 1)
      BY FdsAssumption
    <3>2. sent' \in [Threads -> 0..(FrameLen - 1)]
      BY <2>3, <3>1 DEF Take
    <3> QED BY <2>3, <3>2 DEF Take
  <2>4. CASE SendSome(t)
    <3>1. PICK n \in 1..(FrameLen - sent[t]) :
            /\ sent' = [sent EXCEPT ![t] = (sent[t] + n) % FrameLen]
            /\ wire' = [wire EXCEPT ![sfd[t]] = (wire[sfd[t]] + n) % FrameLen]
      BY <2>4 DEF SendSome
    <3>2. sent[t] \in 0..(FrameLen - 1) /\ FrameLen \in Nat \ {0}
      BY FdsAssumption
    <3>3. (sent[t] + n) % FrameLen \in 0..(FrameLen - 1)
      BY <3>2
    <3>4. sent' \in [Threads -> 0..(FrameLen - 1)]
      BY <3>1, <3>3
    <3>5. sfd[t] \in Fds => (wire[sfd[t]] + n) % FrameLen \in 0..(FrameLen - 1)
      BY <3>2
    <3>6. wire' \in [Fds -> 0..(FrameLen - 1)]
      BY <3>1, <3>5
    <3> QED BY <2>4, <3>4, <3>6 DEF SendSome
  <2> QED BY <1>1, <2>1, <2>2, <2>3, <2>4 DEF SessionStep
<1>2. CASE ServerStep
  <2>1. CASE Listen \/ Alloc
    BY <2>1 DEF Listen, Alloc, sessVars
  <2>2. CASE Accept
    <3>1. 0 \in 0..(FrameLen - 1)
      BY FdsAssumption
    <3> QED BY <2>2, <3>1 DEF Accept, OpenFd
  <2>3. CASE Reject
    BY <2>3 DEF Reject, CloseFd
  <2>4. CASE Spawn
    BY <2>4 DEF Spawn, Enter, ServerTypes
  <2> QED BY <1>2, <2>1, <2>2, <2>3, <2>4 DEF ServerStep
<1>3. CASE ClientStep
  <2>1. CASE OpenSocket
    <3>1. 0 \in 0..(FrameLen - 1)
      BY FdsAssumption
    <3> QED BY <2>1, <3>1 DEF OpenSocket, OpenFd
  <2>2. CASE ~OpenSocket
    BY <1>3, <2>2 DEF ClientStep, GotHost, SocketFails, ConnectFails, CloseFd, Connects, SessionReturned, BackOff
  <2> QED BY <2>1, <2>2
<1>4. ASSUME NEW i \in Slots, SlotStep(i) PROVE Types'
  BY <1>4 DEF SlotStep, ForgetFd, Release, Exit, CloseFd
<1>5. CASE PeerConnects \/ StaChanges
  BY <1>5 DEF PeerConnects, StaChanges, sessVars
<1>6. ASSUME NEW f \in Fds, PeerCloses(f) \/ PeerResets(f) PROVE Types'
  BY <1>6 DEF PeerCloses, PeerResets
<1> QED BY <1>1, <1>2, <1>3, <1>4, <1>5, <1>6 DEF Next

LEMMA ServerTypesStep == ASSUME ServerTypes, Next PROVE ServerTypes'
<1> USE DEF ServerTypes
<1>1. CASE ServerStep
  <2>1. CASE Listen \/ Reject
    BY <2>1 DEF Listen, Reject
  <2>2. CASE Accept
    <3>1. pending' \in 0..Backlog
      BY <2>2, BacklogAssumption DEF Accept
    <3> QED BY <2>2, <3>1 DEF Accept
  <2>3. CASE Alloc
    BY <2>3 DEF Alloc
  <2>4. CASE Spawn
    BY <2>4 DEF Spawn
  <2> QED BY <1>1, <2>1, <2>2, <2>3, <2>4 DEF ServerStep
<1>2. CASE PeerConnects
  <2>1. pending' \in 0..Backlog
    BY <1>2, BacklogAssumption DEF PeerConnects
  <2> QED BY <1>2, <2>1 DEF PeerConnects
<1>3. ASSUME NEW i \in Slots, SlotStep(i) PROVE ServerTypes'
  BY <1>3 DEF SlotStep, ForgetFd, Release, Exit, srvVars
<1>4. CASE UNCHANGED srvVars
  BY <1>4 DEF srvVars
<1> QED BY <1>1, <1>2, <1>3, <1>4 DEF Next

LEMMA ClientTypesStep == ASSUME ClientTypes, Next PROVE ClientTypes'
<1> USE DEF ClientTypes
<1>1. CASE ClientStep
  <2>1. UNCHANGED sta_ready /\ (connecting' \in BOOLEAN)
    BY <1>1 DEF ClientStep, GotHost, SocketFails, OpenSocket, ConnectFails, Connects, SessionReturned, BackOff,
       clientVars
  <2>2. backoff_s' \in {1, backoff_s, NextBackoff(backoff_s)}
    BY <1>1 DEF ClientStep, GotHost, SocketFails, OpenSocket, ConnectFails, Connects, SessionReturned, BackOff,
       clientVars
  <2>3. 1 \in 1..MaxBackoff /\ NextBackoff(backoff_s) \in 1..MaxBackoff
    BY BackoffAssumption DEF NextBackoff
  <2> QED BY <2>1, <2>2, <2>3
<1>2. CASE StaChanges
  BY <1>2 DEF StaChanges
<1>3. CASE UNCHANGED clientVars
  BY <1>3 DEF clientVars
<1> QED BY <1>1, <1>2, <1>3 DEF Next

-----------------------------------------------------------------------------
(* Where the threads are.                                                  *)

LEMMA SessionMoves ==
  ASSUME PcInv, NEW t \in Threads, SessionStep(t)
  PROVE  /\ pc[t] \in SessPcs /\ \E l \in SessPcs \cup {"returned"} : Goto(t, l)
         /\ UNCHANGED sfd
  BY DEF SessionStep, OpenSink, Inc, LedStarted, Drain, Take, SendSome, SendFail, LedEnded, Dec, SinkClose,
     Close, SessPcs, SinkPcs, CountedPcs, LitPcs

LEMMA PcStep == ASSUME ServerTypes, PcInv, Next PROVE PcInv'
<1> USE ThreadFacts
<1>1. ASSUME NEW t \in Threads, SessionStep(t), UNCHANGED srvVars PROVE PcInv'
  <2>1. PICK l \in SessPcs \cup {"returned"} : pc' = [pc EXCEPT ![t] = l]
    BY <1>1, SessionMoves DEF Goto
  <2>2. pc[t] \notin {"off", "exiting"} /\ l # "release" /\ l \in SlotPcs \cap ClientPcs
    BY <1>1, SessionMoves DEF HoldPcs, SessPcs, SinkPcs, CountedPcs, LitPcs, SlotPcs, ClientPcs
  <2> QED BY <1>1, <2>1, <2>2 DEF PcInv, srvVars
<1>2. CASE ServerStep
  <2>1. CASE Listen \/ Accept \/ Reject
    BY <2>1 DEF Listen, Accept, Reject, PcInv, sessVars
  <2>2. CASE Alloc
    BY <2>2 DEF Alloc, PcInv, sessVars, ServerTypes
  <2>3. CASE Spawn
    <3>1. PICK l \in {"open", "lost"} : pc' = [pc EXCEPT ![srvSlot] = l]
      BY <2>3 DEF Spawn, Enter, Goto
    <3>2. srvSlot \in active /\ srvSlot \in Slots /\ srvPc' = "accept" /\ UNCHANGED active
          /\ fd' = [fd EXCEPT ![srvSlot] = srvFd]
      BY <2>3 DEF Spawn, PcInv, ServerTypes
    <3>3. l \in SlotPcs /\ l # "release"
      BY DEF SlotPcs, SessPcs
    <3> QED BY <3>1, <3>2, <3>3 DEF PcInv, ServerTypes
  <2> QED BY <1>2, <2>1, <2>2, <2>3 DEF ServerStep
<1>3. CASE ClientStep /\ UNCHANGED srvVars
  <2>1. ClientEnabled
    BY <1>3 DEF ClientStep, GotHost, SocketFails, OpenSocket, ConnectFails, Connects, SessionReturned, BackOff
  <2>2. PICK l \in {"socket", "connect", "sleep", "open", "off"} : pc' = [pc EXCEPT ![ClientThread] = l]
    BY <1>3 DEF ClientStep, GotHost, SocketFails, OpenSocket, ConnectFails, Connects, SessionReturned, BackOff,
       Goto
  <2>3. l \in ClientPcs
    BY DEF ClientPcs, HoldPcs, SessPcs
  <2>4. pc'[ClientThread] \in ClientPcs /\ \A i \in Slots : pc'[i] = pc[i]
    BY <2>1, <2>2, <2>3 DEF PcInv
  <2>5. pc' \in [Threads -> SlotPcs \cup ClientPcs]
    BY <2>2, <2>3 DEF PcInv
  <2>6. UNCHANGED srvVars /\ (srvPc = "spawn" => srvSlot \in Slots)
    BY <1>3 DEF ServerTypes
  <2> QED BY <2>4, <2>5, <2>6 DEF PcInv, srvVars
<1>4. ASSUME NEW i \in Slots, SlotStep(i) PROVE PcInv'
  <2>1. CASE ForgetFd(i)
    BY <2>1 DEF ForgetFd, Goto, PcInv, SlotPcs, ServerTypes
  <2>2. CASE Release(i)
    BY <2>2 DEF Release, Goto, PcInv, SlotPcs, ServerTypes
  <2>3. CASE Exit(i)
    BY <2>3 DEF Exit, Goto, PcInv, SlotPcs, srvVars
  <2> QED BY <1>4, <2>1, <2>2, <2>3 DEF SlotStep
<1>5. CASE PeerConnects
  BY <1>5 DEF PeerConnects, sessVars, PcInv
<1>6. CASE UNCHANGED <<pc, srvVars>>
  BY <1>6 DEF srvVars, PcInv
<1>7. ASSUME NEW f \in Fds, PeerCloses(f) \/ PeerResets(f) PROVE UNCHANGED pc
  BY <1>7 DEF PeerCloses, PeerResets
<1>8. StaChanges => UNCHANGED pc
  BY DEF StaChanges, sessVars
<1> QED BY <1>1, <1>2, <1>3, <1>4, <1>5, <1>6, <1>7, <1>8 DEF Next

(* The threads at a set of steps, after one of them has moved.             *)
LEMMA AtGoto ==
  ASSUME PcInv, NEW t \in Threads, NEW l, Goto(t, l), NEW S
  PROVE  At(S)' = IF l \in S THEN At(S) \cup {t} ELSE At(S) \ {t}
  BY DEF PcInv, Goto, At

-----------------------------------------------------------------------------
(* The counts.                                                             *)
LEMMA AtFinite == ASSUME NEW S PROVE IsFiniteSet(At(S)) /\ Cardinality(At(S)) \in Nat
<1>1. At(S) \subseteq Threads
  BY DEF At
<1> QED BY <1>1, ThreadFacts, FS_Subset, FS_CardinalityType

LEMMA CountGoto ==
  ASSUME PcInv, NEW t \in Threads, NEW l, Goto(t, l), NEW S
  PROVE  /\ pc[t] \notin S /\ l \in S => Cardinality(At(S))' = Cardinality(At(S)) + 1
         /\ pc[t] \in S /\ l \notin S => Cardinality(At(S))' = Cardinality(At(S)) - 1
         /\ (pc[t] \in S <=> l \in S) => Cardinality(At(S))' = Cardinality(At(S))
<1>1. At(S)' = IF l \in S THEN At(S) \cup {t} ELSE At(S) \ {t}
  BY AtGoto
<1>2. t \in At(S) <=> pc[t] \in S
  BY DEF At
<1>3. Cardinality(At(S) \cup {t}) = IF t \in At(S) THEN Cardinality(At(S)) ELSE Cardinality(At(S)) + 1
  BY AtFinite, FS_AddElement
<1>4. Cardinality(At(S) \ {t}) = IF t \in At(S) THEN Cardinality(At(S)) - 1 ELSE Cardinality(At(S))
  BY AtFinite, FS_RemoveElement
<1> QED BY <1>1, <1>2, <1>3, <1>4

(* A thread that moves outside, or inside, of all the counts.              *)
LEMMA CountsKept ==
  ASSUME PcInv, CountInv, UNCHANGED <<sinks, active_sessions, led_sessions>>,
         \/ UNCHANGED pc
         \/ \E t \in Threads, l \in SlotPcs \cup ClientPcs :
              Goto(t, l) /\ (pc[t] \in SinkPcs => pc[t] \in LitPcs /\ l \in LitPcs)
                         /\ (l \in SinkPcs => pc[t] \in LitPcs /\ l \in LitPcs)
  PROVE  CountInv'
<1>1. CASE UNCHANGED pc
  BY <1>1 DEF CountInv, At
<1>2. ASSUME NEW t \in Threads, NEW l, Goto(t, l),
             pc[t] \in SinkPcs => pc[t] \in LitPcs /\ l \in LitPcs,
             l \in SinkPcs => pc[t] \in LitPcs /\ l \in LitPcs
      PROVE  CountInv'
  <2>1. /\ pc[t] \in SinkPcs <=> l \in SinkPcs
        /\ pc[t] \in CountedPcs <=> l \in CountedPcs
        /\ pc[t] \in LitPcs <=> l \in LitPcs
    BY <1>2 DEF SinkPcs, CountedPcs
  <2> QED BY <1>2, <2>1, CountGoto DEF CountInv
<1> QED BY <1>1, <1>2

LEMMA CountStep == ASSUME ServerTypes, PcInv, CountInv, Next PROVE CountInv'
<1> USE ThreadFacts
<1>1. ASSUME NEW t \in Threads, SessionStep(t) PROVE CountInv'
  <2>1. CASE OpenSink(t) /\ sinks < MaxSinks
    <3>1. pc[t] = "open" /\ Goto(t, "inc") /\ sinks' = sinks + 1 /\ UNCHANGED <<active_sessions, led_sessions>>
      BY <2>1 DEF OpenSink
    <3>2. "inc" \in SinkPcs \ CountedPcs /\ "inc" \notin LitPcs /\ "open" \notin SinkPcs
          /\ "open" \notin CountedPcs /\ "open" \notin LitPcs
      BY DEF SinkPcs, CountedPcs, LitPcs
    <3> QED BY <3>1, <3>2, CountGoto DEF CountInv
  <2>2. CASE Inc(t)
    <3>1. pc[t] = "inc" /\ Goto(t, "started") /\ active_sessions' = active_sessions + 1
          /\ UNCHANGED <<sinks, led_sessions>>
      BY <2>2 DEF Inc
    <3>2. "inc" \in SinkPcs \ CountedPcs /\ "inc" \notin LitPcs /\ "started" \in SinkPcs
          /\ "started" \in CountedPcs /\ "started" \notin LitPcs
      BY DEF SinkPcs, CountedPcs, LitPcs
    <3> QED BY <3>1, <3>2, CountGoto DEF CountInv
  <2>3. CASE LedStarted(t)
    <3>1. pc[t] = "started" /\ Goto(t, "drain") /\ led_sessions' = led_sessions + 1
          /\ UNCHANGED <<sinks, active_sessions>>
      BY <2>3 DEF LedStarted
    <3>2. "started" \in SinkPcs /\ "started" \in CountedPcs /\ "started" \notin LitPcs /\ "drain" \in SinkPcs
          /\ "drain" \in CountedPcs /\ "drain" \in LitPcs
      BY DEF SinkPcs, CountedPcs, LitPcs
    <3> QED BY <3>1, <3>2, CountGoto DEF CountInv
  <2>4. CASE LedEnded(t)
    <3>1. pc[t] = "ended" /\ Goto(t, "dec") /\ led_sessions' = led_sessions - 1
          /\ UNCHANGED <<sinks, active_sessions>>
      BY <2>4 DEF LedEnded
    <3>2. "ended" \in SinkPcs /\ "ended" \in CountedPcs /\ "ended" \in LitPcs /\ "dec" \in SinkPcs
          /\ "dec" \in CountedPcs /\ "dec" \notin LitPcs
      BY DEF SinkPcs, CountedPcs, LitPcs
    <3> QED BY <3>1, <3>2, CountGoto DEF CountInv
  <2>5. CASE Dec(t)
    <3>1. pc[t] = "dec" /\ Goto(t, "sinkclose") /\ active_sessions' = active_sessions - 1
          /\ UNCHANGED <<sinks, led_sessions>>
      BY <2>5 DEF Dec
    <3>2. "dec" \in SinkPcs /\ "dec" \in CountedPcs /\ "dec" \notin LitPcs /\ "sinkclose" \in SinkPcs
          /\ "sinkclose" \notin CountedPcs /\ "sinkclose" \notin LitPcs
      BY DEF SinkPcs, CountedPcs, LitPcs
    <3> QED BY <3>1, <3>2, CountGoto DEF CountInv
  <2>6. CASE SinkClose(t)
    <3>1. pc[t] = "sinkclose" /\ Goto(t, "close") /\ sinks' = sinks - 1
          /\ UNCHANGED <<active_sessions, led_sessions>>
      BY <2>6 DEF SinkClose
    <3>2. "sinkclose" \in SinkPcs /\ "sinkclose" \notin CountedPcs /\ "sinkclose" \notin LitPcs
          /\ "close" \notin SinkPcs /\ "close" \notin CountedPcs /\ "close" \notin LitPcs
      BY DEF SinkPcs, CountedPcs, LitPcs
    <3> QED BY <3>1, <3>2, CountGoto DEF CountInv
  <2>7. CASE Drain(t) \/ Take(t) \/ SendSome(t) \/ SendFail(t)
    <3>1. UNCHANGED <<sinks, active_sessions, led_sessions>> /\ pc[t] \in LitPcs
          /\ \E l \in {"drain", "take", "send", "ended"} : Goto(t, l)
      BY <2>7 DEF Drain, Take, SendSome, SendFail, LitPcs
    <3>2. {"drain", "take", "send", "ended"} \subseteq LitPcs \cap SlotPcs
      BY DEF LitPcs, SlotPcs, SessPcs, SinkPcs, CountedPcs
    <3> QED BY <3>1, <3>2, CountsKept
  <2>8. CASE Close(t) \/ (OpenSink(t) /\ ~(sinks < MaxSinks))
    <3>1. UNCHANGED <<sinks, active_sessions, led_sessions>> /\ pc[t] \in {"open", "close"} /\ Goto(t, "returned")
      BY <2>8 DEF OpenSink, Close
    <3>2. pc[t] \notin SinkPcs /\ "returned" \notin SinkPcs /\ "returned" \in SlotPcs
      BY <3>1 DEF SinkPcs, CountedPcs, LitPcs, SlotPcs
    <3> QED BY <3>1, <3>2, CountsKept
  <2> QED BY <1>1, <2>1, <2>2, <2>3, <2>4, <2>5, <2>6, <2>7, <2>8 DEF SessionStep
<1>2. ASSUME NEW t \in Threads,
             NEW l \in {"open", "off", "release", "exiting", "lost", "socket", "connect", "sleep"},
             pc[t] \in {"off", "returned", "release", "exiting", "socket", "connect", "sleep"}, Goto(t, l),
             UNCHANGED <<sinks, active_sessions, led_sessions>>
      PROVE  CountInv'
  <2>1. pc[t] \notin SinkPcs /\ l \notin SinkPcs /\ l \in SlotPcs \cup ClientPcs
    BY <1>2 DEF SinkPcs, CountedPcs, LitPcs, SlotPcs, ClientPcs, HoldPcs, SessPcs
  <2> QED BY <1>2, <2>1, CountsKept
<1>3. CASE UNCHANGED <<pc, sinks, active_sessions, led_sessions>>
  BY <1>3, CountsKept
<1>4. CASE ServerStep \/ PeerConnects
  <2>1. CASE Spawn
    <3>1. srvSlot \in Threads /\ pc[srvSlot] \in {"off", "exiting"}
      BY <2>1 DEF Spawn, PcInv, ServerTypes
    <3> QED BY <1>2, <2>1, <3>1 DEF Spawn, Enter
  <2>2. CASE ~Spawn
    BY <1>3, <1>4, <2>2 DEF ServerStep, Listen, Accept, Alloc, Reject, PeerConnects, sessVars
  <2> QED BY <2>1, <2>2
<1>5. CASE ClientStep
  BY <1>2, <1>5 DEF ClientStep, GotHost, SocketFails, OpenSocket, ConnectFails, Connects, SessionReturned,
     BackOff
<1>6. ASSUME NEW i \in Slots, SlotStep(i) PROVE CountInv'
  BY <1>2, <1>6 DEF SlotStep, ForgetFd, Release, Exit
<1>7. CASE StaChanges
  BY <1>3, <1>7 DEF StaChanges, sessVars
<1>8. ASSUME NEW f \in Fds, PeerCloses(f) \/ PeerResets(f) PROVE CountInv'
  BY <1>3, <1>8 DEF PeerCloses, PeerResets
<1> QED BY <1>1, <1>4, <1>5, <1>6, <1>7, <1>8 DEF Next

-----------------------------------------------------------------------------
(* The descriptors: what a step can do with one.                           *)
LostKept == \A i \in Slots : pc[i] = "lost" => pc'[i] = "lost" /\ fd'[i] = fd[i]

LEMMA FdKept ==
  ASSUME FdInv, Holding' = Holding, \A t \in Holding : sfd'[t] = sfd[t],
         Handed' = Handed, Handed => srvFd' = srvFd, LostKept,
         \A f \in Fds : sock'[f] = "free" <=> sock[f] = "free"
  PROVE  FdInv'
<1>1. \A t \in Holding' : sfd'[t] \in Fds /\ sock'[sfd'[t]] # "free"
  BY DEF FdInv
<1>2. \A t, u \in Holding' : t # u => sfd'[t] # sfd'[u]
  BY DEF FdInv
<1>3. Handed' => srvFd' \in Fds /\ sock'[srvFd'] # "free" /\ \A t \in Holding' : sfd'[t] # srvFd'
  BY DEF FdInv
<1>4. ASSUME NEW f \in Fds, sock'[f] # "free"
      PROVE  \/ \E t \in Holding' : sfd'[t] = f
             \/ Handed' /\ srvFd' = f
             \/ \E i \in Slots : pc'[i] = "lost" /\ fd'[i] = f
  BY <1>4 DEF FdInv, LostKept
<1> QED BY <1>1, <1>2, <1>3, <1>4 DEF FdInv

(* A session, or the client that cannot connect, closes its own.           *)
LEMMA FdClosed ==
  ASSUME Types, FdInv, NEW t \in Holding, Holding' = Holding \ {t}, UNCHANGED <<sfd, srvFd>>,
         Handed' = Handed, LostKept, CloseFd(sfd[t])
  PROVE  FdInv'
<1>1. /\ sfd[t] \in Fds
      /\ \A f \in Fds : f # sfd[t] => sock'[f] = sock[f]
      /\ sock'[sfd[t]] = "free"
  BY DEF CloseFd, FdInv, Types
<1>2. \A u \in Holding' : u \in Holding /\ sfd[u] \in Fds /\ sfd[u] # sfd[t]
  BY DEF FdInv
<1>3. \A u \in Holding' : sfd'[u] \in Fds /\ sock'[sfd'[u]] # "free"
  BY <1>1, <1>2 DEF FdInv
<1>4. \A u, v \in Holding' : u # v => sfd'[u] # sfd'[v]
  BY <1>2 DEF FdInv
<1>5. Handed' => srvFd' \in Fds /\ sock'[srvFd'] # "free" /\ \A u \in Holding' : sfd'[u] # srvFd'
  BY <1>1, <1>2 DEF FdInv
<1>6. ASSUME NEW f \in Fds, sock'[f] # "free"
      PROVE  \/ \E u \in Holding' : sfd'[u] = f
             \/ Handed' /\ srvFd' = f
             \/ \E i \in Slots : pc'[i] = "lost" /\ fd'[i] = f
  <2>1. f # sfd[t] /\ sock[f] # "free"
    BY <1>1, <1>6
  <2> QED BY <2>1 DEF FdInv, LostKept
<1> QED BY <1>3, <1>4, <1>5, <1>6 DEF FdInv

(* The server opens one, ...                                               *)
LEMMA FdAccepted ==
  ASSUME Types, FdInv, NEW f \in Fds, ~Handed, Handed', srvFd' = f, OpenFd(f), Holding' = Holding,
         UNCHANGED sfd, LostKept
  PROVE  FdInv'
<1>1. sock[f] = "free" /\ sock'[f] = "open" /\ \A g \in Fds : g # f => sock'[g] = sock[g]
  BY DEF OpenFd, Types
<1>2. \A t \in Holding : sfd[t] \in Fds /\ sfd[t] # f
  BY <1>1 DEF FdInv
<1>3. \A t \in Holding' : sfd'[t] \in Fds /\ sock'[sfd'[t]] # "free"
  BY <1>1, <1>2 DEF FdInv
<1>4. \A t, u \in Holding' : t # u => sfd'[t] # sfd'[u]
  BY DEF FdInv
<1>5. srvFd' \in Fds /\ sock'[srvFd'] # "free" /\ \A t \in Holding' : sfd'[t] # srvFd'
  BY <1>1, <1>2
<1>6. ASSUME NEW g \in Fds, sock'[g] # "free"
      PROVE  \/ \E t \in Holding' : sfd'[t] = g
             \/ Handed' /\ srvFd' = g
             \/ \E i \in Slots : pc'[i] = "lost" /\ fd'[i] = g
  BY <1>1, <1>6 DEF FdInv, LostKept
<1> QED BY <1>3, <1>4, <1>5, <1>6 DEF FdInv

(* ... closes it again ...                                                 *)
LEMMA FdRejected ==
  ASSUME Types, FdInv, Handed, ~Handed', CloseFd(srvFd), Holding' = Holding, UNCHANGED sfd, LostKept
  PROVE  FdInv'
<1>1. srvFd \in Fds /\ sock'[srvFd] = "free" /\ \A g \in Fds : g # srvFd => sock'[g] = sock[g]
  BY DEF CloseFd, FdInv, Types
<1>2. \A t \in Holding' : sfd'[t] \in Fds /\ sock'[sfd'[t]] # "free"
  BY <1>1 DEF FdInv
<1>3. \A t, u \in Holding' : t # u => sfd'[t] # sfd'[u]
  BY DEF FdInv
<1>4. ASSUME NEW g \in Fds, sock'[g] # "free"
      PROVE  \/ \E t \in Holding' : sfd'[t] = g
             \/ Handed' /\ srvFd' = g
             \/ \E i \in Slots : pc'[i] = "lost" /\ fd'[i] = g
  BY <1>1, <1>4 DEF FdInv, LostKept
<1> QED BY <1>2, <1>3, <1>4 DEF FdInv

(* ... or hands it over to a session.                                      *)
LEMMA FdSpawned ==
  ASSUME Types, FdInv, Handed, ~Handed', NEW i \in Threads, i \notin Holding, Holding' = Holding \cup {i},
         sfd' = [sfd EXCEPT ![i] = srvFd], UNCHANGED sock, LostKept
  PROVE  FdInv'
<1>1. sfd'[i] = srvFd /\ srvFd \in Fds /\ sock[srvFd] # "free"
      /\ \A t \in Holding : sfd'[t] = sfd[t] /\ sfd[t] # srvFd
  BY DEF FdInv, Types
<1>2. \A t \in Holding' : sfd'[t] \in Fds /\ sock'[sfd'[t]] # "free"
  BY <1>1 DEF FdInv
<1>3. \A t, u \in Holding' : t # u => sfd'[t] # sfd'[u]
  BY <1>1 DEF FdInv
<1>4. ASSUME NEW g \in Fds, sock'[g] # "free"
      PROVE  \/ \E t \in Holding' : sfd'[t] = g
             \/ Handed' /\ srvFd' = g
             \/ \E j \in Slots : pc'[j] = "lost" /\ fd'[j] = g
  BY <1>1, <1>4 DEF FdInv, LostKept
<1> QED BY <1>2, <1>3, <1>4 DEF FdInv

(* ... that k_thread_create lost.                                          *)
LEMMA FdLost ==
  ASSUME Types, FdInv, Handed, ~Handed', NEW i \in Slots, Holding' = Holding,
         pc'[i] = "lost", fd'[i] = srvFd, UNCHANGED <<sock, sfd>>, LostKept
  PROVE  FdInv'
<1>1. \A t \in Holding' : sfd'[t] \in Fds /\ sock'[sfd'[t]] # "free"
  BY DEF FdInv
<1>2. \A t, u \in Holding' : t # u => sfd'[t] # sfd'[u]
  BY DEF FdInv
<1>3. ASSUME NEW g \in Fds, sock'[g] # "free"
      PROVE  \/ \E t \in Holding' : sfd'[t] = g
             \/ Handed' /\ srvFd' = g
             \/ \E j \in Slots : pc'[j] = "lost" /\ fd'[j] = g
  BY <1>3 DEF FdInv, LostKept
<1> QED BY <1>1, <1>2, <1>3 DEF FdInv

(* The client opens one for itself.                                        *)
LEMMA FdConnected ==
  ASSUME Types, FdInv, NEW f \in Fds, OpenFd(f), NEW i \in Threads, i \notin Holding,
         Holding' = Holding \cup {i}, sfd' = [sfd EXCEPT ![i] = f],
         Handed' = Handed, UNCHANGED srvFd, LostKept
  PROVE  FdInv'
<1>1. sock[f] = "free" /\ sock'[f] = "open" /\ \A g \in Fds : g # f => sock'[g] = sock[g]
  BY DEF OpenFd, Types
<1>2. sfd'[i] = f /\ \A t \in Holding : sfd'[t] = sfd[t] /\ sfd[t] \in Fds /\ sfd[t] # f
  BY <1>1 DEF FdInv, Types
<1>3. \A t \in Holding' : sfd'[t] \in Fds /\ sock'[sfd'[t]] # "free"
  BY <1>1, <1>2 DEF FdInv
<1>4. \A t, u \in Holding' : t # u => sfd'[t] # sfd'[u]
  BY <1>2 DEF FdInv
<1>5. Handed' => srvFd' \in Fds /\ sock'[srvFd'] # "free" /\ \A t \in Holding' : sfd'[t] # srvFd'
  BY <1>1, <1>2 DEF FdInv
<1>6. ASSUME NEW g \in Fds, sock'[g] # "free"
      PROVE  \/ \E t \in Holding' : sfd'[t] = g
             \/ Handed' /\ srvFd' = g
             \/ \E j \in Slots : pc'[j] = "lost" /\ fd'[j] = g
  BY <1>1, <1>2, <1>6 DEF FdInv, LostKept
<1> QED BY <1>3, <1>4, <1>5, <1>6 DEF FdInv

(* The threads that hold a descriptor, after one of them has moved.        *)
LEMMA HoldingGoto ==
  ASSUME PcInv, NEW t \in Threads, NEW l, Goto(t, l)
  PROVE  Holding' = IF l \in HoldPcs THEN Holding \cup {t} ELSE Holding \ {t}
  BY AtGoto DEF Holding

LEMMA LostGoto ==
  ASSUME PcInv, NEW t \in Threads, NEW l, Goto(t, l), pc[t] # "lost",
         \A i \in Slots : i # t => fd'[i] = fd[i]
  PROVE  LostKept
  BY ThreadFacts DEF PcInv, Goto, LostKept

LEMMA FdSession ==
  ASSUME Types, PcInv, FdInv, NEW t \in Threads, SessionStep(t), UNCHANGED srvVars
  PROVE  FdInv'
<1>1. /\ t \in Holding /\ pc[t] # "lost" /\ UNCHANGED <<sfd, srvFd, fd>> /\ Handed' = Handed
      /\ \E l \in SessPcs \cup {"returned"} : Goto(t, l)
  BY SessionMoves DEF Holding, At, Handed, srvVars, HoldPcs, SessPcs, SinkPcs, CountedPcs, LitPcs
<1>2. LostKept
  BY <1>1, LostGoto
<1>3. "returned" \notin HoldPcs
  BY DEF HoldPcs, SessPcs, SinkPcs, CountedPcs, LitPcs
<1>4. CASE Close(t) \/ (OpenSink(t) /\ ~(sinks < MaxSinks))
  <2>1. Goto(t, "returned") /\ CloseFd(sfd[t])
    BY <1>4 DEF Close, OpenSink
  <2>2. Holding' = Holding \ {t}
    BY <1>3, <2>1, HoldingGoto
  <2> QED BY <1>1, <1>2, <2>1, <2>2, FdClosed
<1>5. CASE ~Close(t) /\ ~(OpenSink(t) /\ ~(sinks < MaxSinks))
  <2>1. UNCHANGED sock /\ \E l \in SessPcs : Goto(t, l)
    BY <1>5 DEF SessionStep, OpenSink, Inc, LedStarted, Drain, Take, SendSome, SendFail, LedEnded, Dec,
       SinkClose, HoldPcs, SessPcs, SinkPcs, CountedPcs, LitPcs
  <2>2. Holding' = Holding
    BY <1>1, <2>1, HoldingGoto DEF HoldPcs
  <2> QED BY <1>1, <1>2, <2>1, <2>2, FdKept
<1> QED BY <1>4, <1>5

LEMMA FdServer ==
  ASSUME Types, ServerTypes, PcInv, FdInv, ServerStep
  PROVE  FdInv'
<1>1. CASE Listen \/ Alloc
  <2>1. /\ UNCHANGED <<sock, pc, sfd, srvFd>> /\ Handed' = Handed
        /\ \A i \in Slots : pc[i] = "lost" => fd'[i] = fd[i]
    <3>1. CASE Listen
      BY <3>1 DEF Listen, sessVars, Handed
    <3>2. CASE Alloc
      BY <3>2 DEF Alloc, sessVars, Handed, PcInv, ServerTypes
    <3> QED BY <1>1, <3>1, <3>2
  <2>2. Holding' = Holding /\ LostKept
    BY <2>1 DEF Holding, At, LostKept
  <2> QED BY <2>1, <2>2, FdKept
<1>2. CASE Accept
  <2>1. PICK f \in Fds : OpenFd(f) /\ srvFd' = f
    BY <1>2 DEF Accept
  <2>2. UNCHANGED <<pc, sfd, fd>> /\ ~Handed /\ Handed'
    BY <1>2 DEF Accept, Handed
  <2>3. Holding' = Holding /\ LostKept
    BY <2>2 DEF Holding, At, LostKept
  <2> QED BY <2>1, <2>2, <2>3, FdAccepted
<1>3. CASE Reject
  <2>1. UNCHANGED <<pc, sfd, fd>> /\ Handed /\ ~Handed' /\ CloseFd(srvFd)
    BY <1>3 DEF Reject, Handed
  <2>2. Holding' = Holding /\ LostKept
    BY <2>1 DEF Holding, At, LostKept
  <2> QED BY <2>1, <2>2, FdRejected
<1>4. CASE Spawn
  <2>1. /\ UNCHANGED sock /\ Handed /\ ~Handed' /\ srvSlot \in Slots /\ srvSlot \in Threads
        /\ pc[srvSlot] \in {"off", "exiting"} /\ fd' = [fd EXCEPT ![srvSlot] = srvFd]
    BY <1>4, ThreadFacts DEF Spawn, Handed, PcInv, ServerTypes
  <2>2. srvSlot \notin Holding /\ \A i \in Slots : i # srvSlot => fd'[i] = fd[i]
    BY <2>1 DEF Holding, At, HoldPcs, SessPcs, SinkPcs, CountedPcs, LitPcs, ServerTypes
  <2>3. CASE Enter(srvSlot, srvFd)
    <3>1. Goto(srvSlot, "open") /\ sfd' = [sfd EXCEPT ![srvSlot] = srvFd]
      BY <2>3 DEF Enter
    <3>2. LostKept
      BY <2>1, <2>2, <3>1, LostGoto
    <3>3. Holding' = Holding \cup {srvSlot}
      BY <2>1, <3>1, HoldingGoto DEF HoldPcs, SessPcs
    <3> QED BY <2>1, <2>2, <3>1, <3>2, <3>3, FdSpawned
  <2>4. CASE Goto(srvSlot, "lost") /\ UNCHANGED sfd
    <3>1. LostKept
      BY <2>1, <2>2, <2>4, LostGoto
    <3>2. Holding' = Holding
      BY <2>1, <2>2, <2>4, HoldingGoto DEF HoldPcs, SessPcs, SinkPcs, CountedPcs, LitPcs
    <3>3. pc'[srvSlot] = "lost" /\ fd'[srvSlot] = srvFd
      BY <2>1, <2>4 DEF Goto, PcInv, ServerTypes
    <3> QED BY <2>1, <2>4, <3>1, <3>2, <3>3, FdLost
  <2> QED BY <1>4, <2>3, <2>4 DEF Spawn
<1> QED BY <1>1, <1>2, <1>3, <1>4 DEF ServerStep

LEMMA FdClient ==
  ASSUME Types, PcInv, FdInv, ClientStep, UNCHANGED srvVars
  PROVE  FdInv'
<1>1. UNCHANGED <<srvFd, fd>> /\ Handed' = Handed
  BY DEF srvVars, Handed
<1>2. ClientThread \in Threads /\ ClientEnabled
  BY ThreadFacts DEF ClientStep, GotHost, SocketFails, OpenSocket, ConnectFails, Connects, SessionReturned,
     BackOff
<1>3. ASSUME NEW l, Goto(ClientThread, l), pc[ClientThread] # "lost" PROVE LostKept
  BY <1>1, <1>2, <1>3, LostGoto
<1>4. CASE OpenSocket
  <2>1. pc[ClientThread] = "socket" /\ Goto(ClientThread, "connect")
    BY <1>4 DEF OpenSocket
  <2>2. PICK f \in Fds : OpenFd(f) /\ sfd' = [sfd EXCEPT ![ClientThread] = f]
    BY <1>4 DEF OpenSocket
  <2>3. Holding' = Holding \cup {ClientThread}
    BY <1>2, <2>1, HoldingGoto DEF HoldPcs
  <2>4. ClientThread \notin Holding
    BY <2>1 DEF Holding, At, HoldPcs, SessPcs, SinkPcs, CountedPcs, LitPcs
  <2> QED BY <1>1, <1>2, <1>3, <2>1, <2>2, <2>3, <2>4, FdConnected
<1>5. CASE ConnectFails
  <2>1. pc[ClientThread] = "connect" /\ Goto(ClientThread, "sleep") /\ CloseFd(sfd[ClientThread])
        /\ UNCHANGED sfd
    BY <1>5 DEF ConnectFails
  <2>2. ClientThread \in Holding
    BY <1>2, <2>1 DEF Holding, At, HoldPcs
  <2>3. Holding' = Holding \ {ClientThread}
    BY <1>2, <2>1, HoldingGoto DEF HoldPcs, SessPcs, SinkPcs, CountedPcs, LitPcs
  <2> QED BY <1>1, <1>3, <2>1, <2>2, <2>3, FdClosed
<1>6. CASE Connects
  <2>1. pc[ClientThread] = "connect" /\ Goto(ClientThread, "open") /\ UNCHANGED <<sock, sfd>>
    BY <1>6 DEF Connects
  <2>2. Holding' = Holding
    BY <1>2, <2>1, HoldingGoto DEF Holding, At, HoldPcs, SessPcs
  <2> QED BY <1>1, <1>3, <2>1, <2>2, FdKept
<1>7. CASE GotHost \/ SocketFails \/ SessionReturned \/ BackOff
  <2>1. /\ pc[ClientThread] \in {"off", "socket", "returned", "sleep"} /\ UNCHANGED <<sock, sfd>>
        /\ \E l \in {"socket", "sleep", "off"} : Goto(ClientThread, l)
    BY <1>7 DEF GotHost, SocketFails, SessionReturned, BackOff
  <2>2. Holding' = Holding
    BY <1>2, <2>1, HoldingGoto DEF Holding, At, HoldPcs, SessPcs, SinkPcs, CountedPcs, LitPcs
  <2> QED BY <1>1, <1>3, <2>1, <2>2, FdKept
<1> QED BY <1>4, <1>5, <1>6, <1>7 DEF ClientStep

LEMMA FdSlot ==
  ASSUME Types, ServerTypes, PcInv, FdInv, NEW i \in Slots, SlotStep(i)
  PROVE  FdInv'
<1>1. /\ UNCHANGED <<sock, sfd, srvFd>> /\ Handed' = Handed /\ i \in Threads
      /\ pc[i] \in {"returned", "release", "exiting"}
      /\ \E l \in {"release", "exiting", "off"} : Goto(i, l)
      /\ \A j \in Slots : j # i => fd'[j] = fd[j]
  BY ThreadFacts DEF SlotStep, ForgetFd, Release, Exit, PcInv, Handed, srvVars, ServerTypes
<1>2. Holding' = Holding /\ LostKept
  <2>1. i \notin Holding
    BY <1>1 DEF Holding, At, HoldPcs, SessPcs, SinkPcs, CountedPcs, LitPcs
  <2>2. \A l \in {"release", "exiting", "off"} : l \notin HoldPcs
    BY DEF HoldPcs, SessPcs, SinkPcs, CountedPcs, LitPcs
  <2> QED BY <1>1, <2>1, <2>2, HoldingGoto, LostGoto
<1> QED BY <1>1, <1>2, FdKept

LEMMA FdStep ==
  ASSUME Types, ServerTypes, PcInv, FdInv, Next
  PROVE  FdInv'
<1>1. CASE PeerConnects \/ (StaChanges /\ UNCHANGED srvVars)
  <2>1. UNCHANGED <<sock, pc, sfd, srvFd, srvPc, fd>>
    BY <1>1 DEF PeerConnects, StaChanges, sessVars, srvVars
  <2>2. Holding' = Holding /\ LostKept /\ Handed' = Handed
    BY <2>1 DEF Holding, At, LostKept, Handed
  <2> QED BY <2>1, <2>2, FdKept
<1>2. ASSUME NEW f \in Fds, PeerCloses(f) \/ PeerResets(f), UNCHANGED srvVars PROVE FdInv'
  <2>1. UNCHANGED <<pc, sfd, srvFd, srvPc, fd>>
    BY <1>2 DEF PeerCloses, PeerResets, srvVars
  <2>2. Holding' = Holding /\ LostKept /\ Handed' = Handed
    BY <2>1 DEF Holding, At, LostKept, Handed
  <2>3. \A g \in Fds : sock'[g] = "free" <=> sock[g] = "free"
    BY <1>2 DEF PeerCloses, PeerResets, Types
  <2> QED BY <2>1, <2>2, <2>3, FdKept
<1> QED BY <1>1, <1>2, FdSession, FdServer, FdClient, FdSlot DEF Next

-----------------------------------------------------------------------------
(* The frames on the wire.                                                 *)
FrameOK(t) == pc[t] \in HoldPcs =>
                /\ pc[t] = "send" => wire[sfd[t]] = sent[t]
                /\ pc[t] \in {"connect", "open", "inc", "started", "drain", "take"} => wire[sfd[t]] = 0

LEMMA HoldsFdPcs ==
  \A t : (InSession(t) <=> pc[t] \in SessPcs) /\ (HoldsFd(t) <=> pc[t] \in HoldPcs)
  BY DEF HoldsFd, InSession, HoldPcs, SessPcs, SinkPcs, CountedPcs, LitPcs

LEMMA WireParts ==
  WireInv <=> (Handed => wire[srvFd] = 0) /\ \A t \in Threads : FrameOK(t)
<1>1. \A t \in Threads : t \in Holding <=> pc[t] \in HoldPcs
  BY DEF Holding, At
<1>2. Holding \subseteq Threads
  BY DEF Holding, At
<1>3. "connect" \in HoldPcs /\ "connect" \notin SessPcs /\ HoldPcs = SessPcs \cup {"connect"}
  BY DEF HoldPcs, SessPcs, SinkPcs, CountedPcs, LitPcs
<1> QED BY <1>1, <1>2, <1>3, HoldsFdPcs DEF WireInv, WholeFrames, FrameOK

LEMMA FrameKept ==
  ASSUME NEW u, FrameOK(u), pc'[u] = pc[u], sfd'[u] = sfd[u], sent'[u] = sent[u],
         pc[u] \in HoldPcs => wire'[sfd[u]] = wire[sfd[u]]
  PROVE  FrameOK(u)'
  BY DEF FrameOK

LEMMA WireSession ==
  ASSUME Types, PcInv, FdInv, WireInv, NEW t \in Threads, SessionStep(t), UNCHANGED srvVars
  PROVE  (Handed => wire[srvFd] = 0)' /\ \A u \in Threads : FrameOK(u)'
<1>1. /\ t \in Holding /\ sfd[t] \in Fds /\ UNCHANGED <<sfd, srvFd, srvPc>> /\ FrameOK(t) /\ pc[t] \in HoldPcs
      /\ \E l : pc' = [pc EXCEPT ![t] = l]
  BY SessionMoves, WireParts DEF Holding, At, srvVars, FdInv, Goto, HoldPcs
<1>2. (\A f \in Fds : f # sfd[t] => wire'[f] = wire[f]) /\ (\A u \in Threads : u # t => sent'[u] = sent[u])
  BY DEF Types, SessionStep, OpenSink, Inc, LedStarted, Drain, Take, SendSome, SendFail, LedEnded, Dec,
     SinkClose, Close
<1>3. (Handed => wire[srvFd] = 0)'
  BY <1>1, <1>2, WireParts DEF FdInv, Handed
<1>4. ASSUME NEW u \in Threads, u # t PROVE FrameOK(u)'
  <2>1. pc'[u] = pc[u] /\ sfd'[u] = sfd[u] /\ sent'[u] = sent[u]
    BY <1>1, <1>2, <1>4 DEF PcInv
  <2>2. pc[u] \in HoldPcs => sfd[u] \in Fds /\ sfd[u] # sfd[t]
    BY <1>1, <1>4 DEF FdInv, Holding, At
  <2> QED BY <1>2, <2>1, <2>2, FrameKept, WireParts
<1>5. FrameOK(t)'
  <2>1. CASE SendSome(t)
    <3>1. PICK n \in 1..(FrameLen - sent[t]) :
            /\ sent'[t] = (sent[t] + n) % FrameLen
            /\ wire'[sfd[t]] = (wire[sfd[t]] + n) % FrameLen
            /\ pc'[t] = IF sent[t] + n = FrameLen THEN "drain" ELSE "send"
      BY <1>1, <2>1 DEF SendSome, Goto, Types, PcInv
    <3>2. wire[sfd[t]] = sent[t] /\ sent[t] \in 0..(FrameLen - 1) /\ FrameLen \in Nat \ {0}
      BY <1>1, <2>1, FdsAssumption DEF FrameOK, SendSome, Types
    <3>3. CASE sent[t] + n = FrameLen
      <4>1. (sent[t] + n) % FrameLen = 0
        BY <3>2, <3>3
      <4> QED BY <1>1, <3>1, <3>2, <3>3, <4>1 DEF FrameOK
    <3>4. CASE sent[t] + n # FrameLen
      <4>1. sent[t] + n \in 0..(FrameLen - 1)
        BY <3>2, <3>4
      <4>2. (sent[t] + n) % FrameLen = sent[t] + n
        BY <3>2, <4>1
      <4> QED BY <1>1, <3>1, <3>2, <3>4, <4>2 DEF FrameOK
    <3> QED BY <3>3, <3>4
  <2>2. CASE Take(t)
    <3>1. \/ pc'[t] = "send" /\ sent'[t] = 0
          \/ pc'[t] = "drain"
      BY <2>2 DEF Take, Goto, Types, PcInv
    <3>2. wire'[sfd'[t]] = 0
      BY <1>1, <2>2 DEF Take, FrameOK
    <3> QED BY <3>1, <3>2 DEF FrameOK
  <2>3. CASE ~SendSome(t) /\ ~Take(t)
    <3>1. UNCHANGED <<wire, sent>>
          /\ \/ pc'[t] \in {"inc", "started", "drain", "take"} /\ pc[t] \in {"open", "inc", "started", "drain"}
             \/ pc'[t] \in {"ended", "dec", "sinkclose", "close", "returned"}
      BY <2>3 DEF SessionStep, OpenSink, Inc, LedStarted, Drain, SendFail, LedEnded, Dec, SinkClose, Close,
         Goto, PcInv
    <3> QED BY <1>1, <3>1 DEF FrameOK
  <2> QED BY <2>1, <2>2, <2>3
<1> QED BY <1>3, <1>4, <1>5

LEMMA WireStep ==
  ASSUME Types, ServerTypes, PcInv, FdInv, WireInv, Next
  PROVE  WireInv'
<1>00. (WireInv <=> (Handed => wire[srvFd] = 0) /\ \A t \in Threads : FrameOK(t))'
  BY WireParts, PTL
<1>0. (Handed => wire[srvFd] = 0) /\ \A t \in Threads : FrameOK(t)
  BY WireParts
<1>1. ASSUME UNCHANGED <<wire, sfd, sent>>, UNCHANGED srvFd, Handed' => Handed, NEW t \in Threads, NEW l,
             l \notin HoldPcs, Goto(t, l) \/ UNCHANGED pc
      PROVE  (Handed => wire[srvFd] = 0)' /\ \A u \in Threads : FrameOK(u)'
  <2>1. \A u \in Threads : pc'[u] = pc[u] \/ pc'[u] \notin HoldPcs
    BY <1>1 DEF Goto, PcInv
  <2> QED BY <1>0, <1>1, <2>1 DEF FrameOK
<1>2. ASSUME NEW f \in Fds, OpenFd(f), NEW u \in Threads, FrameOK(u), pc'[u] = pc[u], sfd'[u] = sfd[u],
             sent'[u] = sent[u]
      PROVE  FrameOK(u)'
  <2>1. pc[u] \in HoldPcs => sfd[u] \in Fds /\ sfd[u] # f
    BY <1>2 DEF OpenFd, FdInv, Holding, At
  <2>2. \A g \in Fds : g # f => wire'[g] = wire[g]
    BY <1>2 DEF OpenFd, Types
  <2> QED BY <1>2, <2>1, <2>2, FrameKept
<1>3. ASSUME NEW t \in Threads, pc'[t] \in {"connect", "open"}, wire'[sfd'[t]] = 0 PROVE FrameOK(t)'
  BY <1>3 DEF FrameOK
<1>4. "off" \notin HoldPcs /\ "release" \notin HoldPcs /\ "exiting" \notin HoldPcs /\ "lost" \notin HoldPcs
      /\ "socket" \notin HoldPcs /\ "sleep" \notin HoldPcs
  BY DEF HoldPcs, SessPcs, SinkPcs, CountedPcs, LitPcs
<1>5. CASE ServerStep
  <2>1. CASE Listen \/ Alloc \/ Reject
    <3>1. UNCHANGED <<wire, sfd, sent, pc, srvFd>> /\ (Handed' => Handed)
      BY <2>1 DEF Listen, Alloc, Reject, sessVars, Handed
    <3> QED BY <1>0, <1>00, <3>1 DEF FrameOK
  <2>2. CASE Accept
    <3>1. PICK f \in Fds : OpenFd(f) /\ srvFd' = f
      BY <2>2 DEF Accept
    <3>2. UNCHANGED <<pc, sfd, sent>>
      BY <2>2 DEF Accept
    <3>3. \A u \in Threads : FrameOK(u)'
      BY <1>0, <1>2, <3>1, <3>2
    <3>4. wire'[srvFd'] = 0
      BY <3>1 DEF OpenFd, Types
    <3> QED BY <1>00, <3>3, <3>4
  <2>3. CASE Spawn
    <3>1. srvSlot \in Threads /\ UNCHANGED <<wire, sent, srvFd>> /\ ~Handed' /\ Handed
      BY <2>3, ThreadFacts DEF Spawn, Handed, ServerTypes
    <3>2. CASE Enter(srvSlot, srvFd)
      <4>0. PICK i \in Threads : i = srvSlot
        BY <3>1
      <4>1. pc'[i] = "open" /\ sfd'[i] = srvFd
            /\ \A u \in Threads : u # i => pc'[u] = pc[u] /\ sfd'[u] = sfd[u]
        BY <3>1, <3>2, <4>0 DEF Enter, Goto, PcInv, Types
      <4>2. FrameOK(i)'
        BY <1>0, <1>3, <3>1, <4>1
      <4>3. ASSUME NEW u \in Threads, u # i PROVE FrameOK(u)'
        BY <1>0, <3>1, <4>1, <4>3, FrameKept
      <4> QED BY <1>00, <3>1, <4>2, <4>3
    <3>3. CASE Goto(srvSlot, "lost") /\ UNCHANGED sfd
      BY <1>00, <1>1, <1>4, <3>1, <3>3
    <3> QED BY <2>3, <3>2, <3>3 DEF Spawn
  <2> QED BY <1>5, <2>1, <2>2, <2>3 DEF ServerStep
<1>6. CASE ClientStep /\ UNCHANGED srvVars
  <2>1. ClientThread \in Threads /\ UNCHANGED <<srvFd, srvPc>>
    BY <1>6, ThreadFacts DEF ClientStep, GotHost, SocketFails, OpenSocket, ConnectFails, Connects,
       SessionReturned, BackOff, srvVars
  <2>2. CASE OpenSocket
    <3>1. PICK f \in Fds : OpenFd(f) /\ Goto(ClientThread, "connect") /\ sfd' = [sfd EXCEPT ![ClientThread] = f]
      BY <2>2 DEF OpenSocket
    <3>2. UNCHANGED sent /\ wire'[f] = 0 /\ \A g \in Fds : g # f => wire'[g] = wire[g]
      BY <2>2, <3>1 DEF OpenSocket, OpenFd, Types
    <3>3. pc'[ClientThread] = "connect" /\ sfd'[ClientThread] = f
          /\ \A u \in Threads : u # ClientThread => pc'[u] = pc[u] /\ sfd'[u] = sfd[u]
      BY <2>1, <3>1 DEF Goto, PcInv, Types
    <3>4. FrameOK(ClientThread)'
      BY <1>3, <2>1, <3>2, <3>3
    <3>5. ASSUME NEW u \in Threads, u # ClientThread PROVE FrameOK(u)'
      BY <1>0, <1>2, <3>1, <3>2, <3>3, <3>5
    <3>6. Handed' => wire'[srvFd'] = 0
      <4>1. Handed => srvFd \in Fds /\ srvFd # f
        BY <3>1 DEF FdInv, OpenFd
      <4> QED BY <1>0, <2>1, <3>2, <4>1 DEF Handed
    <3> QED BY <1>00, <3>4, <3>5, <3>6
  <2>3. CASE Connects
    <3>1. /\ UNCHANGED <<wire, sfd, sent>> /\ pc[ClientThread] = "connect" /\ pc'[ClientThread] = "open"
          /\ \A u \in Threads : u # ClientThread => pc'[u] = pc[u]
      BY <2>1, <2>3 DEF Connects, Goto, PcInv
    <3>2. wire[sfd[ClientThread]] = 0
      BY <1>0, <2>1, <3>1 DEF FrameOK, HoldPcs
    <3>3. FrameOK(ClientThread)'
      BY <1>3, <2>1, <3>1, <3>2
    <3>4. ASSUME NEW u \in Threads, u # ClientThread PROVE FrameOK(u)'
      BY <1>0, <3>1, <3>4, FrameKept
    <3> QED BY <1>0, <1>00, <2>1, <3>1, <3>3, <3>4 DEF Handed
  <2>4. CASE ~OpenSocket /\ ~Connects
    <3>1. UNCHANGED <<wire, sfd, sent>> /\ \E l \in {"socket", "sleep", "off"} : Goto(ClientThread, l)
      BY <1>6, <2>4 DEF ClientStep, GotHost, SocketFails, ConnectFails, SessionReturned, BackOff
    <3> QED BY <1>00, <1>1, <1>4, <2>1, <3>1 DEF Handed
  <2> QED BY <2>2, <2>3, <2>4
<1>7. ASSUME NEW i \in Slots, SlotStep(i) PROVE WireInv'
  <2>1. i \in Threads /\ UNCHANGED <<wire, sfd, sent, srvFd, srvPc>>
        /\ \E l \in {"release", "exiting", "off"} : Goto(i, l)
    BY <1>7, ThreadFacts DEF SlotStep, ForgetFd, Release, Exit, srvVars
  <2> QED BY <1>00, <1>1, <1>4, <2>1 DEF Handed
<1>8. CASE PeerConnects \/ (StaChanges /\ UNCHANGED srvVars)
  BY <1>0, <1>00, <1>8 DEF PeerConnects, StaChanges, sessVars, srvVars, FrameOK, Handed
<1>9. ASSUME NEW f \in Fds, PeerCloses(f) \/ PeerResets(f), UNCHANGED srvVars PROVE WireInv'
  BY <1>0, <1>00, <1>9 DEF PeerCloses, PeerResets, srvVars, FrameOK, Handed
<1>10. ASSUME NEW t \in Threads, SessionStep(t), UNCHANGED srvVars PROVE WireInv'
  <2>1. (Handed => wire[srvFd] = 0)' /\ \A u \in Threads : FrameOK(u)'
    BY <1>10, WireSession
  <2> QED BY <1>00, <2>1
<1> QED BY <1>5, <1>6, <1>7, <1>8, <1>9, <1>10 DEF Next

-----------------------------------------------------------------------------
(* The LED, and all together.                                              *)
LEMMA ConnectingStep ==
  ASSUME PcInv, ClientTypes, ConnectingTruthful, ServerTypes, Next
  PROVE  ConnectingTruthful'
<1> USE ThreadFacts
<1>1. CASE ClientStep
  BY <1>1 DEF ClientStep, GotHost, SocketFails, OpenSocket, ConnectFails, Connects, SessionReturned, BackOff,
     Goto, PcInv, ConnectingTruthful, InSession, clientVars
<1>2. ASSUME NEW t \in Threads, SessionStep(t), UNCHANGED clientVars PROVE ConnectingTruthful'
  <2>1. PICK l \in SessPcs \cup {"returned"} : pc' = [pc EXCEPT ![t] = l]
    BY <1>2, SessionMoves DEF Goto
  <2>2. pc[t] \in SessPcs /\ l \notin {"socket", "connect", "sleep"}
    BY <1>2, SessionMoves DEF SessPcs, SinkPcs, CountedPcs, LitPcs
  <2>3. ClientEnabled => (pc'[ClientThread] \in SessPcs => pc[ClientThread] \in SessPcs)
          /\ (pc'[ClientThread] \in {"socket", "connect", "sleep"}
                => pc[ClientThread] \in {"socket", "connect", "sleep"})
    BY <2>1, <2>2 DEF PcInv
  <2>4. UNCHANGED connecting
    BY <1>2 DEF clientVars
  <2>5. InSession(ClientThread)' <=> pc'[ClientThread] \in SessPcs
    BY DEF InSession, SessPcs, SinkPcs, CountedPcs, LitPcs
  <2> QED BY <2>3, <2>4, <2>5, HoldsFdPcs DEF ConnectingTruthful
<1>3. ASSUME UNCHANGED clientVars, ClientEnabled => pc'[ClientThread] = pc[ClientThread]
      PROVE  ConnectingTruthful'
  BY <1>3 DEF clientVars, ConnectingTruthful, InSession
<1>4. CASE (ServerStep \/ PeerConnects) /\ UNCHANGED clientVars
  BY <1>3, <1>4 DEF ServerStep, Listen, Accept, Alloc, Reject, Spawn, Enter, PeerConnects, sessVars, Goto,
     PcInv, ServerTypes
<1>5. ASSUME NEW i \in Slots, SlotStep(i), UNCHANGED clientVars PROVE ConnectingTruthful'
  BY <1>3, <1>5 DEF SlotStep, ForgetFd, Release, Exit, Goto, PcInv
<1>6. CASE StaChanges
  BY <1>6 DEF StaChanges, sessVars, ConnectingTruthful, InSession
<1>7. ASSUME NEW f \in Fds, PeerCloses(f) \/ PeerResets(f), UNCHANGED clientVars PROVE ConnectingTruthful'
  BY <1>3, <1>7 DEF PeerCloses, PeerResets
<1> QED BY <1>1, <1>2, <1>4, <1>5, <1>6, <1>7 DEF Next

LEMMA TcpInvInit == Init => TcpInv
<1> SUFFICES ASSUME Init PROVE TcpInv
  OBVIOUS
<1> USE DEF Init, SessionInit, ServerInit, ClientInit
<1>1. Types
  BY FdsAssumption DEF Types
<1>2. ServerTypes
  BY SinksAssumption, BacklogAssumption DEF ServerTypes, Slots
<1>3. ClientTypes /\ ConnectingTruthful
  <2>1. ClientTypes
    <3>1. 1 \in 1..MaxBackoff
      BY BackoffAssumption
    <3> QED BY <3>1 DEF ClientTypes
  <2>2. ConnectingTruthful
    BY ThreadFacts DEF ConnectingTruthful, InSession
  <2> QED BY <2>1, <2>2
<1>4. PcInv
  BY ThreadFacts DEF PcInv, SlotPcs, ClientPcs
<1>5. "off" \notin HoldPcs /\ "off" \notin SinkPcs /\ "off" \notin CountedPcs /\ "off" \notin LitPcs
  BY DEF HoldPcs, SessPcs, SinkPcs, CountedPcs, LitPcs
<1>6. Holding = {} /\ At(SinkPcs) = {} /\ At(CountedPcs) = {} /\ At(LitPcs) = {}
  BY <1>5 DEF Holding, At
<1>7. FdInv
  BY <1>6 DEF FdInv, Handed
<1>8. CountInv
  BY <1>6, FS_EmptySet DEF CountInv
<1>9. WireInv
  BY <1>6, HoldsFdPcs, <1>5 DEF WireInv, WholeFrames, Handed, HoldPcs
<1> QED BY <1>1, <1>2, <1>3, <1>4, <1>7, <1>8, <1>9 DEF TcpInv

LEMMA TcpInvStep == TcpInv /\ [Next]_vars => TcpInv'
<1> SUFFICES ASSUME TcpInv, [Next]_vars PROVE TcpInv'
  OBVIOUS
<1>1. CASE Next
  BY <1>1, TypesStep, ServerTypesStep, ClientTypesStep, PcStep, FdStep, CountStep, WireStep, ConnectingStep
     DEF TcpInv
<1>2. CASE UNCHANGED vars
  <2>1. UNCHANGED <<sessVars, srvVars, clientVars>>
    BY <1>2 DEF vars
  <2>2. Types' /\ ServerTypes' /\ ClientTypes'
    BY <2>1 DEF TcpInv, Types, ServerTypes, ClientTypes, sessVars, srvVars, clientVars
  <2>3. PcInv' /\ FdInv' /\ CountInv'
    BY <2>1 DEF TcpInv, PcInv, FdInv, CountInv, At, Holding, Handed, sessVars, srvVars
  <2>4. WireInv' /\ ConnectingTruthful'
    BY <2>1 DEF TcpInv, WireInv, WholeFrames, ConnectingTruthful, InSession, At, Holding, Handed, sessVars,
       srvVars, clientVars
  <2> QED BY <2>2, <2>3, <2>4 DEF TcpInv
<1> QED BY <1>1, <1>2

LEMMA TcpInvariant == Spec => []TcpInv
  BY TcpInvInit, TcpInvStep, PTL DEF Spec

(* Types; the session counts are those of sets, hence never negative, and  *)
(* the sinks in use never exceed those there are.                          *)
THEOREM TcpTypeCorrect == Spec => []TypeOK
<1>1. TcpInv => TypeOK
  <2> SUFFICES ASSUME TcpInv PROVE TypeOK
    OBVIOUS
  <2>1. active_sessions \in Nat /\ led_sessions \in Nat /\ sinks \in Nat
    BY AtFinite DEF TcpInv, CountInv
  <2>2. sinks <= MaxSinks
    <3>1. At(SinkPcs) \subseteq Threads
      BY DEF At
    <3>2. Cardinality(At(SinkPcs)) <= Cardinality(Threads)
      BY <3>1, ThreadFacts, FS_Subset
    <3>3. Cardinality(Threads) \in Nat
      BY ThreadFacts, FS_CardinalityType
    <3> QED BY <2>1, <3>2, <3>3, ThreadFacts, SinksAssumption DEF TcpInv, CountInv
  <2>3. sinks \in 0..MaxSinks
    BY <2>1, <2>2, SinksAssumption
  <2>4. pc \in [Threads -> {"off", "open", "inc", "started", "drain", "take", "send", "ended", "dec",
                            "sinkclose", "close", "returned", "release", "exiting", "lost",
                            "socket", "connect", "sleep"}]
    BY DEF TcpInv, PcInv, SlotPcs, ClientPcs, HoldPcs, SessPcs, SinkPcs, CountedPcs, LitPcs
  <2> QED BY <2>1, <2>3, <2>4 DEF TcpInv, Types, ServerTypes, ClientTypes, TypeOK
<1> QED BY <1>1, TcpInvariant, PTL

(* No zsock_close hits a descriptor twice or one that tcp_nmea_session_run *)
(* of another thread uses, although descriptors are reused at once.        *)
THEOREM FdExclusiveCorrect == Spec => []FdExclusive
<1>1. TcpInv => FdExclusive
  <2> SUFFICES ASSUME TcpInv PROVE FdExclusive
    OBVIOUS
  <2>1. \A t \in Threads : HoldsFd(t) => t \in Holding
    BY HoldsFdPcs DEF Holding, At
  <2> QED BY <2>1 DEF TcpInv, FdInv, Handed, FdExclusive
<1> QED BY <1>1, TcpInvariant, PTL

(* Every descriptor the program has not closed is a session's, that of the *)
(* client between zsock_socket and the end of zsock_connect, the server    *)
(* thread's between zsock_accept and the hand-over, or was lost with its   *)
(* thread by k_thread_create.                                              *)
THEOREM NoFdLeakCorrect == Spec => []NoFdLeak
<1>1. TcpInv => NoFdLeak
  <2>1. \A t \in Holding : t \in Threads /\ HoldsFd(t)
    BY HoldsFdPcs DEF Holding, At
  <2> QED BY <2>1 DEF TcpInv, FdInv, Handed, NoFdLeak
<1> QED BY <1>1, TcpInvariant, PTL

(* tcp_nmea_session_run never finds the bridge without a free sink: the    *)
(* BUILD_ASSERT makes one for every thread, and each has at most one.      *)
THEOREM SinkAvailableCorrect == Spec => []SinkAvailable
<1>1. TcpInv => SinkAvailable
  <2> SUFFICES ASSUME TcpInv, NEW t \in Threads, pc[t] = "open" PROVE sinks < MaxSinks
    BY DEF SinkAvailable
  <2>1. At(SinkPcs) \subseteq Threads \ {t}
    BY DEF At, SinkPcs, CountedPcs, LitPcs
  <2>2. IsFiniteSet(Threads \ {t}) /\ Cardinality(Threads \ {t}) = Cardinality(Threads) - 1
    BY ThreadFacts, FS_RemoveElement
  <2>3. Cardinality(At(SinkPcs)) <= Cardinality(Threads) - 1
    BY <2>1, <2>2, FS_Subset
  <2>4. Cardinality(Threads) \in Nat /\ Cardinality(At(SinkPcs)) \in Nat
    BY AtFinite, ThreadFacts, FS_CardinalityType
  <2> QED BY <2>3, <2>4, ThreadFacts, SinksAssumption DEF TcpInv, CountInv
<1> QED BY <1>1, TcpInvariant, PTL

(* The order of tcp_nmea_session_run, sink before count before LED and     *)
(* back, keeps the counts nested whatever the interleaving.                *)
THEOREM CountsNestedCorrect == Spec => []CountsNested
<1>1. TcpInv => CountsNested
  <2>1. At(LitPcs) \subseteq At(CountedPcs) /\ At(CountedPcs) \subseteq At(SinkPcs)
    BY DEF At, SinkPcs, CountedPcs
  <2>2. /\ Cardinality(At(LitPcs)) <= Cardinality(At(CountedPcs))
        /\ Cardinality(At(CountedPcs)) <= Cardinality(At(SinkPcs))
    BY <2>1, AtFinite, FS_Subset
  <2> QED BY <2>2 DEF TcpInv, CountInv, CountsNested
<1> QED BY <1>1, TcpInvariant, PTL

(* send_all goes on where zsock_send stopped: at the end of a frame the    *)
(* peer has all of it, and a session starts on a socket without a rest.    *)
THEOREM WholeFramesCorrect == Spec => []WholeFrames
<1>1. TcpInv => WholeFrames
  BY DEF TcpInv, WireInv
<1> QED BY <1>1, TcpInvariant, PTL

(* client_thread tells the LED policy that it connects whenever it retries *)
(* and never while its session runs.                                       *)
THEOREM ConnectingCorrect == Spec => []ConnectingTruthful
<1>1. TcpInv => ConnectingTruthful
  BY DEF TcpInv
<1> QED BY <1>1, TcpInvariant, PTL
=============================================================================
