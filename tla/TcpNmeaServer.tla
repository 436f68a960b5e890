---------------------------- MODULE TcpNmeaServer ---------------------------
(***************************************************************************)
(* src/src/tcp_nmea_server.c: the listener and its slots.  Each slot has   *)
(* one thread object, which runs client_thread: the session, then          *)
(* close_client.                                                           *)
(***************************************************************************)
EXTENDS TcpNmeaSession

CONSTANTS Backlog,         \* the argument of zsock_listen
          ExitPreemptible  \* the server thread may run between the release
                           \* of a slot and the end of the slot's thread

ASSUME BacklogAssumption == Backlog \in Nat \ {0} /\ ExitPreemptible \in BOOLEAN

VARIABLES pending,        \* connections that wait to be accepted
          srvPc, srvFd, srvSlot,   \* server_thread and its locals
          active, fd      \* the fields of clients[i]

srvVars == <<pending, srvPc, srvFd, srvSlot, active, fd>>

ServerInit == /\ pending = 0
              /\ srvPc = "start" /\ srvFd = NoFd /\ srvSlot = 0
              /\ active = {}
              /\ fd = [i \in Slots |-> NoFd]

PeerConnects == /\ srvPc \notin {"start", "stopped"} /\ pending < Backlog
                /\ pending' = pending + 1
                /\ UNCHANGED <<sessVars, srvPc, srvFd, srvSlot, active, fd>>

-----------------------------------------------------------------------------
(* server_thread: socket, bind and listen, any of which may fail for good. *)
Listen == /\ srvPc = "start"
          /\ srvPc' \in {"accept", "stopped"}
          /\ UNCHANGED <<sessVars, pending, srvFd, srvSlot, active, fd>>

(* When zsock_accept fails, for want of a descriptor, it is tried again.   *)
Accept == /\ srvPc = "accept" /\ pending > 0
          /\ \E f \in Fds : OpenFd(f) /\ srvFd' = f
          /\ pending' = pending - 1
          /\ srvPc' = "alloc"
          /\ UNCHANGED <<pc, sfd, sent, sinks, active_sessions, led_sessions, srvSlot, active, fd>>

(* alloc_client: the first inactive slot, under clients_lock.              *)
Alloc == /\ srvPc = "alloc"
         /\ \E i \in Slots \ active :
              /\ \A j \in Slots \ active : i <= j
              /\ active' = active \cup {i}
              /\ fd' = [fd EXCEPT ![i] = NoFd]
              /\ srvSlot' = i
         /\ srvPc' = "spawn"
         /\ UNCHANGED <<sessVars, pending, srvFd>>

RejectLeaksFd == /\ srvPc = "alloc" /\ active = Slots
                 /\ srvPc' = "accept"
                 /\ UNCHANGED <<sessVars, pending, srvFd, srvSlot, active, fd>>
Reject == /\ srvPc = "alloc" /\ active = Slots
          /\ CloseFd(srvFd)
          /\ srvPc' = "accept"
          /\ UNCHANGED <<wire, pc, sfd, sent, sinks, active_sessions, led_sessions,
                         pending, srvFd, srvSlot, active, fd>>

(* k_thread_create.  On a thread object whose thread has not ended it puts *)
(* that thread into the ready queue twice: either the new thread runs, or  *)
(* it is lost.                                                             *)
Spawn == /\ srvPc = "spawn"
         /\ fd' = [fd EXCEPT ![srvSlot] = srvFd]
         /\ \/ Enter(srvSlot, srvFd)
            \/ pc[srvSlot] = "exiting" /\ Goto(srvSlot, "lost") /\ UNCHANGED sfd
         /\ srvPc' = "accept"
         /\ UNCHANGED <<sock, wire, sent, sinks, active_sessions, led_sessions,
                        pending, srvFd, srvSlot, active>>

ServerStep == Listen \/ Accept \/ Alloc \/ Reject \/ Spawn

-----------------------------------------------------------------------------
(* client_thread after the session: client->fd = -1 ...                    *)
ForgetNothing(i) ==
  /\ pc[i] = "returned" /\ Goto(i, "release")
  /\ UNCHANGED <<sock, wire, sfd, sent, sinks, active_sessions, led_sessions, srvVars>>
ForgetFd(i) ==
  /\ pc[i] = "returned" /\ Goto(i, "release")
  /\ fd' = [fd EXCEPT ![i] = NoFd]
  /\ UNCHANGED <<sock, wire, sfd, sent, sinks, active_sessions, led_sessions,
                 pending, srvPc, srvFd, srvSlot, active>>

(* ... and close_client, which closes the descriptor if there still is one *)
(* and makes the slot available.                                           *)
ReleaseForgotten(i) ==
  /\ pc[i] = "release" /\ Goto(i, "off")
  /\ UNCHANGED <<sock, wire, sfd, sent, sinks, active_sessions, led_sessions, srvVars>>
Release(i) ==
  /\ pc[i] = "release" /\ Goto(i, IF ExitPreemptible THEN "exiting" ELSE "off")
  /\ IF fd[i] = NoFd THEN UNCHANGED sock ELSE CloseFd(fd[i])
  /\ fd' = [fd EXCEPT ![i] = NoFd]
  /\ active' = active \ {i}
  /\ UNCHANGED <<wire, sfd, sent, sinks, active_sessions, led_sessions,
                 pending, srvPc, srvFd, srvSlot>>

(* The thread returns from client_thread and ends.                         *)
Exit(i) == /\ pc[i] = "exiting" /\ Goto(i, "off")
           /\ UNCHANGED <<sock, wire, sfd, sent, sinks, active_sessions, led_sessions, srvVars>>

SlotStep(i) == ForgetFd(i) \/ Release(i) \/ Exit(i)
=============================================================================
