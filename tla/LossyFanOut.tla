---------------------------- MODULE LossyFanOut ----------------------------
(***************************************************************************)
(* What the NMEA bridge promises its sinks, without queues, locks, threads *)
(* or priorities.  Frames are numbered in the order they are accepted and  *)
(* may be lost on the way, but                                             *)
(*   - they are dispatched in order, none twice;                           *)
(*   - a sink is given only frames that were dispatched after it joined,   *)
(*     in order, none twice, whoever used its slot before.                 *)
(***************************************************************************)
EXTENDS Naturals

CONSTANT Sinks

VARIABLES published,   \* the number of the newest accepted frame
          dispatched,  \* the newest frame given to the sinks
          member,      \* the sinks that have joined
          last         \* per member: the newest frame it has or may not have

vars == <<published, dispatched, member, last>>

Init == /\ published = 0
        /\ dispatched = 0
        /\ member = {}
        /\ last = [s \in Sinks |-> 0]

Publish == /\ published' = published + 1
           /\ UNCHANGED <<dispatched, member, last>>

Dispatch == /\ dispatched' \in (dispatched + 1)..published
            /\ UNCHANGED <<published, member, last>>

Join(s) == /\ s \notin member
           /\ member' = member \cup {s}
           /\ last' = [last EXCEPT ![s] = dispatched]
           /\ UNCHANGED <<published, dispatched>>

Deliver(s) == /\ s \in member
              /\ \E f \in (last[s] + 1)..dispatched : last' = [last EXCEPT ![s] = f]
              /\ UNCHANGED <<published, dispatched, member>>

Leave(s) == /\ s \in member
            /\ member' = member \ {s}
            /\ UNCHANGED <<published, dispatched, last>>

Next == \/ Publish
        \/ Dispatch
        \/ \E s \in Sinks : Join(s) \/ Deliver(s) \/ Leave(s)

Spec == Init /\ [][Next]_vars
=============================================================================
