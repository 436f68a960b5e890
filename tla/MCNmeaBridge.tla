---------------------------- MODULE MCNmeaBridge ----------------------------
(***************************************************************************)
(* A small instance of NmeaBridge for TLC.                                 *)
(***************************************************************************)
EXTENDS NmeaBridge

CONSTANTS s1, s2

TwoSessions == {s1, s2}

(* Empty, the longest length accepted, and one too long.                   *)
AllLens == {0, FrameMaxLen, FrameMaxLen + 1}
=============================================================================
