----------------------------- MODULE MCStatusLed ----------------------------
(***************************************************************************)
(* Small instances of StatusLed for TLC.                                   *)
(***************************************************************************)
EXTENDS StatusLed

CONSTANTS u1, s1

TheUart == {u1}
NoUart == {}
OneSession == {s1}
=============================================================================
