---------------------------- MODULE MCUartBridge ----------------------------
(***************************************************************************)
(* Small instances of UartBridge for TLC: lines that fill the buffer, and  *)
(* one and two bytes more than it holds; two sessions for one slot.        *)
(***************************************************************************)
EXTENDS UartBridge

CONSTANTS s1, s2

TwoSessions == {s1, s2}
Around == FrameMaxLen..(FrameMaxLen + 2)
=============================================================================
