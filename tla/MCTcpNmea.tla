------------------------------ MODULE MCTcpNmea -----------------------------
(***************************************************************************)
(* Small instances of TcpNmea for TLC.                                     *)
(***************************************************************************)
EXTENDS TcpNmea

CONSTANTS f1, f2

TwoFds == {f1, f2}
=============================================================================
