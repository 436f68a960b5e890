------------------------------- MODULE MCBoot -------------------------------
(***************************************************************************)
(* Small instances of Boot for TLC.                                        *)
(***************************************************************************)
EXTENDS Boot

TheWebServer == {"web"}
NoReaders == {}

Options == {"ap", "sta", "ssid", "rotate", "server", "client", "web", "cooperative"}
Built(off) == [o \in Options |-> o \notin off]

(* Station, server and client with each kind of event thread; station and  *)
(* access point; the access point alone, with no server for NMEA; both,    *)
(* without a network to join.                                              *)
FiveBuilds == {Built({"ap", "rotate"}), Built({"ap", "cooperative"}),
               Built({"rotate", "server", "client", "web", "cooperative"}),
               Built({"sta", "ssid", "rotate", "server"}), Built({"ssid"})}

(* The station alone, with the event thread that is the default.           *)
StationOnly == {Built({"ap", "rotate", "server", "client", "web"})}
StationAndWeb == {Built({"ap", "rotate", "server", "client"})}
=============================================================================
