------------------------------ MODULE MCWebApp ------------------------------
(***************************************************************************)
(* A small instance of WebApp for TLC.                                     *)
(***************************************************************************)
EXTENDS WebApp

CONSTANTS c1, c2, c3

ThreeClients == {c1, c2, c3}

(* Every page, a path that is empty, two that are the beginning of the     *)
(* status path, one that goes beyond it, one that is nowhere, one that     *)
(* does not fit, and a request that is not a GET.                          *)
Line(path) == Get \o path \o <<"sp">>
SomeRequests ==
  {Line(assets[i].path) : i \in DOMAIN assets}
    \cup {Line(p) : p \in {StatusPath, <<>>, <<"/", "api">>, <<"/", "api", "/", "status", "/">>,
                           <<"/", "favicon">>, <<"/", "api", "/", "status", "/", "long">>}}
    \cup {<<"POS", "T+sp", "/", "sp">>}
=============================================================================
