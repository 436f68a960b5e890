------------------------------- MODULE WebApp -------------------------------
(***************************************************************************)
(* src/src/web_app.c: one thread that accepts a browser's connection,      *)
(* reads its request with a single zsock_recv, answers and closes, and     *)
(* only then turns to the next one.                                        *)
(*                                                                         *)
(* Text is a sequence of tokens, none of them the beginning of another, so *)
(* the string functions of the code are sequence operators here; "sp" is a *)
(* blank.  The network decides how much of a request has arrived when it   *)
(* is read, and how much of an answer a zsock_send takes.                  *)
(***************************************************************************)
EXTENDS Naturals, Sequences, SequencesExt, FiniteSets

CONSTANTS Clients,    \* browsers, one connection each at a time
          Requests,   \* what they send: sequences of tokens
          RxBufSize,  \* WEB_APP_RX_BUF_SIZE, in tokens
          Backlog,    \* the argument of zsock_listen
          PartLen     \* tokens of a header, and of a body

ASSUME WebAssumption == RxBufSize \in Nat \ {0} /\ Backlog \in Nat \ {0} /\ PartLen \in Nat \ {0}

VARIABLES webPc,     \* web_app_thread
          cur,       \* the connection it serves
          request,   \* request[], as zsock_recv filled it
          answer,    \* what handle_client decided to write
          sent,      \* sent_total of send_all
          conn,      \* the connections: "out", "open", "fin", "reset"
          queue,     \* the ones that wait to be accepted
          asked,     \* history: the whole request of the client served
          got,       \* history: what the client was sent
          failed     \* history: a zsock_send failed

netVars == <<conn, queue>>
vars == <<webPc, cur, request, answer, sent, netVars, asked, got, failed>>

Init == /\ webPc = "start" /\ cur \in Clients
        /\ request = <<>> /\ answer = "none" /\ sent = 0
        /\ conn = [c \in Clients |-> "out"] /\ queue = <<>>
        /\ asked = <<>> /\ got = <<>> /\ failed = FALSE

-----------------------------------------------------------------------------
(* The browsers: external.  A connection beyond the backlog is not taken.  *)

ClientConnects(c) == /\ webPc \notin {"start", "stopped"}
                     /\ conn[c] = "out" /\ Len(queue) < Backlog
                     /\ conn' = [conn EXCEPT ![c] = "open"]
                     /\ queue' = Append(queue, c)
                     /\ UNCHANGED <<webPc, cur, request, answer, sent, asked, got, failed>>

(* The browser closes its side, or its host breaks the connection.         *)
ClientLeaves(c) == /\ \/ conn[c] = "open" /\ conn' = [conn EXCEPT ![c] = "fin"]
                      \/ conn[c] \in {"open", "fin"} /\ conn' = [conn EXCEPT ![c] = "reset"]
                   /\ UNCHANGED <<webPc, cur, request, answer, sent, queue, asked, got, failed>>

-----------------------------------------------------------------------------
(* web_app_thread: socket, bind and listen, any of which may fail for      *)
(* good; then the loop.                                                    *)

Listen == /\ webPc = "start"
          /\ webPc' \in {"accept", "stopped"}
          /\ UNCHANGED <<cur, request, answer, sent, netVars, asked, got, failed>>

Accept == /\ webPc = "accept" /\ queue # <<>>
          /\ cur' = Head(queue) /\ queue' = Tail(queue)
          /\ webPc' = "recv"
          /\ UNCHANGED <<request, answer, sent, conn, asked, got, failed>>

(* zsock_accept fails (no descriptor, no memory): a second of sleep.       *)
AcceptFailsForGood == /\ webPc = "accept" /\ webPc' = "stopped"
                      /\ UNCHANGED <<cur, request, answer, sent, netVars, asked, got, failed>>
AcceptFails == /\ webPc = "accept" /\ webPc' = "asleep"
               /\ UNCHANGED <<cur, request, answer, sent, netVars, asked, got, failed>>

Retry == /\ webPc = "asleep" /\ webPc' = "accept"
         /\ UNCHANGED <<cur, request, answer, sent, netVars, asked, got, failed>>

-----------------------------------------------------------------------------
(* handle_client: what it makes of the text it has read.                   *)

Get == <<"GE", "T+sp">>
StatusPath == <<"/", "api", "/", "status">>
assets == << [path |-> <<"/">>,               page |-> "index.html"],
             [path |-> <<"/", "index.html">>, page |-> "index.html"],
             [path |-> <<"/", "app.js">>,     page |-> "app.js"],
             [path |-> <<"/", "style.css">>,  page |-> "style.css"] >>

(* strncmp(a, b, n) = 0 where n is the length of a, which has no end of    *)
(* string before n.                                                        *)
strncmpEqual(a, b) == IsPrefix(a, b)

find_asset(path) ==
  LET hits == {i \in DOMAIN assets : Len(assets[i].path) = Len(path)
                                       /\ strncmpEqual(path, assets[i].path)}
  IN  IF hits = {} THEN "none" ELSE assets[CHOOSE i \in hits : \A j \in hits : i <= j].page

Path(text) == LET rest == SubSeq(text, Len(Get) + 1, Len(text))
              IN  SubSeq(rest, 1, SelectInSeq(rest, LAMBDA x : x = "sp") - 1)

StatusByPrefix(path) == strncmpEqual(path, StatusPath)
IsStatus(path) == strncmpEqual(path, StatusPath) /\ Len(path) = Len(StatusPath)

Route(text) ==
  CASE ~IsPrefix(Get, text) -> "405"
    [] IsPrefix(Get, text) /\ ~Contains(SubSeq(text, Len(Get) + 1, Len(text)), "sp") -> "400"
    [] OTHER -> IF IsStatus(Path(text)) THEN "status"
                ELSE IF find_asset(Path(text)) # "none" THEN find_asset(Path(text))
                ELSE "404"

(* zsock_recv, once: as much of the request as has arrived and fits.       *)
FillsBuffer == RxBufSize
RoomForText == RxBufSize - 1

Recv == /\ webPc = "recv" /\ conn[cur] \in {"open", "fin"}
        /\ \E r \in Requests : \E n \in 1..Len(r) :
             /\ n <= RoomForText
             /\ asked' = r
             /\ request' = SubSeq(r, 1, n)
             /\ answer' = Route(SubSeq(r, 1, n))
        /\ sent' = 0
        /\ webPc' = "header"
        /\ UNCHANGED <<cur, netVars, got, failed>>

(* received <= 0: the client has closed without a request, or broken off.  *)
RecvNothing == /\ webPc = "recv" /\ conn[cur] \in {"fin", "reset"}
               /\ webPc' = "close"
               /\ UNCHANGED <<cur, request, answer, sent, netVars, asked, got, failed>>

-----------------------------------------------------------------------------
(* write_response_header and the body after it: send_all sends on from     *)
(* what was taken (EINTR changes nothing and is no step).                  *)

Part(p, a) == [i \in 1..PartLen |-> <<p, a, i>>]
After(p) == IF p = "header" THEN "body" ELSE "close"

SendOnce(p) == /\ webPc = p /\ conn[cur] # "reset"
               /\ \E n \in 1..(PartLen - sent) : got' = got \o SubSeq(Part(p, answer), sent + 1, sent + n)
               /\ webPc' = After(p) /\ sent' = 0
               /\ UNCHANGED <<cur, request, answer, netVars, asked, failed>>
Send(p) == /\ webPc = p /\ conn[cur] # "reset"
           /\ \E n \in 1..(PartLen - sent) :
                /\ got' = got \o SubSeq(Part(p, answer), sent + 1, sent + n)
                /\ IF sent + n < PartLen THEN sent' = sent + n /\ UNCHANGED webPc
                                         ELSE sent' = 0 /\ webPc' = After(p)
           /\ UNCHANGED <<cur, request, answer, netVars, asked, failed>>

(* An error ends send_all, and its result is not looked at: a header that  *)
(* failed for want of buffers is followed by the body all the same.        *)
SendFails(p) == /\ webPc = p
                /\ failed' = TRUE
                /\ webPc' = After(p) /\ sent' = 0
                /\ UNCHANGED <<cur, request, answer, netVars, asked, got>>

(* zsock_close, on every way out of handle_client; its locals are gone.    *)
Close == /\ webPc = "close"
         /\ conn' = [conn EXCEPT ![cur] = "out"]
         /\ webPc' = "accept"
         /\ request' = <<>> /\ answer' = "none"
         /\ asked' = <<>> /\ got' = <<>> /\ failed' = FALSE
         /\ UNCHANGED <<cur, sent, queue>>

Parts == {"header", "body"}
WebStep == \/ Listen \/ Accept \/ AcceptFails \/ Retry \/ Recv \/ RecvNothing \/ Close
           \/ \E p \in Parts : Send(p) \/ SendFails(p)

Next == WebStep \/ \E c \in Clients : ClientConnects(c) \/ ClientLeaves(c)

Spec == Init /\ [][Next]_vars

(* The thread goes on where the code alone decides.  Nothing is assumed of *)
(* a client: zsock_recv and zsock_send have no timeout and return when the *)
(* client sends, reads or leaves, if it ever does.  The network stack does *)
(* not refuse every zsock_accept forever: hence SF.                        *)
Proceeds == \/ Listen \/ Accept \/ Retry \/ RecvNothing \/ Close
            \/ conn[cur] = "reset" /\ \E p \in Parts : SendFails(p)

Fairness == WF_vars(Proceeds) /\ SF_vars(Accept)
FairSpec == Spec /\ Fairness

-----------------------------------------------------------------------------
(* Properties.                                                             *)

Answers == {"none", "status", "404", "405", "400"} \cup {assets[i].page : i \in DOMAIN assets}

(* Types; the text read leaves room for the '\0' that ends it, and a       *)
(* connection that is neither waiting nor served is closed.                *)
TypeOK == /\ webPc \in {"start", "stopped", "accept", "asleep", "recv", "close"} \cup Parts
          /\ cur \in Clients
          /\ Len(request) < RxBufSize
          /\ answer \in Answers /\ sent \in 0..(PartLen - 1)
          /\ conn \in [Clients -> {"out", "open", "fin", "reset"}]
          /\ Len(queue) <= Backlog
          /\ \A c \in Clients : conn[c] # "out" <=>
               \/ Contains(queue, c)
               \/ c = cur /\ webPc \in Parts \cup {"recv", "close"}

(* What the request line asks for, from the table of the pages.            *)
Pages == [path \in {StatusPath} \cup {assets[i].path : i \in DOMAIN assets} |->
            IF path = StatusPath THEN "status"
            ELSE (CHOOSE a \in {assets[i] : i \in DOMAIN assets} : a.path = path).page]
AsksFor(a, r) == \/ \E path \in DOMAIN Pages :
                      Pages[path] = a /\ IsPrefix(Get \o path \o <<"sp">>, r)
                 \/ a = "404" /\ IsPrefix(Get, r) /\ Contains(r, "sp")
                      /\ \A path \in DOMAIN Pages : ~IsPrefix(Get \o path \o <<"sp">>, r)
                 \/ a = "405" /\ ~IsPrefix(Get, r)

(* A client is answered what it asked for: never another page, and no page *)
(* for a longer or shorter path.  When its request line came in pieces, or *)
(* is too long for the buffer, it is told "400" or "405".                  *)
RightAnswer ==
  webPc \in Parts =>
    \/ AsksFor(answer, asked)
    \/ answer \in {"400", "405"} /\ ~Contains(request, "sp")

(* A client whose connection held got the whole of its answer, header and  *)
(* body in order: the number of bytes Content-Length announces.            *)
WholeResponse ==
  webPc = "close" /\ request # <<>> /\ ~failed =>
    got = Part("header", answer) \o Part("body", answer)

(* One client at a time: the one being served can keep the thread as long  *)
(* as it stays connected, in zsock_recv by sending nothing, in zsock_send  *)
(* by reading nothing.                                                     *)
HeldUp == \/ webPc = "recv" /\ conn[cur] = "open"
          \/ webPc \in Parts /\ conn[cur] # "reset"

(* Every client that has connected is served or closed, however often      *)
(* accept failed and however the clients before it broke off, unless one   *)
(* of those keeps the thread in zsock_recv or zsock_send for ever, which   *)
(* nothing in handle_client prevents.                                      *)
EveryoneServed == \A c \in Clients : Contains(queue, c) ~> (conn[c] = "out" \/ []HeldUp)
=============================================================================
