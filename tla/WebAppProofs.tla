---------------------------- MODULE WebAppProofs ----------------------------
(***************************************************************************)
(* Proofs about WebApp, for every set of browsers, every set of requests,  *)
(* every size of the buffer and every length of an answer.                 *)
(***************************************************************************)
EXTENDS WebApp, SequenceTheorems, FiniteSetTheorems, NaturalsInduction, TLAPS

AtClient == Parts \cup {"recv", "close"}
Waiting == {queue[i] : i \in 1..Len(queue)}

Types ==
  /\ webPc \in {"start", "stopped", "accept", "asleep", "recv", "close"} \cup Parts
  /\ cur \in Clients /\ queue \in Seq(Clients) /\ Len(queue) <= Backlog
  /\ conn \in [Clients -> {"out", "open", "fin", "reset"}]
  /\ sent \in 0..(PartLen - 1) /\ (webPc \notin Parts => sent = 0)
  /\ failed \in BOOLEAN

(* A connection waits once, or is served, or is closed.                    *)
QueueInv ==
  /\ \A i, j \in 1..Len(queue) : queue[i] = queue[j] => i = j
  /\ webPc \in AtClient => cur \notin Waiting
  /\ \A c \in Clients : conn[c] # "out" <=> (c \in Waiting \/ (c = cur /\ webPc \in AtClient))

(* What the client was sent, as far as send_all has come, while no         *)
(* zsock_send failed; handle_client begins and ends with nothing sent.     *)
SentInv ==
  /\ webPc \notin Parts \cup {"close"} => request = <<>> /\ got = <<>> /\ failed = FALSE
  /\ webPc = "header" /\ failed = FALSE => got = SubSeq(Part("header", answer), 1, sent)
  /\ webPc = "body" /\ failed = FALSE =>
       got = Part("header", answer) \o SubSeq(Part("body", answer), 1, sent)
  /\ webPc = "close" /\ request # <<>> /\ failed = FALSE =>
       got = Part("header", answer) \o Part("body", answer)

-----------------------------------------------------------------------------
(* Parts of an answer, put together from the pieces zsock_send took.       *)

Cells(a) == Parts \X {a} \X Nat

LEMMA PartIsSeq ==
  ASSUME NEW p \in Parts, NEW a
  PROVE  Part(p, a) \in Seq(Cells(a)) /\ Len(Part(p, a)) = PartLen
<1>1. PartLen \in Nat
  BY WebAssumption
<1>2. \A i \in 1..PartLen : <<p, a, i>> \in Cells(a)
  BY DEF Cells
<1>3. Part(p, a) \in [1..PartLen -> Cells(a)]
  BY <1>2 DEF Part
<1> QED
  BY <1>1, <1>3

LEMMA PiecesJoin ==
  ASSUME NEW S, NEW b \in Seq(S), NEW k \in 0..Len(b), NEW n \in 0..(Len(b) - k)
  PROVE  SubSeq(b, 1, k) \o SubSeq(b, k + 1, k + n) = SubSeq(b, 1, k + n)
<1>1. Len(b) \in Nat
  BY LenProperties
<1>2. 1 \in 1..Len(b) + 1 /\ k \in 1 - 1..Len(b) /\ k + n \in k..Len(b)
  BY <1>1
<1> QED
  BY <1>2, ConcatAdjacentSubSeq

LEMMA PiecesAreSeqs ==
  ASSUME NEW S, NEW b \in Seq(S), NEW k \in 0..Len(b), NEW n \in 0..(Len(b) - k)
  PROVE  SubSeq(b, 1, k) \in Seq(S) /\ SubSeq(b, k + 1, k + n) \in Seq(S)
<1>1. Len(b) \in Nat
  BY LenProperties
<1>2. \A i \in 1..k : b[i] \in S
  BY <1>1, ElementOfSeq
<1>3. \A i \in k + 1..k + n : b[i] \in S
  BY <1>1, ElementOfSeq
<1> QED
  BY <1>2, <1>3, SubSeqProperties

LEMMA PiecesJoinAfter ==
  ASSUME NEW S, NEW h \in Seq(S), NEW b \in Seq(S),
         NEW k \in 0..Len(b), NEW n \in 0..(Len(b) - k)
  PROVE  (h \o SubSeq(b, 1, k)) \o SubSeq(b, k + 1, k + n) = h \o SubSeq(b, 1, k + n)
<1>1. SubSeq(b, 1, k) \in Seq(S) /\ SubSeq(b, k + 1, k + n) \in Seq(S)
  BY PiecesAreSeqs
<1>2. \A x, y \in Seq(S) : (h \o x) \o y = h \o (x \o y)
  BY ConcatAssociative, SMTT(30)
<1>3. SubSeq(b, 1, k) \o SubSeq(b, k + 1, k + n) = SubSeq(b, 1, k + n)
  BY PiecesJoin
<1> DEFINE x == SubSeq(b, 1, k)
           y == SubSeq(b, k + 1, k + n)
<1>4. x \in Seq(S) /\ y \in Seq(S)
  BY <1>1
<1> HIDE DEF x, y
<1>5. (h \o x) \o y = h \o (x \o y)
  BY <1>2, <1>4
<1> QED
  BY <1>3, <1>5 DEF x, y

(* A piece more of the header, and of the body behind it; no piece and the *)
(* whole of a part.                                                        *)
LEMMA HeaderGrows ==
  ASSUME NEW a, NEW k \in 0..PartLen, NEW n \in 0..(PartLen - k)
  PROVE  SubSeq(Part("header", a), 1, k) \o SubSeq(Part("header", a), k + 1, k + n)
           = SubSeq(Part("header", a), 1, k + n)
<1> DEFINE b == Part("header", a)
<1>1. b \in Seq(Cells(a)) /\ Len(b) = PartLen
  BY PartIsSeq DEF Parts
<1> HIDE DEF b
<1>2. SubSeq(b, 1, k) \o SubSeq(b, k + 1, k + n) = SubSeq(b, 1, k + n)
  BY <1>1, PiecesJoin
<1> QED
  BY <1>2 DEF b

LEMMA BodyGrows ==
  ASSUME NEW a, NEW k \in 0..PartLen, NEW n \in 0..(PartLen - k)
  PROVE  (Part("header", a) \o SubSeq(Part("body", a), 1, k)) \o SubSeq(Part("body", a), k + 1, k + n)
           = Part("header", a) \o SubSeq(Part("body", a), 1, k + n)
<1> DEFINE h == Part("header", a)
           b == Part("body", a)
<1>1. b \in Seq(Cells(a)) /\ Len(b) = PartLen /\ h \in Seq(Cells(a))
  BY PartIsSeq DEF Parts
<1> HIDE DEF h, b
<1>2. (h \o SubSeq(b, 1, k)) \o SubSeq(b, k + 1, k + n) = h \o SubSeq(b, 1, k + n)
  BY <1>1, PiecesJoinAfter
<1> QED
  BY <1>2 DEF h, b

LEMMA NoneAndWhole ==
  ASSUME NEW p \in Parts, NEW a
  PROVE  /\ SubSeq(Part(p, a), 1, 0) = <<>>
         /\ SubSeq(Part(p, a), 1, PartLen) = Part(p, a)
         /\ Part(p, a) \o <<>> = Part(p, a)
<1> DEFINE b == Part(p, a)
<1>1. b \in Seq(Cells(a)) /\ Len(b) = PartLen
  BY PartIsSeq
<1> HIDE DEF b
<1>2. SubSeq(b, 1, PartLen) = b
  BY <1>1, SubSeqFull
<1>3. SubSeq(b, 1, 0) = <<>>
  BY SubSeqEmpty
<1>4. b \o <<>> = b
  BY <1>1, ConcatEmptySeq
<1> QED
  BY <1>2, <1>3, <1>4 DEF b

-----------------------------------------------------------------------------
(* The initial state.                                                      *)
LEMMA WebInitially == Init => Types /\ QueueInv /\ SentInv
<1> SUFFICES ASSUME Init PROVE Types /\ QueueInv /\ SentInv
  OBVIOUS
<1>0. PartLen \in Nat /\ PartLen # 0 /\ Backlog \in Nat
  BY WebAssumption
<1>e. queue \in Seq(Clients) /\ Len(queue) = 0
  BY EmptySeq DEF Init
<1>s. 0 \in 0..(PartLen - 1) /\ Len(queue) <= Backlog
  BY <1>0, <1>e
<1>1. Types
  BY <1>s, <1>e DEF Init, Types, Parts
<1>2. QueueInv
  BY <1>e DEF Init, QueueInv, Waiting, AtClient, Parts
<1>3. SentInv
  BY DEF Init, SentInv, Parts
<1> QED
  BY <1>1, <1>2, <1>3

(* Types, action by action.                                                *)
LEMMA SendTypes ==
  ASSUME NEW p \in Parts, Types, Send(p) \/ SendFails(p) PROVE Types'
<1>0. PartLen \in Nat /\ PartLen # 0
  BY WebAssumption
<1>1. UNCHANGED <<cur, queue, conn>> /\ webPc' \in {p, After(p)}
  BY DEF Send, SendFails, netVars
<1>2. After(p) \in {"body", "close"} /\ p \in {"header", "body"}
  BY DEF After, Parts
<1>3. CASE SendFails(p)
  BY <1>0, <1>1, <1>2, <1>3 DEF SendFails, Types, Parts, After
<1>4. CASE Send(p)
  <2>1. PICK n \in 1..(PartLen - sent) :
             IF sent + n < PartLen THEN sent' = sent + n /\ UNCHANGED webPc
                                   ELSE sent' = 0 /\ webPc' = After(p)
    BY <1>4 DEF Send
  <2>2. sent' \in 0..(PartLen - 1) /\ (webPc' \notin Parts => sent' = 0)
    BY <1>0, <1>4, <2>1 DEF Types, Send
  <2>3. webPc' \in {"header", "body", "close"} /\ failed' \in BOOLEAN
    BY <1>1, <1>2, <1>4 DEF Send, Types
  <2> QED
    BY <1>1, <2>2, <2>3 DEF Types, Parts
<1> QED
  BY <1>3, <1>4

LEMMA WebTypes == Types /\ [Next]_vars => Types'
<1> SUFFICES ASSUME Types, [Next]_vars PROVE Types'
  OBVIOUS
<1>0. PartLen \in Nat /\ PartLen # 0 /\ Backlog \in Nat
  BY WebAssumption
<1> USE DEF Types, netVars, Parts
<1>a. ASSUME NEW c \in Clients, ClientConnects(c) PROVE Types'
  <2>1. queue' = Append(queue, c) /\ Len(queue) < Backlog
    BY <1>a DEF ClientConnects
  <2>2. queue' \in Seq(Clients) /\ Len(queue') = Len(queue) + 1 /\ Len(queue) \in Nat
    BY <2>1, AppendProperties, LenProperties
  <2>3. Len(queue') <= Backlog
    BY <1>0, <2>1, <2>2
  <2>4. /\ conn' = [conn EXCEPT ![c] = "open"]
        /\ UNCHANGED <<webPc, cur, sent, failed>>
    BY <1>a DEF ClientConnects
  <2> QED
    BY <2>2, <2>3, <2>4
<1>b. ASSUME NEW c \in Clients, ClientLeaves(c) PROVE Types'
  BY <1>b DEF ClientLeaves
<1>c. CASE Listen \/ AcceptFails \/ Retry
  BY <1>c DEF Listen, AcceptFails, Retry
<1>d. CASE Accept
  <2>1. Head(queue) \in Clients /\ Tail(queue) \in Seq(Clients) /\ Len(Tail(queue)) = Len(queue) - 1
    BY <1>d, HeadTailProperties DEF Accept
  <2>2. Len(queue) \in Nat
    BY LenProperties
  <2>3. Len(queue') <= Backlog
    BY <1>0, <1>d, <2>1, <2>2 DEF Accept
  <2> QED
    BY <1>d, <2>1, <2>3 DEF Accept
<1>e. CASE Recv
  BY <1>0, <1>e DEF Recv
<1>f. CASE RecvNothing
  BY <1>f DEF RecvNothing
<1>g. CASE Close
  BY <1>g DEF Close
<1>h. ASSUME NEW p \in Parts, Send(p) \/ SendFails(p) PROVE Types'
  BY <1>h, SendTypes
<1>i. CASE UNCHANGED vars
  BY <1>i DEF vars
<1> QED
  BY <1>a, <1>b, <1>c, <1>d, <1>e, <1>f, <1>g, <1>h, <1>i DEF Next, WebStep

(* Who waits: a step that leaves queue and conn alone and neither begins   *)
(* nor ends a service; a browser that connects; the thread that takes the  *)
(* first of the queue, and that closes.                                    *)
LEMMA QueueStays ==
  ASSUME Types, QueueInv, UNCHANGED <<cur, queue>>, webPc' \in AtClient <=> webPc \in AtClient,
         \A c \in Clients : conn'[c] = "out" <=> conn[c] = "out"
  PROVE  QueueInv'
<1>1. \A c : c \in Waiting' <=> c \in Waiting
  BY DEF Waiting
<1>2. \A i, j \in 1..Len(queue') : queue'[i] = queue'[j] => i = j
  BY DEF QueueInv
<1>3. webPc' \in AtClient => cur' \notin Waiting'
  BY <1>1 DEF QueueInv
<1>4. \A c \in Clients : conn'[c] # "out" <=> (c \in Waiting' \/ (c = cur' /\ webPc' \in AtClient))
  BY <1>1 DEF QueueInv
<1> QED
  BY <1>2, <1>3, <1>4 DEF QueueInv

LEMMA QueueConnects ==
  ASSUME Types, QueueInv, NEW c \in Clients, ClientConnects(c) PROVE QueueInv'
<1>0. Len(queue) \in Nat /\ conn \in [Clients -> {"out", "open", "fin", "reset"}]
  BY LenProperties DEF Types
<1>1. /\ Len(queue') = Len(queue) + 1 /\ queue'[Len(queue) + 1] = c
      /\ \A i \in 1..Len(queue) : queue'[i] = queue[i]
  BY AppendProperties DEF ClientConnects, Types
<1>2. c \notin Waiting /\ ~(c = cur /\ webPc \in AtClient)
  BY DEF QueueInv, ClientConnects
<1>3. \A d : d \in Waiting' <=> d \in Waiting \/ d = c
  BY <1>0, <1>1 DEF Waiting
<1>4. webPc' \in AtClient <=> webPc \in AtClient
  BY DEF ClientConnects, AtClient
<1>5. /\ conn' = [conn EXCEPT ![c] = "open"] /\ cur' = cur
  BY DEF ClientConnects
<1>6. \A i, j \in 1..Len(queue') : queue'[i] = queue'[j] => i = j
  BY <1>0, <1>1, <1>2 DEF QueueInv, Waiting
<1>7. webPc' \in AtClient => cur' \notin Waiting'
  BY <1>2, <1>3, <1>4, <1>5 DEF QueueInv
<1>8. \A d \in Clients : conn'[d] # "out" <=> (d \in Waiting' \/ (d = cur' /\ webPc' \in AtClient))
  BY <1>0, <1>3, <1>4, <1>5 DEF QueueInv
<1> QED
  BY <1>6, <1>7, <1>8 DEF QueueInv

LEMMA QueueAccepts == ASSUME Types, QueueInv, Accept PROVE QueueInv'
<1>0. queue \in Seq(Clients) /\ queue # <<>> /\ Len(queue) \in Nat \ {0}
  BY EmptySeq DEF Types, Accept
<1>1. /\ Len(queue') = Len(queue) - 1 /\ cur' = queue[1]
      /\ \A i \in 1..Len(queue') : queue'[i] = queue[i + 1]
  BY <1>0, HeadTailProperties DEF Accept
<1>2. webPc \notin AtClient /\ webPc' \in AtClient /\ conn' = conn
  BY DEF Accept, AtClient, Parts
<1>3. \A d : d \in Waiting <=> d \in Waiting' \/ d = cur'
  <2> TAKE d
  <2>1. ASSUME d \in Waiting PROVE d \in Waiting' \/ d = cur'
    <3>1. PICK i \in 1..Len(queue) : queue[i] = d
      BY <2>1 DEF Waiting
    <3>2. CASE i = 1
      BY <1>1, <3>1, <3>2
    <3>3. CASE i # 1
      <4>1. i - 1 \in 1..Len(queue') /\ queue'[i - 1] = d
        BY <1>0, <1>1, <3>1, <3>3
      <4> QED
        BY <4>1 DEF Waiting
    <3> QED
      BY <3>2, <3>3
  <2>2. ASSUME d \in Waiting' PROVE d \in Waiting
    <3>1. PICK i \in 1..Len(queue') : queue'[i] = d
      BY <2>2 DEF Waiting
    <3>2. i + 1 \in 1..Len(queue) /\ queue[i + 1] = d
      BY <1>0, <1>1, <3>1
    <3> QED
      BY <3>2 DEF Waiting
  <2>3. ASSUME d = cur' PROVE d \in Waiting
    BY <1>0, <1>1, <2>3 DEF Waiting
  <2> QED
    BY <2>1, <2>2, <2>3
<1>4. \A i, j \in 1..Len(queue') : queue'[i] = queue'[j] => i = j
  <2> SUFFICES ASSUME NEW i \in 1..Len(queue'), NEW j \in 1..Len(queue'), queue'[i] = queue'[j]
               PROVE  i = j
    OBVIOUS
  <2>1. i + 1 \in 1..Len(queue) /\ j + 1 \in 1..Len(queue) /\ queue[i + 1] = queue[j + 1]
    BY <1>0, <1>1
  <2>2. i + 1 = j + 1
    BY <2>1 DEF QueueInv
  <2> QED
    BY <1>0, <1>1, <2>2
<1>5. cur' \notin Waiting'
  <2> SUFFICES ASSUME NEW i \in 1..Len(queue'), queue'[i] = cur' PROVE FALSE
    BY DEF Waiting
  <2>1. i + 1 \in 1..Len(queue) /\ 1 \in 1..Len(queue) /\ queue[i + 1] = queue[1]
    BY <1>0, <1>1
  <2>2. i + 1 = 1
    BY <2>1 DEF QueueInv
  <2> QED
    BY <1>0, <1>1, <2>2
<1>6. \A d \in Clients : conn'[d] # "out" <=> (d \in Waiting' \/ (d = cur' /\ webPc' \in AtClient))
  BY <1>2, <1>3 DEF QueueInv
<1> QED
  BY <1>4, <1>5, <1>6 DEF QueueInv

LEMMA QueueCloses == ASSUME Types, QueueInv, Close PROVE QueueInv'
<1>1. /\ conn' = [conn EXCEPT ![cur] = "out"] /\ cur' = cur /\ queue' = queue
      /\ webPc \in AtClient /\ webPc' \notin AtClient
  BY DEF Close, AtClient, Parts
<1>2. \A c : c \in Waiting' <=> c \in Waiting
  BY <1>1 DEF Waiting
<1>3. conn \in [Clients -> {"out", "open", "fin", "reset"}]
  BY DEF Types
<1>4. \A c \in Clients : conn'[c] # "out" <=> (c \in Waiting' \/ (c = cur' /\ webPc' \in AtClient))
  BY <1>1, <1>2, <1>3 DEF QueueInv
<1> QED
  BY <1>1, <1>4 DEF QueueInv

LEMMA WebQueue == Types /\ QueueInv /\ [Next]_vars => QueueInv'
<1> SUFFICES ASSUME Types, QueueInv, [Next]_vars PROVE QueueInv'
  OBVIOUS
<1> USE DEF netVars, Parts
<1>a. ASSUME NEW c \in Clients, ClientConnects(c) PROVE QueueInv'
  BY <1>a, QueueConnects
<1>b. ASSUME NEW c \in Clients, ClientLeaves(c) PROVE QueueInv'
  <2>1. \A d \in Clients : conn'[d] = "out" <=> conn[d] = "out"
    BY <1>b DEF ClientLeaves, Types
  <2>2. UNCHANGED <<cur, queue, webPc>>
    BY <1>b DEF ClientLeaves
  <2>3. webPc' \in AtClient <=> webPc \in AtClient
    BY <2>2 DEF AtClient
  <2> QED
    BY <2>1, <2>2, <2>3, QueueStays
<1>c. CASE Listen \/ AcceptFails \/ Retry
  <2>1. UNCHANGED <<cur, queue, conn>> /\ webPc \notin AtClient /\ webPc' \notin AtClient
    BY <1>c DEF Listen, AcceptFails, Retry, AtClient
  <2> QED
    BY <2>1, QueueStays
<1>d. CASE Accept
  BY <1>d, QueueAccepts
<1>e. CASE Recv \/ RecvNothing
  <2>1. UNCHANGED <<cur, queue, conn>> /\ webPc \in AtClient /\ webPc' \in AtClient
    BY <1>e DEF Recv, RecvNothing, AtClient
  <2> QED
    BY <2>1, QueueStays
<1>f. CASE Close
  BY <1>f, QueueCloses
<1>g. ASSUME NEW p \in Parts, Send(p) \/ SendFails(p) PROVE QueueInv'
  <2>1. UNCHANGED <<cur, queue, conn>> /\ webPc \in AtClient /\ webPc' \in AtClient
    BY <1>g DEF Send, SendFails, After, AtClient
  <2> QED
    BY <2>1, QueueStays
<1>h. CASE UNCHANGED vars
  <2>1. UNCHANGED <<cur, queue, conn, webPc>>
    BY <1>h DEF vars
  <2> QED
    BY <2>1, QueueStays DEF AtClient
<1> QED
  BY <1>a, <1>b, <1>c, <1>d, <1>e, <1>f, <1>g, <1>h DEF Next, WebStep

-----------------------------------------------------------------------------
(* What was sent.                                                          *)
LEMMA SentSends ==
  ASSUME NEW p \in Parts, Types, SentInv, Send(p) \/ SendFails(p) PROVE SentInv'
<1>0. PartLen \in Nat /\ sent \in 0..(PartLen - 1) /\ p \in {"header", "body"}
  BY WebAssumption DEF Types, Parts
<1>1. CASE SendFails(p)
  BY <1>0, <1>1 DEF SendFails, SentInv, After, Parts
<1>2. CASE Send(p)
  <2>1. PICK n \in 1..(PartLen - sent) :
          /\ got' = got \o SubSeq(Part(p, answer), sent + 1, sent + n)
          /\ IF sent + n < PartLen THEN sent' = sent + n /\ UNCHANGED webPc
                                   ELSE sent' = 0 /\ webPc' = After(p)
    BY <1>2 DEF Send
  <2>2. UNCHANGED <<answer, failed, request>> /\ webPc = p
    BY <1>2 DEF Send
  <2>3. sent \in 0..PartLen /\ n \in 0..(PartLen - sent)
    BY <1>0
  <2> DEFINE h == Part("header", answer)
             b == Part("body", answer)
  <2>4. SubSeq(h, 1, PartLen) = h /\ SubSeq(b, 1, PartLen) = b /\ h \o <<>> = h
        /\ SubSeq(b, 1, 0) = <<>>
    BY NoneAndWhole DEF Parts
  <2>5. CASE p = "header" /\ failed = FALSE
    <3>1. got' = SubSeq(h, 1, sent + n)
      <4>1. got = SubSeq(h, 1, sent)
        BY <2>2, <2>5 DEF SentInv
      <4>2. got' = got \o SubSeq(h, sent + 1, sent + n)
        BY <2>1, <2>5
      <4>3. SubSeq(h, 1, sent) \o SubSeq(h, sent + 1, sent + n) = SubSeq(h, 1, sent + n)
        BY <2>3, HeaderGrows
      <4> HIDE DEF h, b
      <4> QED
        BY <4>1, <4>2, <4>3
    <3>2. CASE sent + n < PartLen
      BY <2>1, <2>2, <2>5, <3>1, <3>2 DEF SentInv, Parts
    <3>3. CASE ~(sent + n < PartLen)
      <4>1. sent + n = PartLen
        BY <1>0, <3>3
      <4>2. sent' = 0 /\ webPc' = "body"
        BY <2>1, <2>5, <3>3 DEF After
      <4>3. got' = h \o SubSeq(b, 1, 0)
        BY <2>4, <3>1, <4>1
      <4> QED
        BY <2>2, <4>2, <4>3 DEF SentInv, Parts
    <3> QED
      BY <3>2, <3>3
  <2>6. CASE p = "body" /\ failed = FALSE
    <3>1. got' = h \o SubSeq(b, 1, sent + n)
      <4>1. got = h \o SubSeq(b, 1, sent)
        BY <2>2, <2>6 DEF SentInv
      <4>2. got' = got \o SubSeq(b, sent + 1, sent + n)
        BY <2>1, <2>6
      <4>3. (h \o SubSeq(b, 1, sent)) \o SubSeq(b, sent + 1, sent + n) = h \o SubSeq(b, 1, sent + n)
        BY <2>3, BodyGrows
      <4> HIDE DEF h, b
      <4> QED
        BY <4>1, <4>2, <4>3
    <3>2. CASE sent + n < PartLen
      BY <2>1, <2>2, <2>6, <3>1, <3>2 DEF SentInv, Parts
    <3>3. CASE ~(sent + n < PartLen)
      <4>1. sent + n = PartLen
        BY <1>0, <3>3
      <4>2. webPc' = "close"
        BY <2>1, <2>6, <3>3 DEF After
      <4>3. got' = h \o b
        BY <2>4, <3>1, <4>1
      <4> QED
        BY <2>2, <4>2, <4>3 DEF SentInv, Parts
    <3> QED
      BY <3>2, <3>3
  <2>7. CASE failed # FALSE
    <3>1. failed' # FALSE /\ webPc' \in {"header", "body", "close"}
      BY <1>0, <2>1, <2>2, <2>7 DEF After
    <3> QED
      BY <3>1 DEF SentInv, Parts
  <2> QED
    BY <1>0, <2>5, <2>6, <2>7
<1> QED
  BY <1>1, <1>2

LEMMA WebSent == Types /\ SentInv /\ [Next]_vars => SentInv'
<1> SUFFICES ASSUME Types, SentInv, [Next]_vars PROVE SentInv'
  OBVIOUS
<1> USE DEF netVars, Parts
<1>a. ASSUME NEW c \in Clients, ClientConnects(c) \/ ClientLeaves(c) PROVE SentInv'
  BY <1>a DEF ClientConnects, ClientLeaves, SentInv
<1>b. CASE Listen \/ Accept \/ AcceptFails \/ Retry
  BY <1>b DEF Listen, Accept, AcceptFails, Retry, SentInv
<1>c. CASE Recv
  <2>1. /\ webPc = "recv" /\ webPc' = "header" /\ sent' = 0 /\ UNCHANGED <<got, failed>>
    BY <1>c DEF Recv
  <2>2. got' = SubSeq(Part("header", answer'), 1, 0)
    BY <2>1, NoneAndWhole DEF SentInv
  <2> QED
    BY <2>1, <2>2 DEF SentInv
<1>d. CASE RecvNothing
  BY <1>d DEF RecvNothing, SentInv
<1>e. CASE Close
  BY <1>e DEF Close, SentInv
<1>f. ASSUME NEW p \in Parts, Send(p) \/ SendFails(p) PROVE SentInv'
  BY <1>f, SentSends
<1>g. CASE UNCHANGED vars
  BY <1>g DEF vars, SentInv
<1> QED
  BY <1>a, <1>b, <1>c, <1>d, <1>e, <1>f, <1>g DEF Next, WebStep

LEMMA WebCorrect == Spec => [](Types /\ QueueInv /\ SentInv)
BY WebInitially, WebTypes, WebQueue, WebSent, PTL DEF Spec

(* send_all and write_response_header put an answer together from whatever *)
(* zsock_send takes: while none failed, the browser has all of it when     *)
(* handle_client comes to close, in order and nothing twice.               *)
THEOREM WholeResponseCorrect == Spec => []WholeResponse
<1>1. Types /\ SentInv => WholeResponse
  BY DEF Types, SentInv, WholeResponse
<1> QED
  BY <1>1, WebCorrect, PTL

-----------------------------------------------------------------------------
(* Text: what strncmp and strchr find.                                     *)

LEMMA Least ==
  ASSUME NEW T \in SUBSET Nat, NEW n \in T
  PROVE  \E m \in T : \A k \in T : m <= k
<1> DEFINE R == OpToRel(<, Nat)
<1>1. IsWellFoundedOn(R, Nat)
  BY NatLessThanWellFounded
<1>2. \A x, y \in Nat : <<x, y>> \in R <=> x < y
  BY DEF OpToRel
<1> HIDE DEF R
<1>3. PICK x \in T : \A y \in T : ~(<<y, x>> \in R)
  BY <1>1, WFMin
<1>4. \A y \in T : x <= y
  <2> TAKE y \in T
  <2>1. x \in Nat /\ y \in Nat /\ ~(y < x)
    BY <1>2, <1>3
  <2> QED
    BY <2>1
<1> QED
  BY <1>4

LEMMA PrefixIs ==
  ASSUME NEW S, NEW s \in Seq(S), NEW t \in Seq(S)
  PROVE  IsPrefix(s, t) <=> Len(s) <= Len(t) /\ \A i \in 1..Len(s) : s[i] = t[i]
<1>0. Len(s) \in Nat /\ Len(t) \in Nat
  BY LenProperties
<1>1. SubSeq(s, 1, Len(s)) = s
  BY SubSeqFull
<1>2. CASE Len(s) <= Len(t)
  <2> DEFINE u == SubSeq(t, 1, Len(s))
  <2>1. \A i \in 1..Len(s) : t[i] \in S
    BY <1>0, <1>2, ElementOfSeq
  <2>2. u \in Seq(S) /\ Len(u) = Len(s) /\ \A i \in 1..Len(s) : u[i] = t[i]
    BY <1>0, <2>1, SubSeqProperties
  <2> HIDE DEF u
  <2>3. s = u <=> \A i \in 1..Len(s) : s[i] = t[i]
    <3>1. ASSUME \A i \in 1..Len(s) : s[i] = t[i] PROVE s = u
      BY <2>2, <3>1, SeqEqual
    <3> QED
      BY <2>2, <3>1
  <2> QED
    BY <1>1, <1>2, <2>3 DEF IsPrefix, u
<1>3. CASE ~(Len(s) <= Len(t))
  BY <1>3 DEF IsPrefix
<1> QED
  BY <1>2, <1>3

(* The first position of e.                                                *)
FirstOf(s, e) == SelectInSeq(s, LAMBDA x : x = e)

LEMMA SelectIs ==
  ASSUME NEW s, NEW e, Len(s) \in Nat, Contains(s, e)
  PROVE  /\ FirstOf(s, e) \in 1..Len(s)
         /\ s[FirstOf(s, e)] = e
         /\ \A i \in 1..(FirstOf(s, e) - 1) : s[i] # e
<1> DEFINE I == {i \in 1..Len(s) : s[i] = e}
           k == FirstOf(s, e)
<1>0. \E i \in 1..Len(s) : s[i] = e
  BY DEF Contains
<1>1. I # {} /\ I \in SUBSET Nat
  BY <1>0
<1>2. k = Min(I)
  BY <1>1 DEF FirstOf, SelectInSeq
<1>3. \A i \in 1..Len(s) : i \in I <=> s[i] = e
  OBVIOUS
<1>4. I \subseteq 1..Len(s)
  OBVIOUS
<1> HIDE DEF I, k
<1>5. \E m \in I : \A i \in I : m <= i
  BY <1>1, Least
<1>6. k \in I /\ \A i \in I : k <= i
  BY <1>2, <1>5 DEF Min
<1>7. k \in 1..Len(s) /\ s[k] = e
  BY <1>3, <1>4, <1>6
<1>8. \A i \in 1..(k - 1) : s[i] # e
  <2> SUFFICES ASSUME NEW i \in 1..(k - 1), s[i] = e PROVE FALSE
    OBVIOUS
  <2>1. i \in 1..Len(s) /\ i < k /\ k \in Nat /\ i \in Nat
    BY <1>7
  <2>2. i \in I
    BY <1>3, <2>1
  <2>3. k <= i
    BY <1>6, <2>2
  <2> QED
    BY <2>1, <2>3
<1> QED
  BY <1>7, <1>8 DEF k

(* The tokens handle_client knows.                                         *)
Symbols == {"GE", "T+sp", "sp", "/", "api", "status", "index.html", "app.js", "style.css"}

LEMMA GetIs ==
  ASSUME NEW S, Symbols \subseteq S
  PROVE  Get \in Seq(S) /\ Len(Get) = 2 /\ Get[1] = "GE" /\ Get[2] = "T+sp"
BY DEF Get, Symbols

LEMMA StartsGet ==
  ASSUME NEW S, Symbols \subseteq S, NEW t \in Seq(S)
  PROVE  IsPrefix(Get, t) <=> Len(t) >= 2 /\ t[1] = "GE" /\ t[2] = "T+sp"
<1>0. Len(t) \in Nat
  BY LenProperties
<1>1. Get \in Seq(S) /\ Len(Get) = 2 /\ Get[1] = "GE" /\ Get[2] = "T+sp"
  BY GetIs
<1>2. IsPrefix(Get, t) <=> Len(Get) <= Len(t) /\ \A i \in 1..Len(Get) : Get[i] = t[i]
  <2>1. \A s \in Seq(S) : IsPrefix(s, t) <=> Len(s) <= Len(t) /\ \A i \in 1..Len(s) : s[i] = t[i]
    BY PrefixIs
  <2> QED
    BY <1>1, <2>1
<1>3. (\A i \in 1..2 : Get[i] = t[i]) <=> t[1] = "GE" /\ t[2] = "T+sp"
  BY <1>1
<1> QED
  BY <1>0, <1>1, <1>2, <1>3

(* A request line: the method, a path and a blank.                         *)
LEMMA LineIs ==
  ASSUME NEW S, Symbols \subseteq S, NEW q \in Seq(S), NEW r \in Seq(S)
  PROVE  IsPrefix(Get \o q \o <<"sp">>, r) <=>
           /\ Len(q) + 3 <= Len(r) /\ r[1] = "GE" /\ r[2] = "T+sp" /\ r[Len(q) + 3] = "sp"
           /\ \A i \in 1..Len(q) : r[i + 2] = q[i]
<1> DEFINE g == Get \o q
           x == <<"sp">>
           l == g \o x
<1>0. Len(q) \in Nat /\ Len(r) \in Nat
  BY LenProperties
<1>1. Get \in Seq(S) /\ Len(Get) = 2 /\ Get[1] = "GE" /\ Get[2] = "T+sp"
  BY GetIs
<1>2. x \in Seq(S) /\ Len(x) = 1 /\ x[1] = "sp"
  BY DEF Symbols
<1>3. /\ g \in Seq(S) /\ Len(g) = Len(Get) + Len(q)
      /\ \A i \in 1..Len(Get) + Len(q) : g[i] = IF i <= Len(Get) THEN Get[i] ELSE q[i - Len(Get)]
  BY <1>1, ConcatProperties
<1> HIDE DEF g, x
<1>4. /\ l \in Seq(S) /\ Len(l) = Len(g) + Len(x)
      /\ \A i \in 1..Len(g) + Len(x) : l[i] = IF i <= Len(g) THEN g[i] ELSE x[i - Len(g)]
  <2>1. \A y \in Seq(S) : \A z \in Seq(S) :
          /\ y \o z \in Seq(S) /\ Len(y \o z) = Len(y) + Len(z)
          /\ \A i \in 1..Len(y) + Len(z) : (y \o z)[i] = IF i <= Len(y) THEN y[i] ELSE z[i - Len(y)]
    BY ConcatProperties
  <2> QED
    BY <1>2, <1>3, <2>1
<1> HIDE DEF l
<1>5. Len(l) = Len(q) + 3
  BY <1>0, <1>1, <1>2, <1>3, <1>4
<1>6. l[1] = "GE" /\ l[2] = "T+sp" /\ l[Len(q) + 3] = "sp"
  <2>1. g[1] = "GE" /\ g[2] = "T+sp" /\ Len(g) = Len(q) + 2
    BY <1>0, <1>1, <1>3
  <2>2. l[1] = g[1] /\ l[2] = g[2]
    BY <1>0, <1>2, <1>4, <2>1
  <2>3. l[Len(q) + 3] = x[1]
    BY <1>0, <1>2, <1>4, <2>1, SMTT(30)
  <2> QED
    BY <1>2, <2>1, <2>2, <2>3
<1>7. \A i \in 1..Len(q) : l[i + 2] = q[i]
  <2> TAKE i \in 1..Len(q)
  <2>1. i + 2 \in 1..Len(g) /\ ~(i + 2 <= 2) /\ i + 2 - 2 = i /\ Len(g) = Len(q) + 2
    BY <1>0, <1>1, <1>3
  <2>2. g[i + 2] = q[i]
    BY <1>1, <1>3, <2>1
  <2>3. l[i + 2] = g[i + 2]
    BY <1>0, <1>2, <1>4, <2>1
  <2> QED
    BY <2>2, <2>3
<1>8. IsPrefix(l, r) <=> Len(l) <= Len(r) /\ \A i \in 1..Len(l) : l[i] = r[i]
  BY <1>4, PrefixIs
<1>9. (\A i \in 1..Len(l) : l[i] = r[i]) <=>
         /\ r[1] = "GE" /\ r[2] = "T+sp" /\ r[Len(q) + 3] = "sp"
         /\ \A i \in 1..Len(q) : r[i + 2] = q[i]
  <2>1. ASSUME \A i \in 1..Len(l) : l[i] = r[i]
        PROVE  /\ r[1] = "GE" /\ r[2] = "T+sp" /\ r[Len(q) + 3] = "sp"
               /\ \A i \in 1..Len(q) : r[i + 2] = q[i]
    <3>1. 1 \in 1..Len(l) /\ 2 \in 1..Len(l) /\ Len(q) + 3 \in 1..Len(l)
      BY <1>0, <1>5
    <3>2. \A i \in 1..Len(q) : i + 2 \in 1..Len(l)
      BY <1>0, <1>5
    <3> QED
      BY <1>6, <1>7, <2>1, <3>1, <3>2
  <2>2. ASSUME r[1] = "GE", r[2] = "T+sp", r[Len(q) + 3] = "sp",
               \A i \in 1..Len(q) : r[i + 2] = q[i],
               NEW i \in 1..Len(l)
        PROVE  l[i] = r[i]
    <3>1. CASE i = 1 \/ i = 2 \/ i = Len(q) + 3
      BY <1>6, <2>2, <3>1
    <3>2. CASE ~(i = 1 \/ i = 2 \/ i = Len(q) + 3)
      <4>1. i - 2 \in 1..Len(q) /\ i - 2 + 2 = i
        BY <1>0, <1>5, <3>2
      <4> QED
        BY <1>7, <2>2, <4>1
    <3> QED
      BY <3>1, <3>2
  <2> QED
    BY <2>1, <2>2
<1>10. IsPrefix(l, r) <=>
           /\ Len(q) + 3 <= Len(r) /\ r[1] = "GE" /\ r[2] = "T+sp" /\ r[Len(q) + 3] = "sp"
           /\ \A i \in 1..Len(q) : r[i + 2] = q[i]
  BY <1>5, <1>8, <1>9
<1> QED
  BY <1>10 DEF l, g, x

(* What follows the method, and the path in it: up to the first blank.     *)
Rest(text) == SubSeq(text, Len(Get) + 1, Len(text))

LEMMA RestIs ==
  ASSUME NEW S, Symbols \subseteq S, NEW t \in Seq(S), Len(t) >= 2
  PROVE  /\ Rest(t) \in Seq(S) /\ Len(Rest(t)) = Len(t) - 2
         /\ \A i \in 1..(Len(t) - 2) : Rest(t)[i] = t[i + 2]
<1>0. Len(t) \in Nat
  BY LenProperties
<1>1. Rest(t) = SubSeq(t, 3, Len(t))
  <2>1. Len(Get) = 2
    BY GetIs
  <2>2. Len(Get) + 1 = 3
    BY <2>1
  <2> QED
    BY <2>2 DEF Rest
<1>2. \A i \in 3..Len(t) : t[i] \in S
  BY <1>0, ElementOfSeq
<1> DEFINE u == SubSeq(t, 3, Len(t))
<1>3. /\ u \in Seq(S) /\ Len(u) = IF 3 <= Len(t) THEN Len(t) - 3 + 1 ELSE 0
      /\ \A i \in 1..(Len(t) - 3 + 1) : u[i] = t[3 + i - 1]
  BY <1>0, <1>2, SubSeqProperties
<1> HIDE DEF u
<1>4. \A i \in 1..(Len(t) - 2) : u[i] = t[i + 2]
  <2> TAKE i \in 1..(Len(t) - 2)
  <2>1. i \in 1..(Len(t) - 3 + 1) /\ 3 + i - 1 = i + 2
    BY <1>0
  <2> QED
    BY <1>3, <2>1
<1>5. Len(u) = Len(t) - 2
  <2>1. CASE Len(t) = 2
    BY <1>3, <2>1
  <2>2. CASE Len(t) # 2
    <3>0. \A n \in Nat : n >= 2 /\ n # 2 => 3 <= n
      OBVIOUS
    <3>1. 3 <= Len(t)
      BY <1>0, <2>2, <3>0
    <3>2. Len(u) = Len(t) - 3 + 1
      BY <1>3, <3>1
    <3> QED
      BY <1>0, <3>2
  <2> QED
    BY <2>1, <2>2
<1> QED
  BY <1>1, <1>3, <1>4, <1>5 DEF u

LEMMA PathIs ==
  ASSUME NEW S, Symbols \subseteq S, NEW t \in Seq(S), Len(t) >= 2, Contains(Rest(t), "sp")
  PROVE  /\ Path(t) \in Seq(S) /\ Len(Path(t)) + 3 <= Len(t)
         /\ \A i \in 1..Len(Path(t)) : Path(t)[i] = t[i + 2] /\ Path(t)[i] # "sp"
         /\ t[Len(Path(t)) + 3] = "sp"
<1> DEFINE u == Rest(t)
           k == FirstOf(u, "sp")
           q == SubSeq(u, 1, k - 1)
<1>0. Len(t) \in Nat
  BY LenProperties
<1>1. /\ u \in Seq(S) /\ Len(u) = Len(t) - 2 /\ Len(u) \in Nat
      /\ \A i \in 1..(Len(t) - 2) : u[i] = t[i + 2]
  BY <1>0, RestIs
<1>2. Path(t) = q
  BY DEF Path, Rest, FirstOf
<1>3. Contains(u, "sp")
  OBVIOUS
<1> HIDE DEF u
<1>4. k \in 1..Len(u) /\ u[k] = "sp" /\ \A i \in 1..(k - 1) : u[i] # "sp"
  BY <1>1, <1>3, SelectIs
<1> HIDE DEF k
<1>5. k \in Nat /\ k >= 1 /\ k <= Len(t) - 2
  BY <1>0, <1>1, <1>4
<1>6. \A i \in 1..(k - 1) : u[i] \in S
  BY <1>1, <1>4, ElementOfSeq
<1>7. /\ q \in Seq(S) /\ Len(q) = IF 1 <= k - 1 THEN k - 1 - 1 + 1 ELSE 0
      /\ \A i \in 1..(k - 1 - 1 + 1) : q[i] = u[1 + i - 1]
  BY <1>5, <1>6, SubSeqProperties
<1> HIDE DEF q
<1>8. Len(q) = k - 1
  BY <1>5, <1>7
<1>9. \A i \in 1..Len(q) : q[i] = t[i + 2] /\ q[i] # "sp"
  <2> TAKE i \in 1..Len(q)
  <2>1. i \in 1..(k - 1 - 1 + 1) /\ 1 + i - 1 = i /\ i \in 1..(k - 1) /\ i \in 1..(Len(t) - 2)
    BY <1>0, <1>5, <1>8
  <2> QED
    BY <1>1, <1>4, <1>7, <2>1
<1>10. t[Len(q) + 3] = "sp" /\ Len(q) + 3 <= Len(t)
  <2>1. k \in 1..(Len(t) - 2) /\ Len(q) + 3 = k + 2
    BY <1>0, <1>5, <1>8
  <2> QED
    BY <1>0, <1>1, <1>4, <1>5, <2>1
<1> QED
  BY <1>2, <1>7, <1>9, <1>10

-----------------------------------------------------------------------------
(* The table of the pages.                                                 *)

LEMMA SamePath ==
  ASSUME NEW S, NEW p \in Seq(S), NEW q \in Seq(S)
  PROVE  IsPrefix(p, q) /\ Len(q) = Len(p) <=> p = q
<1>1. IsPrefix(p, q) <=> Len(p) <= Len(q) /\ \A i \in 1..Len(p) : p[i] = q[i]
  BY PrefixIs
<1>2. Len(p) \in Nat /\ Len(q) \in Nat
  BY LenProperties
<1>3. ASSUME Len(q) = Len(p), \A i \in 1..Len(p) : p[i] = q[i] PROVE p = q
  BY <1>3, SeqEqual
<1> QED
  BY <1>1, <1>2, <1>3

LEMMA AssetsAre ==
  ASSUME NEW S, Symbols \subseteq S
  PROVE  /\ DOMAIN assets = 1..4
         /\ assets[1].path = <<"/">> /\ assets[2].path = <<"/", "index.html">>
         /\ assets[3].path = <<"/", "app.js">> /\ assets[4].path = <<"/", "style.css">>
         /\ \A i \in 1..4 : assets[i].path \in Seq(S)
<1>1. DOMAIN assets = 1..4
  BY DEF assets
<1>2. /\ assets[1].path = <<"/">> /\ assets[2].path = <<"/", "index.html">>
      /\ assets[3].path = <<"/", "app.js">> /\ assets[4].path = <<"/", "style.css">>
  BY DEF assets
<1>3. /\ <<"/">> \in Seq(S) /\ <<"/", "index.html">> \in Seq(S)
      /\ <<"/", "app.js">> \in Seq(S) /\ <<"/", "style.css">> \in Seq(S)
  BY DEF Symbols
<1>4. \A i \in 1..4 : i = 1 \/ i = 2 \/ i = 3 \/ i = 4
  OBVIOUS
<1> QED
  BY <1>1, <1>2, <1>3, <1>4

LEMMA PathsDiffer ==
  /\ \A i, j \in 1..4 : assets[i].path = assets[j].path => i = j
  /\ \A i \in 1..4 : assets[i].path # StatusPath
<1>1. /\ assets[1].path = <<"/">> /\ assets[2].path = <<"/", "index.html">>
      /\ assets[3].path = <<"/", "app.js">> /\ assets[4].path = <<"/", "style.css">>
  BY DEF assets
<1>2. \A i \in 1..4 : i = 1 \/ i = 2 \/ i = 3 \/ i = 4
  OBVIOUS
<1>3. /\ Len(<<"/">>) = 1 /\ Len(<<"/", "index.html">>) = 2 /\ Len(<<"/", "app.js">>) = 2
      /\ Len(<<"/", "style.css">>) = 2 /\ Len(StatusPath) = 4
  BY DEF StatusPath
<1>4. /\ <<"/", "index.html">>[2] = "index.html" /\ <<"/", "app.js">>[2] = "app.js"
      /\ <<"/", "style.css">>[2] = "style.css"
  OBVIOUS
<1>5. \A i \in 1..4 : assets[i].path # StatusPath
  BY <1>1, <1>2, <1>3
<1>6. /\ assets[1].path \notin {assets[2].path, assets[3].path, assets[4].path}
      /\ assets[2].path \notin {assets[3].path, assets[4].path}
      /\ assets[3].path # assets[4].path
  BY <1>1, <1>3, <1>4
<1>7. \A i, j \in 1..4 : assets[i].path = assets[j].path => i = j
  BY <1>2, <1>6
<1> QED
  BY <1>5, <1>7

(* find_asset finds the page of the path it is given, and no other.        *)
LEMMA FindIs ==
  ASSUME NEW S, Symbols \subseteq S, NEW p \in Seq(S)
  PROVE  \/ \E i \in 1..4 : assets[i].path = p /\ find_asset(p) = assets[i].page
         \/ find_asset(p) = "none" /\ \A i \in 1..4 : assets[i].path # p
<1> DEFINE hits == {i \in DOMAIN assets : Len(assets[i].path) = Len(p)
                                            /\ strncmpEqual(p, assets[i].path)}
<1>1. DOMAIN assets = 1..4 /\ \A i \in 1..4 : assets[i].path \in Seq(S)
  BY AssetsAre
<1>2. \A q \in Seq(S) : IsPrefix(p, q) /\ Len(q) = Len(p) <=> p = q
  BY SamePath
<1>3. \A i : i \in hits <=> i \in 1..4 /\ assets[i].path = p
  BY <1>1, <1>2 DEF strncmpEqual
<1>4. find_asset(p) = IF hits = {} THEN "none" ELSE assets[CHOOSE i \in hits : \A j \in hits : i <= j].page
  BY DEF find_asset
<1> HIDE DEF hits
<1>5. CASE hits = {}
  BY <1>3, <1>4, <1>5
<1>6. CASE hits # {}
  <2>1. PICK n \in hits : TRUE
    BY <1>6
  <2>2. hits = {n}
    BY <1>3, PathsDiffer
  <2>3. n \in 1..4 /\ assets[n].path = p
    BY <1>3
  <2>4. (CHOOSE i \in hits : \A j \in hits : i <= j) = n
    BY <2>2, <2>3
  <2> QED
    BY <1>4, <1>6, <2>3, <2>4
<1> QED
  BY <1>5, <1>6

LEMMA PagesAre ==
  /\ DOMAIN Pages = {StatusPath} \cup {assets[i].path : i \in 1..4}
  /\ Pages[StatusPath] = "status"
  /\ \A i \in 1..4 : Pages[assets[i].path] = assets[i].page
<1>0. DOMAIN assets = 1..4
  BY DEF assets
<1>1. DOMAIN Pages = {StatusPath} \cup {assets[i].path : i \in 1..4}
  BY <1>0 DEF Pages
<1>2. Pages[StatusPath] = "status"
  BY DEF Pages
<1>3. ASSUME NEW i \in 1..4 PROVE Pages[assets[i].path] = assets[i].page
  <2> DEFINE A == {assets[j] : j \in DOMAIN assets}
             c == CHOOSE a \in A : a.path = assets[i].path
  <2>1. assets[i] \in A
    BY <1>0
  <2>2. c \in A /\ c.path = assets[i].path
    BY <2>1
  <2>3. PICK j \in 1..4 : c = assets[j]
    BY <1>0, <2>2
  <2>4. j = i
    BY <2>2, <2>3, PathsDiffer
  <2>5. Pages[assets[i].path] = c.page
    <3>1. assets[i].path \in {StatusPath} \cup {assets[n].path : n \in DOMAIN assets}
      BY <1>0
    <3>2. assets[i].path # StatusPath
      BY PathsDiffer
    <3> QED
      BY <3>1, <3>2 DEF Pages
  <2> QED
    BY <2>3, <2>4, <2>5
<1> QED
  BY <1>1, <1>2, <1>3

(* No path of the table has a blank in it.                                 *)
LEMMA PagePaths ==
  ASSUME NEW S, Symbols \subseteq S, NEW q \in DOMAIN Pages
  PROVE  q \in Seq(S) /\ \A i \in 1..Len(q) : q[i] # "sp"
<1>1. q \in {StatusPath, <<"/">>, <<"/", "index.html">>, <<"/", "app.js">>, <<"/", "style.css">>}
  <2>1. \A i \in 1..4 : i = 1 \/ i = 2 \/ i = 3 \/ i = 4
    OBVIOUS
  <2>2. q = StatusPath \/ \E i \in 1..4 : q = assets[i].path
    BY PagesAre
  <2> QED
    BY <2>1, <2>2 DEF assets
<1>2. CASE q = StatusPath
  BY <1>2 DEF StatusPath, Symbols
<1>3. CASE q = <<"/">>
  BY <1>3 DEF Symbols
<1>4. CASE q = <<"/", "index.html">>
  BY <1>4 DEF Symbols
<1>5. CASE q = <<"/", "app.js">>
  BY <1>5 DEF Symbols
<1>6. CASE q = <<"/", "style.css">>
  BY <1>6 DEF Symbols
<1> QED
  BY <1>1, <1>2, <1>3, <1>4, <1>5, <1>6

(* Two paths without a blank that a blank follows in the same place of the *)
(* same request are one.                                                   *)
LEMMA OnePath ==
  ASSUME NEW S, NEW p \in Seq(S), NEW q \in Seq(S), NEW r,
         \A i \in 1..Len(p) : r[i + 2] = p[i] /\ p[i] # "sp", r[Len(p) + 3] = "sp",
         \A i \in 1..Len(q) : r[i + 2] = q[i] /\ q[i] # "sp", r[Len(q) + 3] = "sp"
  PROVE  p = q
<1>0. Len(p) \in Nat /\ Len(q) \in Nat
  BY LenProperties
<1>1. ~(Len(q) < Len(p))
  <2> SUFFICES ASSUME Len(q) < Len(p) PROVE FALSE
    OBVIOUS
  <2>1. Len(q) + 1 \in 1..Len(p) /\ Len(q) + 1 + 2 = Len(q) + 3
    BY <1>0
  <2> QED
    BY <2>1
<1>2. ~(Len(p) < Len(q))
  <2> SUFFICES ASSUME Len(p) < Len(q) PROVE FALSE
    OBVIOUS
  <2>1. Len(p) + 1 \in 1..Len(q) /\ Len(p) + 1 + 2 = Len(p) + 3
    BY <1>0
  <2> QED
    BY <2>1
<1>3. Len(p) = Len(q)
  BY <1>0, <1>1, <1>2
<1>4. \A i \in 1..Len(p) : p[i] = q[i]
  BY <1>3
<1> QED
  BY <1>3, <1>4, SeqEqual

(* What handle_client makes of the part of r it has read: it answers what  *)
(* r asks for, or tells the client that it has not seen a whole line.      *)
LEMMA RouteIsRight ==
  ASSUME NEW S, Symbols \subseteq S, NEW r \in Seq(S), NEW n \in 1..Len(r),
         NEW t \in Seq(S), Len(t) = n, \A i \in 1..n : t[i] = r[i]
  PROVE  /\ Route(t) \in Answers \ {"none"}
         /\ \/ AsksFor(Route(t), r)
            \/ Route(t) \in {"400", "405"} /\ ~Contains(t, "sp")
<1>0. Len(r) \in Nat /\ n \in Nat /\ n >= 1 /\ n <= Len(r)
  BY LenProperties
<1>1. IsPrefix(Get, t) <=> n >= 2 /\ t[1] = "GE" /\ t[2] = "T+sp"
  BY StartsGet
<1>2. IsPrefix(Get, r) <=> Len(r) >= 2 /\ r[1] = "GE" /\ r[2] = "T+sp"
  BY StartsGet
<1>a. CASE ~IsPrefix(Get, t)
  <2>1. Route(t) = "405"
    BY <1>a DEF Route
  <2>2. CASE ~IsPrefix(Get, r)
    BY <2>1, <2>2 DEF AsksFor, Answers
  <2>3. CASE IsPrefix(Get, r)
    <3>1. t[1] = "GE"
      BY <1>0, <1>2, <2>3
    <3>2. ~(n >= 2)
      <4>1. n >= 2 => t[2] = r[2]
        BY <1>0
      <4> QED
        BY <1>1, <1>2, <1>a, <2>3, <3>1, <4>1
    <3>3. \A i \in 1..n : i = 1
      BY <1>0, <3>2
    <3>4. ~Contains(t, "sp")
      BY <3>1, <3>3 DEF Contains
    <3> QED
      BY <2>1, <3>4 DEF Answers
  <2> QED
    BY <2>2, <2>3
<1>b. CASE IsPrefix(Get, t) /\ ~Contains(Rest(t), "sp")
  <2>1. Route(t) = "400"
    BY <1>b DEF Route, Rest
  <2>2. /\ Len(Rest(t)) = n - 2 /\ \A i \in 1..(n - 2) : Rest(t)[i] = t[i + 2]
    BY <1>1, <1>b, RestIs
  <2>3. ~Contains(t, "sp")
    <3> SUFFICES ASSUME NEW i \in 1..n, t[i] = "sp" PROVE FALSE
      BY DEF Contains
    <3>1. i # 1 /\ i # 2
      BY <1>1, <1>b
    <3>2. i - 2 \in 1..(n - 2) /\ i - 2 + 2 = i
      BY <1>0, <3>1
    <3>3. Rest(t)[i - 2] = "sp"
      BY <2>2, <3>2
    <3> QED
      BY <1>b, <2>2, <3>2, <3>3 DEF Contains
  <2> QED
    BY <2>1, <2>3 DEF Answers
<1>c. CASE IsPrefix(Get, t) /\ Contains(Rest(t), "sp")
  <2> DEFINE p == Path(t)
  <2>1. /\ p \in Seq(S) /\ Len(p) + 3 <= n
        /\ \A i \in 1..Len(p) : p[i] = t[i + 2] /\ p[i] # "sp"
        /\ t[Len(p) + 3] = "sp"
    BY <1>1, <1>c, PathIs
  <2>2. Route(t) = IF IsStatus(p) THEN "status"
                   ELSE IF find_asset(p) # "none" THEN find_asset(p) ELSE "404"
    BY <1>c DEF Route, Rest
  <2> HIDE DEF p
  <2>3. Len(p) \in Nat
    BY <2>1, LenProperties
  <2>4. /\ r[1] = "GE" /\ r[2] = "T+sp" /\ r[Len(p) + 3] = "sp" /\ Len(p) + 3 <= Len(r)
        /\ \A i \in 1..Len(p) : r[i + 2] = p[i] /\ p[i] # "sp"
    <3>1. 1 \in 1..n /\ 2 \in 1..n /\ Len(p) + 3 \in 1..n /\ Len(p) + 3 <= Len(r)
      BY <1>0, <2>1, <2>3
    <3>2. \A i \in 1..Len(p) : i + 2 \in 1..n
      BY <1>0, <2>1, <2>3
    <3> QED
      BY <1>1, <1>c, <2>1, <3>1, <3>2
  <2>5. IsPrefix(Get \o p \o <<"sp">>, r)
    BY <2>1, <2>4, LineIs
  <2>6. CASE p = StatusPath
    <3>1. IsStatus(p)
      BY <2>1, <2>6, SamePath DEF IsStatus, strncmpEqual
    <3>2. Route(t) = "status"
      BY <2>2, <3>1
    <3>3. AsksFor("status", r)
      BY <2>5, <2>6, PagesAre DEF AsksFor
    <3> QED
      BY <3>2, <3>3 DEF Answers
  <2>7. CASE p # StatusPath
    <3>1. ~IsStatus(p)
      <4>1. StatusPath \in Seq(S)
        BY DEF StatusPath, Symbols
      <4>2. \A q \in Seq(S) : IsPrefix(p, q) /\ Len(q) = Len(p) <=> p = q
        BY <2>1, SamePath
      <4> QED
        BY <2>7, <4>1, <4>2 DEF IsStatus, strncmpEqual
    <3>2. \/ \E i \in 1..4 : assets[i].path = p /\ find_asset(p) = assets[i].page
          \/ find_asset(p) = "none" /\ \A i \in 1..4 : assets[i].path # p
      BY <2>1, FindIs
    <3>3. CASE \E i \in 1..4 : assets[i].path = p /\ find_asset(p) = assets[i].page
      <4>1. PICK i \in 1..4 : assets[i].path = p /\ find_asset(p) = assets[i].page
        BY <3>3
      <4>2. assets[i].page # "none" /\ assets[i].page \in Answers
        BY DEF assets, Answers
      <4>3. Route(t) = assets[i].page
        BY <2>2, <3>1, <4>1, <4>2
      <4>4. p \in DOMAIN Pages /\ Pages[p] = assets[i].page
        BY <4>1, PagesAre
      <4> QED
        BY <2>5, <4>2, <4>3, <4>4 DEF AsksFor
    <3>4. CASE find_asset(p) = "none" /\ \A i \in 1..4 : assets[i].path # p
      <4>1. Route(t) = "404"
        BY <2>2, <3>1, <3>4
      <4>2. p \notin DOMAIN Pages
        BY <2>7, <3>4, PagesAre
      <4>3. ASSUME NEW q \in DOMAIN Pages, IsPrefix(Get \o q \o <<"sp">>, r) PROVE FALSE
        <5>1. q \in Seq(S) /\ \A i \in 1..Len(q) : q[i] # "sp"
          BY PagePaths
        <5>2. r[Len(q) + 3] = "sp" /\ \A i \in 1..Len(q) : r[i + 2] = q[i]
          BY <4>3, <5>1, LineIs
        <5>3. p = q
          BY <2>1, <2>4, <5>1, <5>2, OnePath
        <5> QED
          BY <4>2, <5>3
      <4>4. Contains(r, "sp")
        BY <1>0, <2>3, <2>4 DEF Contains
      <4>5. IsPrefix(Get, r)
        BY <1>0, <1>2, <2>3, <2>4
      <4> QED
        BY <4>1, <4>3, <4>4, <4>5 DEF AsksFor, Answers
    <3> QED
      BY <3>2, <3>3, <3>4
  <2> QED
    BY <2>6, <2>7
<1> QED
  BY <1>a, <1>b, <1>c

-----------------------------------------------------------------------------
(* The answer, from the moment the request was read.                       *)
AnswerInv == answer \in Answers /\ Len(request) < RxBufSize /\ RightAnswer

LEMMA AnswerStep ==
  ASSUME NEW Token, Requests \subseteq Seq(Token), Types, AnswerInv, [Next]_vars
  PROVE  AnswerInv'
<1>0. RxBufSize \in Nat /\ RxBufSize # 0
  BY WebAssumption
<1>1. ASSUME UNCHANGED <<request, answer, asked>>, webPc' \in Parts => webPc \in Parts
      PROVE  AnswerInv'
  BY <1>1 DEF AnswerInv, RightAnswer, AsksFor
<1> USE DEF netVars
<1>a. ASSUME NEW c \in Clients, ClientConnects(c) \/ ClientLeaves(c) PROVE AnswerInv'
  BY <1>1, <1>a DEF ClientConnects, ClientLeaves
<1>b. CASE Listen \/ Accept \/ AcceptFails \/ Retry \/ RecvNothing
  BY <1>1, <1>b DEF Listen, Accept, AcceptFails, Retry, RecvNothing, Parts
<1>c. CASE Recv
  <2> DEFINE S == Token \cup Symbols
  <2>1. PICK r \in Requests : \E n \in 1..Len(r) :
             n <= RxBufSize - 1 /\ asked' = r /\ request' = SubSeq(r, 1, n)
             /\ answer' = Route(SubSeq(r, 1, n))
    BY <1>c DEF Recv, RoomForText
  <2>2. PICK n \in 1..Len(r) :
             n <= RxBufSize - 1 /\ asked' = r /\ request' = SubSeq(r, 1, n)
             /\ answer' = Route(SubSeq(r, 1, n))
    BY <2>1
  <2>3. r \in Seq(S) /\ Symbols \subseteq S
    BY SeqMonotonic
  <2> HIDE DEF S
  <2>4. Len(r) \in Nat /\ n \in Nat /\ n >= 1 /\ n <= Len(r)
    BY <2>3, LenProperties
  <2>5. \A i \in 1..n : r[i] \in S
    BY <2>3, <2>4, ElementOfSeq
  <2> DEFINE t == SubSeq(r, 1, n)
  <2>6. /\ t \in Seq(S) /\ Len(t) = IF 1 <= n THEN n - 1 + 1 ELSE 0
        /\ \A i \in 1..(n - 1 + 1) : t[i] = r[1 + i - 1]
    BY <2>4, <2>5, SubSeqProperties
  <2>7. request' = t /\ answer' = Route(t) /\ asked' = r
    BY <2>2
  <2> HIDE DEF t
  <2>8. Len(t) = n
    BY <2>4, <2>6
  <2>9. \A i \in 1..n : t[i] = r[i]
    <3> TAKE i \in 1..n
    <3>1. i \in 1..(n - 1 + 1) /\ 1 + i - 1 = i
      BY <2>4
    <3> QED
      BY <2>6, <3>1
  <2>10. /\ Route(t) \in Answers \ {"none"}
         /\ AsksFor(Route(t), r) \/ (Route(t) \in {"400", "405"} /\ ~Contains(t, "sp"))
    BY <2>3, <2>6, <2>8, <2>9, RouteIsRight
  <2>11. answer' \in Answers
    BY <2>7, <2>10
  <2>12. Len(request') < RxBufSize
    <3>1. n < RxBufSize
      BY <1>0, <2>2, <2>4
    <3> QED
      BY <2>7, <2>8, <3>1
  <2>13. AsksFor(answer', asked') \/ (answer' \in {"400", "405"} /\ ~Contains(request', "sp"))
    BY <2>7, <2>10
  <2>14. RightAnswer'
    BY <2>13 DEF RightAnswer, AsksFor
  <2> QED
    BY <2>11, <2>12, <2>14 DEF AnswerInv, Answers
<1>d. CASE Close
  <2>1. request' = <<>> /\ answer' = "none" /\ webPc' \notin Parts
    BY <1>d DEF Close, Parts
  <2>2. Len(request') < RxBufSize
    BY <1>0, <2>1, EmptySeq
  <2> QED
    BY <2>1, <2>2 DEF AnswerInv, RightAnswer, Answers
<1>e. ASSUME NEW p \in Parts, Send(p) \/ SendFails(p) PROVE AnswerInv'
  <2>1. UNCHANGED <<request, answer, asked>> /\ webPc \in Parts
    BY <1>e DEF Send, SendFails
  <2> QED
    BY <1>1, <2>1
<1>f. CASE UNCHANGED vars
  BY <1>1, <1>f DEF vars
<1> QED
  BY <1>a, <1>b, <1>c, <1>d, <1>e, <1>f DEF Next, WebStep

LEMMA AnswerCorrect ==
  ASSUME NEW Token, Requests \subseteq Seq(Token)
  PROVE  Spec => []AnswerInv
<1>1. Init => AnswerInv
  <2> SUFFICES ASSUME Init PROVE AnswerInv
    OBVIOUS
  <2>1. Len(request) = 0
    BY EmptySeq DEF Init
  <2> QED
    BY <2>1, WebAssumption DEF Init, AnswerInv, RightAnswer, Answers, Parts
<1>2. Types /\ AnswerInv /\ [Next]_vars => AnswerInv'
  BY AnswerStep
<1> QED
  BY <1>1, <1>2, WebCorrect, PTL DEF Spec

(* handle_client answers a request with what its line asks for, whatever   *)
(* part of the request the one zsock_recv returned; a line it has not seen *)
(* the end of is answered with "400" or "405" and never with a page.       *)
THEOREM RightAnswerCorrect ==
  ASSUME NEW Token, Requests \subseteq Seq(Token)
  PROVE  Spec => []RightAnswer
<1>1. AnswerInv => RightAnswer
  BY DEF AnswerInv
<1> QED
  BY <1>1, AnswerCorrect, PTL

(* The text read leaves room for its '\0', the backlog is kept, and a      *)
(* connection is open exactly while it waits or is served.                 *)
THEOREM WebTypeCorrect ==
  ASSUME NEW Token, Requests \subseteq Seq(Token)
  PROVE  Spec => []TypeOK
<1>1. Types /\ QueueInv /\ AnswerInv => TypeOK
  <2> SUFFICES ASSUME Types, QueueInv, AnswerInv PROVE TypeOK
    OBVIOUS
  <2>1. \A c : Contains(queue, c) <=> c \in Waiting
    BY DEF Contains, Waiting
  <2>2. \A c \in Clients : conn[c] # "out" <=>
               \/ Contains(queue, c)
               \/ c = cur /\ webPc \in Parts \cup {"recv", "close"}
    BY <2>1 DEF QueueInv, AtClient
  <2> QED
    BY <2>2 DEF Types, AnswerInv, TypeOK
<1> QED
  BY <1>1, AnswerCorrect, WebCorrect, PTL
=============================================================================
