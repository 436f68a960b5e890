-------------------------- MODULE UartBridgeProofs --------------------------
(***************************************************************************)
(* Proofs about UartBridge: what uart_rx_thread publishes is the lines of  *)
(* the wire, the bridge accepts all of it, and what is proved of the       *)
(* bridge holds in the composition, so that two silent warnings mean that  *)
(* no session misses a line.                                               *)
(***************************************************************************)
EXTENDS UartBridge, FiniteSetTheorems, SequenceTheorems, TLAPS

N == Len(lens)

-----------------------------------------------------------------------------
(* The inductive invariant of the UART thread.                             *)

Types == /\ lens \in Seq(LineLens) /\ N \in Nat \ {0} /\ (N > 1 => N <= MaxLines)
         /\ first \in 1..lens[1]
         /\ pos \in (From(N) - 1)..lens[N]
         /\ line \in Seq(Nat \X Nat) /\ Len(line) <= FrameMaxLen
         /\ dropping_overlong \in BOOLEAN
         /\ frames \in Seq(Seq(Nat \X Nat))
         /\ overlong_lines \in Nat

(* The buffer holds the part of the current line received so far; it is    *)
(* empty between two lines and while the rest of a line is dropped.        *)
BufInv == IF dropping_overlong \/ pos = lens[N]
          THEN line = <<>>
          ELSE /\ Len(line) = pos - From(N) + 1
               /\ \A j \in 1..Len(line) : line[j] = <<N, From(N) + j - 1>>

(* The frames are lines that have ended, in the order of the wire.         *)
IsLine(f, n) == n \in 1..N /\ Ended(n) /\ f = Bytes(n, From(n))
FramesInv == /\ \A i \in 1..Len(frames) : IsLine(frames[i], frames[i][1][1])
             /\ \A i, j \in 1..Len(frames) : i < j => frames[i][1][1] < frames[j][1][1]

(* Why line n may be missing.                                              *)
OneTooLong(n) == Seen(n) = FrameMaxLen + 1
Excused(n) == Seen(n) > FrameMaxLen \/ (n > 1 /\ OneTooLong(n - 1))

(* The thread drops input only within a line with an excuse, or after the  *)
(* newline of a line that is one byte too long.                            *)
DropInv == dropping_overlong => IF pos = lens[N] THEN OneTooLong(N) ELSE Excused(N)

LostInv == /\ \A n \in Lost : Excused(n)
           /\ Cardinality(Lost) + (IF dropping_overlong THEN 1 ELSE 0) <= 2 * overlong_lines

UartInv == Types /\ BufInv /\ FramesInv /\ DropInv /\ LostInv

-----------------------------------------------------------------------------
(* What a byte or a new line on the wire changes.                          *)

LEMMA LineLenType == ASSUME Types, NEW n \in 1..N PROVE lens[n] \in Nat \ {0}
  BY ElementOfSeq, UartAssumption DEF Types, N

LEMMA FromType == ASSUME Types, NEW n \in 1..N PROVE From(n) \in 1..lens[n]
  BY LineLenType DEF Types, From

(* A line of the wire as a sequence.                                       *)
LEMMA BytesSeq ==
  ASSUME Types, NEW n \in 1..N
  PROVE  /\ Bytes(n, From(n)) \in Seq(Nat \X Nat)
         /\ Len(Bytes(n, From(n))) = Seen(n)
         /\ Seen(n) \in Nat \ {0}
         /\ \A j \in 1..Seen(n) : Bytes(n, From(n))[j] = <<n, From(n) + j - 1>>
<1>1. lens[n] \in Nat /\ From(n) \in 1..lens[n] /\ n \in Nat
  BY LineLenType, FromType DEF Types
<1>2. Seen(n) \in Nat \ {0}
  BY <1>1 DEF Seen
<1>3. Bytes(n, From(n)) = [j \in 1..Seen(n) |-> <<n, From(n) + j - 1>>]
  BY DEF Bytes, Seen
<1>4. \A j \in 1..Seen(n) : From(n) + j - 1 \in Nat
  BY <1>1, <1>2
<1>5. Bytes(n, From(n)) \in [1..Seen(n) -> Nat \X Nat]
  BY <1>1, <1>3, <1>4
<1>6. Bytes(n, From(n)) \in Seq(Nat \X Nat)
  BY <1>2, <1>5, SeqDef
<1> QED BY <1>2, <1>3, <1>5, <1>6, LenProperties

(* The thread receives a byte: which line it belongs to does not change.   *)
LEMMA ReceiveKeeps ==
  ASSUME Types, Receive
  PROVE  /\ N' = N /\ lens' = lens /\ first' = first /\ pos' = pos + 1
         /\ pos < lens[N] /\ pos' \in From(N)..lens[N]
         /\ \A n : From(n)' = From(n) /\ Seen(n)' = Seen(n)
         /\ \A n : Bytes(n, From(n))' = Bytes(n, From(n))
         /\ \A n : OneTooLong(n)' = OneTooLong(n) /\ Excused(n)' = Excused(n)
         /\ \A n \in 1..N : Ended(n) <=> n < N
         /\ \A n \in 1..N : Ended(n)' <=> n < N \/ pos' = lens[N]
<1>1. lens' = lens /\ first' = first /\ pos' = pos + 1 /\ pos < lens[N] /\ N' = N
  BY DEF Receive, N
<1>2. \A n : From(n)' = From(n)
  BY <1>1 DEF From
<1>3. \A n : Seen(n)' = Seen(n)
  BY <1>1, <1>2 DEF Seen
<1>4. \A n : Bytes(n, From(n))' = Bytes(n, From(n))
  BY <1>1, <1>2 DEF Bytes
<1>5. \A n : OneTooLong(n)' = OneTooLong(n)
  BY <1>3 DEF OneTooLong
<1>6. \A n : Excused(n)' = Excused(n)
  BY <1>3, <1>5 DEF Excused
<1>7. lens[N] \in Nat /\ From(N) \in 1..lens[N] /\ N \in 1..N
  BY LineLenType, FromType DEF Types
<1>8. pos \in Int /\ pos' \in From(N)..lens[N]
  BY <1>1, <1>7 DEF Types
<1>9. \A n \in 1..N : Ended(n) <=> n < N
  <2> SUFFICES ASSUME NEW n \in 1..N PROVE Ended(n) <=> n < N
    OBVIOUS
  <2>1. n < N \/ n = N
    BY DEF Types
  <2>2. n = N => ~(n < N)
    BY DEF Types
  <2> QED BY <1>1, <1>7, <1>8, <2>1, <2>2 DEF Ended, N
<1>10. \A n \in 1..N : Ended(n)' <=> n < N \/ pos' = lens[N]
  <2> SUFFICES ASSUME NEW n \in 1..N PROVE Ended(n)' <=> n < N \/ pos' = lens[N]
    OBVIOUS
  <2>1. n < N \/ n = N
    BY DEF Types
  <2> QED BY <1>1, <2>1 DEF Ended, N
<1> QED BY <1>1, <1>2, <1>3, <1>4, <1>5, <1>6, <1>8, <1>9, <1>10

(* The device starts a line: the earlier ones stay what they were.         *)
LEMMA SendKeeps ==
  ASSUME Types, NEW l \in LineLens, SendLine(l)
  PROVE  /\ N' = N + 1 /\ pos = lens[N] /\ pos' = 0 /\ first' = first
         /\ lens'[N'] = l /\ l \in Nat \ {0} /\ N' <= MaxLines
         /\ lens' \in Seq(LineLens) /\ lens'[1] = lens[1]
         /\ \A n : n = N + 1 => From(n)' = 1 /\ ~Ended(n)'
         /\ \A n \in 1..N : From(n)' = From(n) /\ Seen(n)' = Seen(n)
         /\ \A n \in 1..N : Bytes(n, From(n))' = Bytes(n, From(n))
         /\ \A n \in 1..N : Excused(n)' = Excused(n)
         /\ \A n \in 1..N : Ended(n) /\ Ended(n)'
<1>1. /\ lens' = Append(lens, l) /\ first' = first /\ pos' = 0 /\ pos = lens[N]
      /\ lens \in Seq(LineLens) /\ N \in Nat \ {0} /\ N < MaxLines
  BY DEF SendLine, N, Types
<1>2. N' = N + 1 /\ lens' \in Seq(LineLens)
  BY <1>1 DEF N
<1>3. lens'[N + 1] = l /\ \A n \in 1..N : lens'[n] = lens[n]
  BY <1>1 DEF N
<1>4. \A n \in 1..N : From(n)' = From(n)
  BY <1>1 DEF From
<1>5. \A n \in 1..N : Seen(n)' = Seen(n)
  BY <1>3, <1>4 DEF Seen
<1>6. \A n \in 1..N : Bytes(n, From(n))' = Bytes(n, From(n))
  BY <1>3, <1>4 DEF Bytes
<1>7. \A n \in 1..N : OneTooLong(n)' = OneTooLong(n)
  BY <1>5 DEF OneTooLong
<1>8. \A n \in 1..N : n > 1 => n - 1 \in 1..N
  BY <1>1
<1>9. \A n \in 1..N : Excused(n)' = Excused(n)
  BY <1>5, <1>7, <1>8 DEF Excused
<1>10. \A n \in 1..N : Ended(n) /\ Ended(n)'
  BY <1>1, <1>2 DEF Ended, N
<1>11. l \in Nat \ {0}
  BY UartAssumption
<1>12. \A n : n = N + 1 => ~Ended(n)'
  BY <1>1, <1>2, <1>3, <1>11 DEF Ended, N
<1>13. \A n : n = N + 1 => From(n)' = 1
  BY <1>1, <1>2 DEF From
<1>14. N' <= MaxLines
  BY <1>1, <1>2, UartAssumption
<1>15. lens'[1] = lens[1]
  BY <1>1, <1>3
<1>16. lens'[N'] = l
  BY <1>2, <1>3
<1>17. \A n \in 1..N : From(n)' = From(n) /\ Seen(n)' = Seen(n)
  BY <1>4, <1>5
<1> QED BY <1>1, <1>2, <1>6, <1>9, <1>10, <1>11, <1>12, <1>13, <1>14, <1>15, <1>16, <1>17

-----------------------------------------------------------------------------
(* The steps of the thread, and the wire's.                                *)

UartStep == Skip \/ Store \/ Overlong \/ \E l \in LineLens : SendLine(l)

(* The byte that is stored is the one that belongs behind the buffer.      *)
LEMMA StoreAppends ==
  ASSUME Types, BufInv, Store
  PROVE  /\ Append(line, ch) \in Seq(Nat \X Nat)
         /\ Len(Append(line, ch)) = pos' - From(N) + 1 /\ Len(Append(line, ch)) <= FrameMaxLen
         /\ \A j \in 1..Len(Append(line, ch)) : Append(line, ch)[j] = <<N, From(N) + j - 1>>
<1>1. ~dropping_overlong /\ Len(line) < FrameMaxLen /\ pos < lens[N] /\ pos' = pos + 1
  BY ReceiveKeeps DEF Store, Fits
<1>2. Len(line) = pos - From(N) + 1 /\ \A j \in 1..Len(line) : line[j] = <<N, From(N) + j - 1>>
  BY <1>1, LineLenType DEF BufInv, Types
<1>3. N \in Nat /\ From(N) \in Nat /\ pos \in Nat /\ N \in 1..N
  <2>1. N \in 1..N
    BY DEF Types
  <2> QED BY <2>1, FromType, LineLenType DEF Types
<1>4. ch = <<N, pos + 1>> /\ ch \in Nat \X Nat
  BY <1>3 DEF ch, N
<1>5. line \in Seq(Nat \X Nat) /\ Len(line) \in Nat
  BY DEF Types
<1>6. Append(line, ch) \in Seq(Nat \X Nat) /\ Len(Append(line, ch)) = Len(line) + 1
  BY <1>4, <1>5
<1>7. \A j \in 1..Len(line) : Append(line, ch)[j] = line[j]
  BY <1>5
<1>8. Append(line, ch)[Len(line) + 1] = <<N, pos + 1>>
  BY <1>4, <1>5
<1>9. From(N) + (Len(line) + 1) - 1 = pos + 1
  BY <1>2, <1>3, <1>5
<1>10. Append(line, ch)[Len(line) + 1] = <<N, From(N) + (Len(line) + 1) - 1>>
  BY <1>8, <1>9
<1>11. \A j \in 1..(Len(line) + 1) : Append(line, ch)[j] = <<N, From(N) + j - 1>>
  <2> SUFFICES ASSUME NEW j \in 1..(Len(line) + 1) PROVE Append(line, ch)[j] = <<N, From(N) + j - 1>>
    OBVIOUS
  <2>1. j \in 1..Len(line) \/ j = Len(line) + 1
    BY <1>5
  <2> QED BY <2>1, <1>2, <1>7, <1>10
<1>12. Len(line) + 1 = pos' - From(N) + 1 /\ Len(line) + 1 <= FrameMaxLen
  BY <1>1, <1>2, <1>3, <1>5, UartAssumption
<1> QED BY <1>6, <1>11, <1>12

(* At the newline it makes the buffer the whole line.                      *)
LEMMA StoreCompletes ==
  ASSUME Types, BufInv, Store, AtNewline
  PROVE  Append(line, ch) = Bytes(N, From(N))
<1>1. pos' = lens[N] /\ N \in 1..N
  BY ReceiveKeeps DEF Store, AtNewline, N, Types
<1>2. Len(Append(line, ch)) = Seen(N)
  BY <1>1, StoreAppends DEF Seen
<1> QED BY <1>1, <1>2, StoreAppends, BytesSeq, SeqEqual

LEMMA TypesStep == ASSUME Types, BufInv, UartStep PROVE Types'
<1> USE UartAssumption
<1>1. ASSUME Receive
      PROVE  /\ lens' \in Seq(LineLens) /\ N' \in Nat \ {0} /\ (N' > 1 => N' <= MaxLines)
             /\ first' \in 1..lens'[1] /\ pos' \in (From(N)' - 1)..lens'[N']
  <2>1. /\ N' = N /\ lens' = lens /\ first' = first /\ From(N)' = From(N)
        /\ pos' \in From(N)..lens[N]
    <3>1. From(N)' = From(N)
      BY <1>1, ReceiveKeeps DEF From
    <3> QED BY <1>1, <3>1, ReceiveKeeps
  <2>2. From(N) \in Nat /\ lens[N] \in Nat
    <3>1. N \in 1..N
      BY DEF Types
    <3> QED BY <3>1, FromType, LineLenType
  <2> QED BY <2>1, <2>2 DEF Types
<1>2. CASE Skip
  <2>1. Receive /\ line' = <<>> /\ dropping_overlong' \in BOOLEAN /\ UNCHANGED <<frames, overlong_lines>>
    BY <1>2 DEF Skip, BufInv
  <2>2. line' \in Seq(Nat \X Nat) /\ Len(line') <= FrameMaxLen
    BY <2>1
  <2> QED BY <1>1, <2>1, <2>2 DEF Types
<1>3. CASE Overlong
  <2>1. Receive /\ line' = <<>> /\ dropping_overlong' \in BOOLEAN /\ frames' = frames
    BY <1>3 DEF Overlong
  <2>2. line' \in Seq(Nat \X Nat) /\ Len(line') <= FrameMaxLen
    BY <2>1
  <2>3. overlong_lines' \in Nat
    BY <1>3 DEF Overlong, Types
  <2> QED BY <1>1, <2>1, <2>2, <2>3 DEF Types
<1>4. CASE Store
  <2>1. Receive /\ UNCHANGED <<dropping_overlong, overlong_lines>>
    BY <1>4 DEF Store
  <2>2. Append(line, ch) \in Seq(Nat \X Nat) /\ Len(Append(line, ch)) <= FrameMaxLen
    BY <1>4, StoreAppends
  <2>3. line' \in Seq(Nat \X Nat) /\ Len(line') <= FrameMaxLen
    <3>1. line' = <<>> \/ line' = Append(line, ch)
      BY <1>4 DEF Store
    <3>2. <<>> \in Seq(Nat \X Nat) /\ Len(<<>>) <= FrameMaxLen
      BY Z3
    <3> QED BY <3>1, <3>2, <2>2
  <2>4. frames' \in Seq(Seq(Nat \X Nat))
    <3>1. frames' = Append(frames, Append(line, ch)) \/ frames' = frames
      BY <1>4 DEF Store
    <3>2. frames \in Seq(Seq(Nat \X Nat))
      BY DEF Types
    <3>3. Append(frames, Append(line, ch)) \in Seq(Seq(Nat \X Nat))
      BY <3>2, <2>2, AppendProperties
    <3> QED BY <3>1, <3>2, <3>3
  <2> QED BY <1>1, <2>1, <2>3, <2>4 DEF Types
<1>5. ASSUME NEW l \in LineLens, SendLine(l) PROVE Types'
  <2>1. UNCHANGED <<line, dropping_overlong, frames, overlong_lines>>
    BY <1>5 DEF SendLine
  <2>2. /\ N' = N + 1 /\ pos' = 0 /\ first' = first /\ lens'[N'] = l /\ l \in Nat \ {0}
        /\ N' <= MaxLines /\ lens' \in Seq(LineLens) /\ lens'[1] = lens[1]
    BY <1>5, SendKeeps
  <2>3. From(N)' = 1
    <3>1. N' # 1
      BY <2>2 DEF Types
    <3> QED BY <3>1 DEF From
  <2>4. pos' \in (From(N)' - 1)..lens'[N']
    BY <2>2, <2>3
  <2> QED BY <2>1, <2>2, <2>4 DEF Types
<1> QED BY <1>2, <1>3, <1>4, <1>5 DEF UartStep

LEMMA BufStep == ASSUME Types, BufInv, UartStep PROVE BufInv'
<1>1. CASE Skip
  <2>1. line' = <<>> /\ dropping_overlong' = ~AtNewline
    BY <1>1 DEF Skip, BufInv
  <2>2. AtNewline => pos' = lens'[N']
    BY <1>1, ReceiveKeeps DEF Skip, AtNewline, N
  <2> QED BY <2>1, <2>2 DEF BufInv
<1>2. CASE Overlong
  BY <1>2 DEF Overlong, BufInv
<1>3. CASE Store /\ AtNewline
  <2>1. line' = <<>> /\ pos' = lens'[N']
    BY <1>3, ReceiveKeeps DEF Store, AtNewline, N
  <2> QED BY <2>1 DEF BufInv
<1>4. CASE Store /\ ~AtNewline
  <2>1. line' = Append(line, ch) /\ N' = N /\ ~dropping_overlong' /\ pos' # lens'[N']
    BY <1>4, ReceiveKeeps DEF Store, AtNewline, N
  <2>2. From(N)' = From(N)
    BY <1>4, ReceiveKeeps DEF Store, From
  <2> QED BY <1>4, <2>1, <2>2, StoreAppends DEF BufInv
<1>5. ASSUME NEW l \in LineLens, SendLine(l) PROVE BufInv'
  <2>1. line' = <<>> /\ UNCHANGED dropping_overlong
    BY <1>5, SendKeeps DEF SendLine, BufInv
  <2>2. pos' = 0 /\ N' = N + 1
    BY <1>5, SendKeeps
  <2>3. From(N)' = 1
    BY <1>5, <2>2 DEF Types, From
  <2> QED BY <2>1, <2>2, <2>3 DEF BufInv
<1> QED BY <1>1, <1>2, <1>3, <1>4, <1>5 DEF UartStep

-----------------------------------------------------------------------------
(* Framing.                                                                *)

LEMMA FirstByte ==
  ASSUME Types, NEW n \in 1..N
  PROVE  Bytes(n, From(n))[1][1] = n
<1>1. 1 \in 1..Seen(n) /\ \A j \in 1..Seen(n) : Bytes(n, From(n))[j] = <<n, From(n) + j - 1>>
  BY BytesSeq
<1> QED BY <1>1

LEMMA IsLineKept ==
  ASSUME Types, UartStep, NEW f, NEW n, IsLine(f, n)
  PROVE  IsLine(f, n)'
<1>1. n \in 1..N /\ f = Bytes(n, From(n)) /\ Ended(n)
  BY DEF IsLine
<1>2. CASE Receive
  <2>1. N' = N /\ Bytes(n, From(n))' = Bytes(n, From(n)) /\ Ended(n)'
    BY <1>1, <1>2, ReceiveKeeps
  <2> QED BY <1>1, <2>1 DEF IsLine
<1>3. ASSUME NEW l \in LineLens, SendLine(l) PROVE IsLine(f, n)'
  <2>1. N' = N + 1 /\ Bytes(n, From(n))' = Bytes(n, From(n)) /\ Ended(n)'
    BY <1>1, <1>3, SendKeeps
  <2>2. n \in 1..N'
    BY <1>1, <2>1 DEF Types
  <2> QED BY <1>1, <2>1, <2>2 DEF IsLine
<1> QED BY <1>2, <1>3 DEF UartStep, Skip, Store, Overlong

(* The line that the newline completes comes after all published ones: it  *)
(* is the last one on the wire, and had not ended before.                  *)
LEMMA FramesStep ==
  ASSUME Types, BufInv, FramesInv, UartStep
  PROVE  FramesInv'
<1>1. CASE frames' = frames
  BY <1>1, IsLineKept DEF FramesInv
<1>2. CASE Store /\ AtNewline
  <2>0. PICK new, m : new = Append(line, ch) /\ m = N
    OBVIOUS
  <2>1. frames' = Append(frames, new) /\ frames \in Seq(Seq(Nat \X Nat)) /\ new \in Seq(Nat \X Nat)
    BY <1>2, <2>0, StoreAppends DEF Store, Types
  <2>2. m \in 1..N /\ new = Bytes(m, From(m))
    BY <1>2, <2>0, StoreCompletes DEF Types
  <2>3. new[1][1] = m
    BY <2>2, FirstByte
  <2>4. Receive
    BY <1>2 DEF Store
  <2>5. pos' = lens[m] /\ N' = N /\ \A n : Bytes(n, From(n))' = Bytes(n, From(n))
    BY <2>0, <2>4, <1>2, ReceiveKeeps DEF AtNewline, N
  <2>6. Ended(m)'
    BY <2>0, <2>2, <2>5, ReceiveKeeps, <2>4
  <2>7. IsLine(new, m)'
    BY <2>2, <2>5, <2>6 DEF IsLine
  <2>9. Len(frames) \in Nat /\ Len(frames') = Len(frames) + 1
        /\ frames'[Len(frames) + 1] = new /\ \A i \in 1..Len(frames) : frames'[i] = frames[i]
    BY <2>1, AppendProperties
  <2>10. \A i \in 1..Len(frames) : frames[i][1][1] \in 1..N /\ frames[i][1][1] < N
    <3>1. \A i \in 1..Len(frames) : IsLine(frames[i], frames[i][1][1])
      BY DEF FramesInv
    <3>2. \A i \in 1..Len(frames) : frames[i][1][1] \in 1..N /\ Ended(frames[i][1][1])
      BY <3>1 DEF IsLine
    <3> QED BY <3>2, <2>4, ReceiveKeeps
  <2>11. \A i \in 1..Len(frames') : i \in 1..Len(frames) \/ i = Len(frames) + 1
    BY <2>9
  <2>12. \A i \in 1..Len(frames') : IsLine(frames[i], frames[i][1][1])'
    <3>1. \A f, n : IsLine(f, n) => IsLine(f, n)'
      BY IsLineKept
    <3>2. \A i \in 1..Len(frames) : IsLine(frames[i], frames[i][1][1])
      BY DEF FramesInv
    <3>3. \A i \in 1..Len(frames') : \A f, n : f = frames'[i] /\ n = frames'[i][1][1] => IsLine(f, n)'
      <4> SUFFICES ASSUME NEW i \in 1..Len(frames'), NEW f, NEW n, f = frames'[i], n = frames'[i][1][1]
                   PROVE  IsLine(f, n)'
        OBVIOUS
      <4>1. CASE i = Len(frames) + 1
        BY <4>1, <2>3, <2>7, <2>9
      <4>2. CASE i \in 1..Len(frames)
        BY <4>2, <3>1, <3>2, <2>9
      <4> QED BY <4>1, <4>2, <2>11
    <3> QED BY <3>3
  <2>13. ASSUME NEW i \in 1..Len(frames'), NEW j \in 1..Len(frames'), i < j
         PROVE  frames'[i][1][1] < frames'[j][1][1]
    <3>1. i \in 1..Len(frames)
      BY <2>9, <2>11, <2>13
    <3>2. CASE j \in 1..Len(frames)
      BY <3>1, <3>2, <2>9, <2>13 DEF FramesInv
    <3>3. CASE j = Len(frames) + 1
      BY <3>1, <3>3, <2>0, <2>3, <2>9, <2>10
    <3> QED BY <2>11, <3>2, <3>3
  <2> QED BY <2>12, <2>13 DEF FramesInv
<1> QED BY <1>1, <1>2 DEF UartStep, Skip, Overlong, Store, SendLine

-----------------------------------------------------------------------------
(* Losses.                                                                 *)

LEMMA DropStep == ASSUME Types, BufInv, DropInv, UartStep PROVE DropInv'
<1>1. CASE Receive
  <2>1. /\ N' = N /\ lens' = lens /\ pos' = pos + 1 /\ pos < lens[N]
        /\ \A n : OneTooLong(n)' = OneTooLong(n) /\ Excused(n)' = Excused(n)
    BY <1>1, ReceiveKeeps
  <2>2. OneTooLong(N)' = OneTooLong(N) /\ Excused(N)' = Excused(N)
    <3>1. From(N)' = From(N) /\ lens' = lens /\ first' = first
      BY <1>1, <2>1, ReceiveKeeps DEF From
    <3> QED BY <3>1, <2>1 DEF OneTooLong, Excused, Seen, From
  <2>3. CASE Skip
    <3>1. dropping_overlong /\ dropping_overlong' = ~AtNewline
      BY <2>3 DEF Skip
    <3>2. AtNewline <=> pos' = lens'[N']
      BY <2>1 DEF AtNewline, N
    <3>3. Excused(N)
      BY <2>1, <3>1, LineLenType DEF DropInv, Types
    <3> QED BY <2>2, <3>1, <3>2, <3>3 DEF DropInv
  <2>4. CASE Overlong
    <3>1. Len(line) = FrameMaxLen /\ ~dropping_overlong
      BY <2>4, UartAssumption DEF Overlong, Fits, Types
    <3>2. N \in 1..N /\ lens[N] \in Nat /\ From(N) \in Nat /\ pos \in Int
      <4>1. N \in 1..N
        BY DEF Types
      <4> QED BY <4>1, LineLenType, FromType DEF Types
    <3>3. pos - From(N) + 1 = FrameMaxLen
      BY <2>1, <3>1, <3>2 DEF BufInv
    <3>4. pos' = lens[N] => OneTooLong(N)
      BY <2>1, <3>2, <3>3 DEF OneTooLong, Seen
    <3>5. Seen(N) > FrameMaxLen
      BY <2>1, <3>2, <3>3 DEF Seen
    <3>6. Excused(N)
      BY <3>5 DEF Excused
    <3> QED BY <2>1, <2>2, <3>4, <3>6 DEF DropInv
  <2>5. CASE Store
    BY <2>5 DEF Store, DropInv
  <2> QED BY <1>1, <2>3, <2>4, <2>5 DEF UartStep, SendLine, Receive
<1>2. ASSUME NEW l \in LineLens, SendLine(l) PROVE DropInv'
  <2>1. UNCHANGED dropping_overlong
    BY <1>2 DEF SendLine
  <2>2. N' = N + 1 /\ pos = lens[N] /\ pos' = 0 /\ lens'[N'] = l /\ l \in Nat \ {0}
        /\ \A n \in 1..N : Seen(n)' = Seen(n)
    BY <1>2, SendKeeps
  <2>3. pos' # lens'[N']
    BY <2>2
  <2>4. ASSUME dropping_overlong PROVE Excused(N)'
    <3>1. N \in 1..N /\ N \in Nat \ {0} /\ OneTooLong(N)
      BY <2>2, <2>4 DEF DropInv, Types
    <3>2. \A n \in 1..N : Seen(n)' = Seen(n)
      BY <2>2
    <3>3. \A n : n = N => OneTooLong(n)'
      BY <3>1, <3>2 DEF OneTooLong
    <3>4. N' > 1 /\ N' - 1 = N
      BY <2>2, <3>1
    <3> QED BY <3>3, <3>4 DEF Excused
  <2> QED BY <2>1, <2>3, <2>4 DEF DropInv
<1> QED BY <1>1, <1>2 DEF UartStep, Skip, Store, Overlong

LEMMA LostFinite ==
  ASSUME Types
  PROVE  IsFiniteSet(Lost) /\ Cardinality(Lost) \in Nat
<1>1. IsFiniteSet(1..N)
  BY FS_Interval DEF Types
<1>2. Lost \subseteq 1..N
  BY DEF Lost, N
<1> QED BY <1>1, <1>2, FS_Subset, FS_CardinalityType

(* At a byte at most the current line is lost, and only at its newline.    *)
LEMMA LostReceive ==
  ASSUME Types, Receive, frames' = frames
  PROVE  /\ Lost' \subseteq Lost \cup {N}
         /\ pos' # lens[N] => Lost' = Lost
<1>1. \A n : Published(n)' <=> Published(n)
  <2>1. \A n : Bytes(n, From(n))' = Bytes(n, From(n))
    BY ReceiveKeeps
  <2> QED BY <2>1 DEF Published
<1>2. /\ N' = N
      /\ \A n \in 1..N : Ended(n) <=> n < N
      /\ \A n \in 1..N : Ended(n)' <=> n < N \/ pos' = lens[N]
  BY ReceiveKeeps
<1>3. \A n : n \in Lost <=> n \in 1..N /\ Ended(n) /\ ~Published(n)
  BY DEF Lost, N
<1>4. \A n : n \in Lost' <=> n \in 1..N /\ Ended(n)' /\ ~Published(n)'
  BY <1>2 DEF Lost, N
<1>5. \A n \in 1..N : n < N \/ n = N
  BY DEF Types
<1> QED BY <1>1, <1>2, <1>3, <1>4, <1>5

(* A line that is published is not lost.                                   *)
LEMMA LostStore ==
  ASSUME Types, BufInv, Store, AtNewline
  PROVE  Lost' \subseteq Lost
<1>1. Receive /\ frames' = Append(frames, Append(line, ch)) /\ frames \in Seq(Seq(Nat \X Nat))
      /\ Append(line, ch) \in Seq(Nat \X Nat)
  BY StoreAppends DEF Store, Types
<1>2. Len(frames) \in Nat /\ Len(frames') = Len(frames) + 1
      /\ frames'[Len(frames) + 1] = Append(line, ch) /\ \A i \in 1..Len(frames) : frames'[i] = frames[i]
  BY <1>1, AppendProperties
<1>3. \A n : Bytes(n, From(n))' = Bytes(n, From(n))
  BY <1>1, ReceiveKeeps
<1>4. \A n : Published(n) => Published(n)'
  <2> SUFFICES ASSUME NEW n, Published(n) PROVE Published(n)'
    OBVIOUS
  <2>1. PICK i \in 1..Len(frames) : frames[i] = Bytes(n, From(n))
    BY DEF Published
  <2>2. i \in 1..Len(frames') /\ frames'[i] = Bytes(n, From(n))'
    BY <1>2, <1>3, <2>1
  <2> QED BY <2>2 DEF Published
<1>5. \A n : n = N => Published(n)'
  <2> SUFFICES ASSUME NEW n, n = N PROVE Published(n)'
    OBVIOUS
  <2>1. Append(line, ch) = Bytes(n, From(n))
    BY StoreCompletes
  <2>2. Len(frames) + 1 \in 1..Len(frames') /\ frames'[Len(frames) + 1] = Bytes(n, From(n))'
    BY <1>2, <1>3, <2>1
  <2> QED BY <2>2 DEF Published
<1>6. N' = N /\ \A n \in 1..N : n = N \/ Ended(n)
  <2>1. \A n \in 1..N : n < N \/ n = N
    BY DEF Types
  <2> QED BY <1>1, <2>1, ReceiveKeeps
<1>7. \A n : n \in Lost <=> n \in 1..N /\ Ended(n) /\ ~Published(n)
  BY DEF Lost, N
<1>8. \A n : n \in Lost' <=> n \in 1..N /\ Ended(n)' /\ ~Published(n)'
  BY <1>6 DEF Lost, N
<1> QED BY <1>4, <1>5, <1>6, <1>7, <1>8

LEMMA LostSend ==
  ASSUME Types, NEW l \in LineLens, SendLine(l)
  PROVE  Lost' = Lost
<1>1. /\ N' = N + 1 /\ frames' = frames /\ N \in Nat
      /\ \A n \in 1..N : Bytes(n, From(n))' = Bytes(n, From(n))
      /\ \A n \in 1..N : Ended(n) /\ Ended(n)'
      /\ \A n : n = N + 1 => ~Ended(n)'
  BY SendKeeps DEF SendLine, Types
<1>2. \A n \in 1..N : Published(n)' <=> Published(n)
  BY <1>1 DEF Published
<1>3. \A n : n \in Lost <=> n \in 1..N /\ Ended(n) /\ ~Published(n)
  BY DEF Lost, N
<1>4. \A n : n \in Lost' <=> n \in 1..N' /\ Ended(n)' /\ ~Published(n)'
  BY DEF Lost, N
<1>5. \A n : n \in 1..N' <=> n \in 1..N \/ n = N + 1
  BY <1>1
<1> QED BY <1>1, <1>2, <1>3, <1>4, <1>5

(* One count of overlong_lines pays for two lines: the one it is counted   *)
(* in, and, if that line's newline was the byte too many, the next one.    *)
LEMMA LostStep == ASSUME Types, BufInv, DropInv, LostInv, UartStep PROVE LostInv'
<1> DEFINE Debt == IF dropping_overlong THEN 1 ELSE 0
<1>1. Types' /\ DropInv'
  BY TypesStep, DropStep
<1>2. IsFiniteSet(Lost) /\ Cardinality(Lost) \in Nat
  BY LostFinite
<1>3. IsFiniteSet(Lost \cup {N}) /\ Cardinality(Lost \cup {N}) <= Cardinality(Lost) + 1
      /\ Cardinality(Lost \cup {N}) \in Nat
  <2>1. IsFiniteSet(Lost \cup {N}) /\ (Cardinality(Lost \cup {N}) = IF N \in Lost THEN Cardinality(Lost)
                                                                    ELSE Cardinality(Lost) + 1)
    BY <1>2, FS_AddElement
  <2>2. Cardinality(Lost \cup {N}) \in Nat
    BY <2>1, FS_CardinalityType
  <2> QED BY <1>2, <2>1, <2>2
<1>4. Lost' \subseteq Lost => Cardinality(Lost') <= Cardinality(Lost) /\ Cardinality(Lost') \in Nat
  BY <1>2, FS_Subset, FS_CardinalityType
<1>5. Lost' \subseteq Lost \cup {N} => Cardinality(Lost') <= Cardinality(Lost) + 1 /\ Cardinality(Lost') \in Nat
  BY <1>2, <1>3, FS_Subset, FS_CardinalityType
<1>6. Cardinality(Lost) + Debt <= 2 * overlong_lines /\ \A n \in Lost : Excused(n)
  BY DEF LostInv
<1>7. overlong_lines \in Nat /\ Debt \in {0, 1}
  BY DEF Types
<1>8. CASE Receive
  <2>1. \A n : Excused(n)' = Excused(n)
    BY <1>8, ReceiveKeeps
  <2>2. Excused(N)' = Excused(N)
    <3>1. N' = N /\ lens' = lens /\ first' = first
      BY <1>8, ReceiveKeeps
    <3> QED BY <3>1 DEF Excused, OneTooLong, Seen, From
  <2>3. CASE Skip
    <3>1. frames' = frames /\ overlong_lines' = overlong_lines /\ dropping_overlong
          /\ dropping_overlong' = ~AtNewline
      BY <2>3 DEF Skip
    <3>2. AtNewline <=> pos' = lens[N]
      BY <1>8, ReceiveKeeps DEF AtNewline, N
    <3>3. Excused(N)
      BY <1>8, <3>1, ReceiveKeeps, LineLenType DEF DropInv, Types
    <3>4. CASE AtNewline
      <4>1. Lost' \subseteq Lost \cup {N} /\ Debt' = 0 /\ Debt = 1
        BY <1>8, <3>1, <3>4, LostReceive
      <4>2. Cardinality(Lost') + Debt' <= 2 * overlong_lines'
        BY <4>1, <1>5, <1>2, <1>6, <1>7, <3>1
      <4> QED BY <2>1, <3>3, <1>6, <4>1, <4>2 DEF LostInv
    <3>5. CASE ~AtNewline
      <4>1. Lost' = Lost /\ Debt' = Debt
        BY <1>8, <3>1, <3>2, <3>5, LostReceive
      <4> QED BY <2>1, <1>6, <3>1, <4>1 DEF LostInv
    <3> QED BY <3>4, <3>5
  <2>4. CASE Overlong
    <3>1. frames' = frames /\ overlong_lines' = overlong_lines + 1 /\ dropping_overlong'
      BY <2>4 DEF Overlong
    <3>2. Excused(N)
      <4>1. N' = N /\ lens' = lens /\ N \in 1..N /\ lens[N] \in Nat /\ From(N) \in Nat
        BY <1>8, ReceiveKeeps, LineLenType, FromType DEF Types
      <4>2. Excused(N)' \/ OneTooLong(N)'
        BY <1>1, <3>1 DEF DropInv
      <4>3. OneTooLong(N)' => Excused(N)'
        BY UartAssumption DEF OneTooLong, Excused
      <4> QED BY <2>2, <4>2, <4>3
    <3>3. Lost' \subseteq Lost \cup {N} /\ Debt' = 1
      BY <1>8, <3>1, LostReceive
    <3>4. Cardinality(Lost') + Debt' <= 2 * overlong_lines'
      BY <3>1, <3>3, <1>5, <1>2, <1>6, <1>7
    <3> QED BY <2>1, <1>6, <3>2, <3>3, <3>4 DEF LostInv
  <2>5. CASE Store
    <3>1. UNCHANGED <<dropping_overlong, overlong_lines>> /\ Debt' = Debt
      BY <2>5 DEF Store
    <3>2. Lost' \subseteq Lost
      <4>1. CASE AtNewline
        BY <2>5, <4>1, LostStore
      <4>2. CASE ~AtNewline
        <5>1. frames' = frames
          BY <2>5, <4>2 DEF Store
        <5>2. pos' # lens[N]
          BY <1>8, <4>2, ReceiveKeeps DEF AtNewline, N
        <5> QED BY <1>8, <5>1, <5>2, LostReceive
      <4> QED BY <4>1, <4>2
    <3>3. Cardinality(Lost') + Debt' <= 2 * overlong_lines'
      BY <3>1, <3>2, <1>4, <1>2, <1>6, <1>7
    <3> QED BY <2>1, <1>6, <3>2, <3>3 DEF LostInv
  <2> QED BY <1>8, <2>3, <2>4, <2>5 DEF UartStep, SendLine, Receive
<1>9. ASSUME NEW l \in LineLens, SendLine(l) PROVE LostInv'
  <2>1. Lost' = Lost /\ UNCHANGED <<dropping_overlong, overlong_lines>>
    BY <1>9, LostSend DEF SendLine
  <2>2. \A n \in 1..N : Excused(n)' = Excused(n)
    BY <1>9, SendKeeps
  <2>3. Lost \subseteq 1..N
    BY DEF Lost, N
  <2> QED BY <1>6, <2>1, <2>2, <2>3 DEF LostInv
<1> QED BY <1>8, <1>9 DEF UartStep, Skip, Store, Overlong

-----------------------------------------------------------------------------
(* The whole.                                                              *)

LEMMA UartInvInit == Init => UartInv
<1> SUFFICES ASSUME Init PROVE UartInv
  OBVIOUS
<1>1. PICK l \in LineLens : lens = <<l>> /\ first \in 1..l
  BY DEF Init, UartInit
<1>2. pos = first - 1 /\ line = <<>> /\ dropping_overlong = FALSE /\ frames = <<>> /\ overlong_lines = 0
  BY DEF Init, UartInit
<1>3. l \in Nat \ {0} /\ N = 1 /\ lens[N] = l /\ lens[1] = l /\ lens \in Seq(LineLens)
  BY <1>1, UartAssumption DEF N
<1>4. From(N) = first
  BY <1>3 DEF From
<1>5. pos \in (From(N) - 1)..lens[N] /\ pos # lens[N]
  BY <1>1, <1>2, <1>3, <1>4
<1>6. Len(line) = 0 /\ Len(frames) = 0
  BY <1>2
<1>7. 0 <= FrameMaxLen
  BY UartAssumption
<1>8. Types
  <2>1. /\ line \in Seq(Nat \X Nat) /\ frames \in Seq(Seq(Nat \X Nat)) /\ overlong_lines \in Nat
        /\ dropping_overlong \in BOOLEAN
    BY <1>2, EmptySeq
  <2>2. N \in Nat \ {0} /\ ~(N > 1) /\ first \in 1..lens[1]
    BY <1>1, <1>3
  <2> QED BY <1>3, <1>5, <1>6, <1>7, <2>1, <2>2 DEF Types
<1>9. BufInv
  BY <1>1, <1>2, <1>3, <1>4, <1>6 DEF BufInv
<1>10. FramesInv
  BY <1>6 DEF FramesInv
<1>11. DropInv
  BY <1>2 DEF DropInv
<1>12. Lost = {}
  BY <1>3, <1>5 DEF Lost, Ended, N
<1>13. LostInv
  BY <1>2, <1>12, FS_EmptySet DEF LostInv
<1> QED BY <1>8, <1>9, <1>10, <1>11, <1>13 DEF UartInv

LEMMA UartInvStep == ASSUME UartInv, UartStep PROVE UartInv'
  BY TypesStep, BufStep, FramesStep, DropStep, LostStep DEF UartInv

LEMMA UartInvStutter == ASSUME UartInv, UNCHANGED uartVars PROVE UartInv'
<1>1. UNCHANGED <<lens, first, pos, line, dropping_overlong, frames, overlong_lines>>
  BY DEF uartVars, wire
<1>2. N' = N /\ Lost' = Lost
  BY <1>1 DEF N, Lost, Ended, Published, Bytes, From
<1>3. Types'
  BY <1>1, <1>2 DEF UartInv, Types, From
<1>4. BufInv'
  BY <1>1, <1>2 DEF UartInv, BufInv, From
<1>5. FramesInv'
  BY <1>1, <1>2 DEF UartInv, FramesInv, IsLine, Ended, Bytes, From
<1>6. DropInv'
  BY <1>1, <1>2 DEF UartInv, DropInv, OneTooLong, Excused, Seen, From
<1>7. LostInv'
  BY <1>1, <1>2 DEF UartInv, LostInv, OneTooLong, Excused, Seen, From
<1> QED BY <1>3, <1>4, <1>5, <1>6, <1>7 DEF UartInv

(* Every step of the composition is a step of the thread or of the wire,   *)
(* or leaves both alone.                                                   *)
LEMMA NextIsUartStep == [Next]_vars => UartStep \/ UNCHANGED uartVars
  BY DEF Next, vars, PublishLine, TakeByte, NextLine, BridgeStep, UartStep

THEOREM UartCorrect == Spec => []UartInv
<1>1. Init => UartInv
  BY UartInvInit
<1>2. UartInv /\ [Next]_vars => UartInv'
  BY NextIsUartStep, UartInvStep, UartInvStutter
<1> QED BY <1>1, <1>2, PTL DEF Spec

(* A frame is its line from the first byte the thread has received, so     *)
(* only the first frame can be less than a line.                           *)
LEMMA FrameForms ==
  ASSUME UartInv, NEW i \in 1..Len(frames)
  PROVE  \/ JoinedInside(i)
         \/ \E n \in 1..Len(lens) : frames[i] = Bytes(n, 1)
<1> DEFINE n == frames[i][1][1]
           m == frames[1][1][1]
<1>1. n \in 1..Len(lens) /\ frames[i] = Bytes(n, From(n))
  BY DEF UartInv, FramesInv, IsLine, N
<1>2. CASE n # 1
  BY <1>1, <1>2 DEF From
<1>3. CASE n = 1
  <2>1. 1 \in 1..Len(frames) /\ i >= 1 /\ m \in 1..Len(lens) /\ (1 < i => m < n)
    BY DEF UartInv, FramesInv, IsLine, N, FramesInv
  <2>2. i = 1
    BY <1>3, <2>1
  <2> QED BY <1>1, <1>3, <2>2 DEF From, JoinedInside
<1> QED BY <1>2, <1>3

(* What uart_rx_thread publishes is complete lines in the order of the     *)
(* wire, none twice, however long the lines and the buffer are, with one   *)
(* exception: the first frame may be the tail of the line in whose middle  *)
(* the thread started.                                                     *)
THEOREM FramesAreLinesCorrect == Spec => []FramesAreLines
<1>1. UartInv => FramesAreLines
  BY FrameForms DEF UartInv, FramesInv, FramesAreLines
<1> QED BY <1>1, UartCorrect, PTL

(* A thread that starts between two lines publishes only complete ones:    *)
(* where it starts is the only reason for a frame that is not.             *)
THEOREM CompleteFromTheStart == Spec => [](first = 1 => FramesComplete)
<1>1. UartInv => (first = 1 => FramesComplete)
  <2> SUFFICES ASSUME UartInv, first = 1, NEW i \in 1..Len(frames)
               PROVE  \E n \in 1..Len(lens) : frames[i] = Bytes(n, 1)
    BY DEF FramesComplete
  <2>1. 1 \in 1..Len(lens)
    BY DEF UartInv, FramesInv, IsLine, N
  <2> QED BY <2>1, FrameForms DEF JoinedInside
<1> QED BY <1>1, UartCorrect, PTL

(* A line that fits is published unless the line before it is one byte too *)
(* long, and overlong_lines stands for at most two lost lines each.        *)
THEOREM LossExplainedCorrect == Spec => []LossExplained
<1>1. UartInv => LossExplained
  <2> SUFFICES ASSUME UartInv PROVE LossExplained
    OBVIOUS
  <2>1. Cardinality(Lost) \in Nat /\ overlong_lines \in Nat
        /\ Cardinality(Lost) + (IF dropping_overlong THEN 1 ELSE 0) <= 2 * overlong_lines
    BY LostFinite DEF UartInv, LostInv, Types
  <2>2. Cardinality(Lost) <= 2 * overlong_lines
    BY <2>1
  <2>3. \A n \in Lost : Seen(n) > FrameMaxLen \/ (n > 1 /\ Seen(n - 1) = FrameMaxLen + 1)
    BY DEF UartInv, LostInv, Excused, OneTooLong
  <2> QED BY <2>2, <2>3 DEF LossExplained
<1> QED BY <1>1, UartCorrect, PTL

-----------------------------------------------------------------------------
(* The bridge rejects none of the lines.                                   *)

CountersInv == DOMAIN bridge_stats = B!BridgeCounters /\ NoRejects

LEMMA CountersStep == ASSUME UartInv, CountersInv, [Next]_vars PROVE CountersInv'
<1> USE DEF CountersInv, NoRejects, B!BridgeCounters
<1>1. CASE PublishLine
  <2>1. Len(line) \in Nat /\ Len(line) < FrameMaxLen /\ frames \in Seq(Seq(Nat \X Nat))
    BY <1>1 DEF PublishLine, Store, Fits, UartInv, Types
  <2>2. Append(line, ch) \in Seq(Nat \X Nat) /\ frames' = Append(frames, Append(line, ch))
    BY <1>1, StoreAppends DEF PublishLine, Store, UartInv
  <2>3. Len(frames') = Len(frames) + 1
    BY <2>1, <2>2, AppendProperties
  <2>4. ~B!PublishRejected(Len(line) + 1)
    BY <2>1, UartAssumption DEF B!PublishRejected
  <2>5. bridge_stats' = [bridge_stats EXCEPT !.frames_in = @ + 1]
    BY <1>1, <2>4 DEF PublishLine, publish_frame, B!Publish
  <2> QED BY <2>3, <2>5
<1>2. CASE TakeByte
  <2>1. UNCHANGED <<frames, bridge_stats>>
    BY <1>2 DEF TakeByte, Skip, Overlong, Store, bridgeVars
  <2> QED BY <2>1
<1>3. CASE NextLine \/ UNCHANGED vars
  <2>1. UNCHANGED <<frames, bridge_stats>>
    BY <1>3 DEF NextLine, SendLine, bridgeVars, vars, uartVars
  <2> QED BY <2>1
<1>4. CASE BridgeStep
  <2>1. UNCHANGED frames
    BY <1>4 DEF BridgeStep, uartVars
  <2>2. \/ UNCHANGED bridge_stats
        \/ \E c \in {"ingest_dropped_oldest", "sink_dropped_oldest", "publish_no_sinks"} :
             \E v : bridge_stats' = [bridge_stats EXCEPT ![c] = v]
    BY <1>4 DEF BridgeStep, B!PublishDropOldest, B!PublishRetry, B!Dispatcher, B!DispGet, B!DispLock,
       B!DispPut, B!DispDropOldest, B!DispRetry, B!DispCount, B!DispFinish, B!Session, B!OpenSearch, B!OpenCall,
       B!OpenLock, B!OpenFind, B!OpenFull, B!OpenPurge, B!TakeCheck, B!TakeGet, B!TakeTimeout,
       B!TakeCount, B!CloseCall, B!CloseLock, B!CloseClear, B!ClosePurge, B!LockSinks
  <2> QED BY <2>1, <2>2
<1> QED BY <1>1, <1>2, <1>3, <1>4 DEF Next

LEMMA CountersInvariant == Spec => []CountersInv
<1>1. Init => CountersInv
  BY DEF Init, UartInit, B!Init, CountersInv, NoRejects, B!BridgeCounters
<1>2. UartInv /\ CountersInv /\ [Next]_vars => CountersInv'
  BY CountersStep
<1> QED BY <1>1, <1>2, UartCorrect, PTL DEF Spec

(* nmea_bridge_publish_frame accepts every line the thread hands it, so    *)
(* that publish_invalid and publish_oversize stay zero, for every buffer   *)
(* length: line and the bridge's frames have the same size.                *)
THEOREM NoRejectsCorrect == Spec => []NoRejects
<1>1. CountersInv => NoRejects
  BY DEF CountersInv
<1> QED BY <1>1, CountersInvariant, PTL

-----------------------------------------------------------------------------
(* The composition runs the bridge: UartBridge implements NmeaBridge with  *)
(* a producer that may publish any length, so that what is proved of the   *)
(* bridge holds in the composition.                                        *)

NB == INSTANCE NmeaBridgeQueueProofs WITH Lens <- Nat, MaxFrames <- MaxLines, MaxRejects <- 1

(* The assumptions of NmeaBridge on the constants it adds.                 *)
BridgeSizes == /\ MaxSinks \in Nat \ {0} /\ IngestDepth \in Nat \ {0} /\ SinkDepth \in Nat \ {0}
               /\ {"free", "dispatcher"} \cap Sessions = {}

LEMMA BridgeInit == Init => NB!Init
  BY DEF Init, B!Init, NB!Init, B!BridgeCounters, NB!BridgeCounters, B!Sinks, NB!Sinks, B!ZeroStats,
     NB!ZeroStats, B!SinkCounters, NB!SinkCounters

LEMMA SamePublish == ASSUME NEW len, B!Publish(len) PROVE NB!Publish(len)
  BY DEF B!Publish, NB!Publish, B!CanRun, NB!CanRun, B!DispReady, NB!DispReady, B!UartPrio, NB!UartPrio,
     B!DispatcherPrio, NB!DispatcherPrio, B!HasRoom, NB!HasRoom, B!PutIngest, NB!PutIngest,
     B!sinkVars, NB!sinkVars, B!sessVars, NB!sessVars

LEMMA SameRunning ==
  /\ \A prio : B!CanRun(prio) <=> NB!CanRun(prio)
  /\ B!DispatcherPrio = NB!DispatcherPrio /\ B!SessionPrio = NB!SessionPrio /\ B!UartPrio = NB!UartPrio
  BY DEF B!CanRun, NB!CanRun, B!DispReady, NB!DispReady, B!UartPrio, NB!UartPrio,
     B!DispatcherPrio, NB!DispatcherPrio, B!SessionPrio, NB!SessionPrio

LEMMA SameProducer ==
  /\ B!PublishDropOldest => NB!PublishDropOldest
  /\ B!PublishRetry => NB!PublishRetry
  BY SameRunning DEF B!PublishDropOldest, NB!PublishDropOldest, B!PublishRetry, NB!PublishRetry,
     B!HasRoom, NB!HasRoom, B!PutIngest, NB!PutIngest, B!DropOldest, NB!DropOldest,
     B!sinkVars, NB!sinkVars, B!sessVars, NB!sessVars, B!dispVars, NB!dispVars

LEMMA SamePutSink == ASSUME NEW i PROVE B!PutSink(i) <=> NB!PutSink(i)
  BY DEF B!PutSink, NB!PutSink, B!Waiters, NB!Waiters

LEMMA SameDispatcher == B!Dispatcher => NB!Dispatcher
<1> USE SameRunning
    DEF B!sinkVars, NB!sinkVars, B!sessVars, NB!sessVars, B!dispVars, NB!dispVars, B!prodVars, NB!prodVars
<1>1. B!DispGet => NB!DispGet
  BY DEF B!DispGet, NB!DispGet
<1>2. B!DispLock => NB!DispLock
  BY DEF B!DispLock, NB!DispLock, B!LockFree, NB!LockFree
<1>3. B!DispPut => NB!DispPut
  BY SamePutSink DEF B!DispPut, NB!DispPut, B!ActiveAhead, NB!ActiveAhead, B!HasRoom, NB!HasRoom
<1>4. B!DispDropOldest => NB!DispDropOldest
  BY DEF B!DispDropOldest, NB!DispDropOldest, B!DropOldest, NB!DropOldest, B!CountDrop, NB!CountDrop
<1>5. B!DispRetry => NB!DispRetry
  BY SamePutSink DEF B!DispRetry, NB!DispRetry, B!HasRoom, NB!HasRoom, B!CountDrop, NB!CountDrop
<1>6. B!DispCount => NB!DispCount
  BY DEF B!DispCount, NB!DispCount
<1>7. B!DispFinish => NB!DispFinish
  BY DEF B!DispFinish, NB!DispFinish, B!ActiveAhead, NB!ActiveAhead
<1> QED BY <1>1, <1>2, <1>3, <1>4, <1>5, <1>6, <1>7 DEF B!Dispatcher, NB!Dispatcher

LEMMA SameSession == ASSUME NEW s \in Sessions, B!Session(s) PROVE NB!Session(s)
<1> USE SameRunning
    DEF B!sinkVars, NB!sinkVars, B!sessVars, NB!sessVars, B!dispVars, NB!dispVars, B!prodVars, NB!prodVars,
        B!Goto, NB!Goto, B!LockFree, NB!LockFree
<1>1. B!OpenCall(s) => NB!OpenCall(s)
  BY DEF B!OpenCall, NB!OpenCall
<1>2. B!OpenLock(s) => NB!OpenLock(s)
  BY DEF B!OpenLock, NB!OpenLock, B!LockSinks, NB!LockSinks
<1>3. B!OpenFind(s) => NB!OpenFind(s)
  BY DEF B!OpenFind, NB!OpenFind, B!Sinks, NB!Sinks, B!ResetStats, NB!ResetStats, B!ZeroStats, NB!ZeroStats,
     B!SinkCounters, NB!SinkCounters, B!Last0, NB!Last0
<1>4. B!OpenFull(s) => NB!OpenFull(s)
  BY DEF B!OpenFull, NB!OpenFull, B!Sinks, NB!Sinks
<1>5. B!OpenPurge(s) => NB!OpenPurge(s)
  BY DEF B!OpenPurge, NB!OpenPurge, B!Purge, NB!Purge
<1>6. B!TakeCheck(s) => NB!TakeCheck(s)
  BY DEF B!TakeCheck, NB!TakeCheck
<1>7. B!TakeGet(s) => NB!TakeGet(s)
  BY DEF B!TakeGet, NB!TakeGet
<1>8. B!TakeTimeout(s) => NB!TakeTimeout(s)
  BY DEF B!TakeTimeout, NB!TakeTimeout
<1>9. B!TakeCount(s) => NB!TakeCount(s)
  BY DEF B!TakeCount, NB!TakeCount
<1>10. B!CloseCall(s) => NB!CloseCall(s)
  BY DEF B!CloseCall, NB!CloseCall
<1>11. B!CloseLock(s) => NB!CloseLock(s)
  BY DEF B!CloseLock, NB!CloseLock, B!LockSinks, NB!LockSinks
<1>12. B!CloseClear(s) => NB!CloseClear(s)
  BY DEF B!CloseClear, NB!CloseClear, B!Deactivate, NB!Deactivate
<1>13. B!ClosePurge(s) => NB!ClosePurge(s)
  BY DEF B!ClosePurge, NB!ClosePurge, B!Purge, NB!Purge
<1> QED
  BY <1>1, <1>2, <1>3, <1>4, <1>5, <1>6, <1>7, <1>8, <1>9, <1>10, <1>11, <1>12, <1>13
  DEF B!Session, NB!Session, B!OpenSearch, NB!OpenSearch

LEMMA BridgeNext == ASSUME UartInv, [Next]_vars PROVE [NB!Next]_(NB!vars)
<1>1. CASE PublishLine
  <2>1. Len(line) \in Nat /\ Len(line) < FrameMaxLen
    BY <1>1 DEF PublishLine, Store, Fits, UartInv, Types
  <2>2. Len(line) + 1 \in Nat
    BY <2>1
  <2>3. ~B!PublishRejected(Len(line) + 1)
    BY <2>1, UartAssumption DEF B!PublishRejected
  <2>4. NB!Publish(Len(line) + 1)
    BY <1>1, <2>3, SamePublish DEF PublishLine, publish_frame
  <2> QED BY <2>2, <2>4 DEF NB!Next, NB!Producer
<1>2. CASE BridgeStep
  BY <1>2, SameProducer, SameDispatcher, SameSession DEF BridgeStep, NB!Next, NB!Producer
<1>3. CASE TakeByte \/ NextLine \/ UNCHANGED vars
  <2>1. UNCHANGED bridgeVars
    BY <1>3 DEF TakeByte, NextLine, vars
  <2> QED BY <2>1 DEF bridgeVars, NB!vars, NB!sinkVars, NB!prodVars, NB!dispVars, NB!sessVars
<1> QED BY <1>1, <1>2, <1>3 DEF Next

(* Every behaviour of the composition is one of the bridge.                *)
THEOREM UartRunsBridge == Spec => NB!Spec
<1>1. UartInv /\ [Next]_vars => [NB!Next]_(NB!vars)
  BY BridgeNext
<1> QED BY <1>1, BridgeInit, UartCorrect, PTL DEF Spec, NB!Spec

LEMMA BridgeAssumptions ==
  ASSUME BridgeSizes
  PROVE  NB!SizesAssumption /\ NB!SessionsAssumption
  BY UartAssumption DEF BridgeSizes, NB!SizesAssumption, NB!SessionsAssumption

LEMMA BridgeTypes == ASSUME BridgeSizes PROVE NB!Spec => []NB!TypeOK
  BY BridgeAssumptions, NB!TypeCorrect DEF NB!TypeCorrect

(* So the path of a line promises a session what the bridge alone does:    *)
(* lines in the order of the wire, none twice, none from before it opened  *)
(* its sink, whatever the receiver and the queues lose.                    *)
THEOREM UartImplementsFanOut == ASSUME BridgeSizes PROVE Spec => NB!ImplementsFanOut
<1>1. NB!Spec => NB!ImplementsFanOut
  BY BridgeAssumptions, NB!BridgeImplementsFanOut DEF NB!BridgeImplementsFanOut
<1> QED BY <1>1, UartRunsBridge, PTL

(* Every variable of the thread and of the bridge keeps its type: the      *)
(* buffer is never written beyond its end, no queue outgrows its depth and *)
(* no counter falls below zero, for every size.                            *)
THEOREM UartTypeCorrect == ASSUME BridgeSizes, MaxLines # 0 PROVE Spec => []TypeOK
<1>1. UartInv => UartTypeOK
  <2> SUFFICES ASSUME UartInv PROVE UartTypeOK
    OBVIOUS
  <2>1. N \in 1..N /\ lens # <<>>
    BY DEF UartInv, Types, N
  <2>2. N <= MaxLines
    BY UartAssumption DEF UartInv, Types
  <2>3. pos \in 0..lens[N]
    <3>1. From(N) \in Nat \ {0} /\ lens[N] \in Nat
      BY <2>1, FromType, LineLenType DEF UartInv
    <3> QED BY <3>1 DEF UartInv, Types
  <2> QED BY <2>1, <2>2, <2>3 DEF UartInv, Types, UartTypeOK, N
<1>2. NB!TypeOK => B!TypeOK
  BY DEF NB!TypeOK, NB!QueuesOK, NB!CountersOK, NB!ThreadsOK, NB!Sinks, NB!BridgeCounters, NB!SinkCounters,
     NB!Owns, B!TypeOK, B!QueuesOK, B!CountersOK, B!ThreadsOK, B!Sinks, B!BridgeCounters, B!SinkCounters,
     B!Owns
<1> QED BY <1>1, <1>2, BridgeTypes, UartRunsBridge, UartCorrect, PTL DEF TypeOK

LEMMA BridgeComplete == ASSUME BridgeSizes PROVE NB!Spec => []NB!Complete
  BY BridgeAssumptions, NB!CompleteCorrect DEF NB!CompleteCorrect

(* No warning, no loss, over the whole path from the wire to the sessions: *)
(* while the counters behind the data quality and the frame loss warnings  *)
(* are zero, each line that has ended was published, and each frame since  *)
(* a session opened its sink was taken by it or is on its way to it, in    *)
(* the order of the wire.                                                  *)
THEOREM QuietCorrect == ASSUME BridgeSizes PROVE Spec => []QuietMeansComplete
<1>1. UartInv /\ CountersInv /\ NB!TypeOK /\ NB!Complete => QuietMeansComplete
  <2> SUFFICES ASSUME UartInv, CountersInv, NB!TypeOK, NB!Complete,
                      ~data_quality, ~frame_loss, prodPc = "idle"
               PROVE  /\ Lost = {}
                      /\ \A s \in Sessions :
                           B!Owns(s) /\ sessPc[s] \notin {"purge", "drain"}
                             /\ dispPc \notin {"retry", "count"} =>
                               OnTheWay(s) = [k \in 1..(Len(frames) - frame[s]) |-> frame[s] + k]
    BY DEF QuietMeansComplete
  <2>1. overlong_lines = 0 /\ bridge_stats.frames_in = Len(frames)
    BY DEF data_quality, CountersInv, NoRejects, UartInv, Types
  <2>2. Lost = {}
    <3>1. Cardinality(Lost) \in Nat /\ IsFiniteSet(Lost)
      BY LostFinite DEF UartInv
    <3>2. Cardinality(Lost) + (IF dropping_overlong THEN 1 ELSE 0) <= 2 * overlong_lines
      BY DEF UartInv, LostInv
    <3>3. Cardinality(Lost) = 0
      BY <2>1, <3>1, <3>2
    <3> QED BY <3>1, <3>3, FS_EmptySet
  <2>3. bridge_stats.ingest_dropped_oldest + bridge_stats.sink_dropped_oldest = 0
    BY DEF frame_loss, NB!TypeOK, NB!CountersOK, NB!BridgeCounters
  <2>4. \A s \in Sessions : (B!Owns(s) <=> NB!Owns(s)) /\ OnTheWay(s) = NB!Coming(s)
    BY DEF B!Owns, NB!Owns, OnTheWay, NB!Coming, B!Behind, NB!Behind
  <2> QED BY <2>1, <2>2, <2>3, <2>4 DEF NB!Complete
<1> QED
  BY <1>1, CountersInvariant, BridgeTypes, BridgeComplete, UartRunsBridge, UartCorrect, PTL
=============================================================================
