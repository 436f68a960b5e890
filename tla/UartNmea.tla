------------------------------ MODULE UartNmea ------------------------------
(***************************************************************************)
(* uart_rx_thread of src/src/uart_nmea.c: it assembles the bytes of the    *)
(* UART into lines and publishes each line with nmea_bridge_publish_frame. *)
(*                                                                         *)
(* The device on the wire sends lines of at least one byte that end with a *)
(* newline.  A byte is the pair <<n, k>>, byte k of the n-th line, so that *)
(* a published frame can be compared with what was sent; byte lens[n] of   *)
(* line n is its newline.  The thread may start in the middle of the first *)
(* line.  NeverResync and the like are faulty variants of the definition   *)
(* they precede, see NmeaBridge.                                           *)
(***************************************************************************)
EXTENDS Integers, Sequences, FiniteSets

CONSTANTS FrameMaxLen,  \* sizeof(line), CONFIG_..._NMEA_FRAME_MAX_LEN
          LineLens,     \* the lengths of lines on the wire, newline included
          MaxLines      \* bound: lines sent

ASSUME UartAssumption == /\ FrameMaxLen \in Nat \ {0}
                         /\ LineLens \subseteq Nat \ {0}
                         /\ MaxLines \in Nat

VARIABLES lens,   \* the lengths of the lines sent so far, the current one last
          first,  \* the position of the first byte the thread received
          pos,    \* how much of the current line has been received
          line,               \* the thread's buffer up to line_len
          dropping_overlong,
          frames,             \* history: the frames published
          overlong_lines      \* uart_stats.overlong_lines

wire == <<lens, first, pos>>
uartVars == <<wire, line, dropping_overlong, frames, overlong_lines>>

UartInit == /\ \E l \in LineLens : lens = <<l>> /\ first \in 1..l
            /\ pos = first - 1
            /\ line = <<>>
            /\ dropping_overlong = FALSE
            /\ frames = <<>>
            /\ overlong_lines = 0

-----------------------------------------------------------------------------
(* The byte uart_poll_in returns next, and whether it is '\n'.             *)

ch == <<Len(lens), pos + 1>>
AtNewline == pos + 1 = lens[Len(lens)]

Receive == pos < lens[Len(lens)] /\ pos' = pos + 1 /\ UNCHANGED <<lens, first>>

(* The device starts its next line.                                        *)
SendLine(l) == /\ pos = lens[Len(lens)]
               /\ Len(lens) < MaxLines
               /\ lens' = Append(lens, l) /\ pos' = 0
               /\ UNCHANGED <<first, line, dropping_overlong, frames, overlong_lines>>

-----------------------------------------------------------------------------
(* One turn of the inner loop.  (When uart_poll_in has nothing the thread  *)
(* sleeps for 2 ms: no step.)                                              *)

(* line_len < sizeof(line).                                                *)
FitsOneTooMany == Len(line) <= FrameMaxLen
Fits == Len(line) < FrameMaxLen

(* The rest of an overlong line, up to its newline.                        *)
NeverResync ==
  /\ dropping_overlong /\ Receive
  /\ UNCHANGED <<line, dropping_overlong, frames, overlong_lines>>
Skip ==
  /\ dropping_overlong /\ Receive
  /\ dropping_overlong' = ~AtNewline
  /\ line' = IF AtNewline THEN <<>> ELSE line
  /\ UNCHANGED <<frames, overlong_lines>>

(* The byte fits; a newline publishes the line and empties the buffer.     *)
(* uart_stats.lines_rx is Len(frames).                                     *)
Store ==
  /\ ~dropping_overlong /\ Fits /\ Receive
  /\ IF AtNewline
     THEN line' = <<>> /\ frames' = Append(frames, Append(line, ch))
     ELSE line' = Append(line, ch) /\ UNCHANGED frames
  /\ UNCHANGED <<dropping_overlong, overlong_lines>>

(* The buffer is full: this byte and the rest of the line are dropped.     *)
OverlongKeepsRest ==
  /\ ~dropping_overlong /\ ~Fits /\ Receive
  /\ overlong_lines' = overlong_lines + 1
  /\ line' = <<>>
  /\ UNCHANGED <<dropping_overlong, frames>>
Overlong ==
  /\ ~dropping_overlong /\ ~Fits /\ Receive
  /\ overlong_lines' = overlong_lines + 1
  /\ dropping_overlong' = TRUE
  /\ line' = <<>>
  /\ UNCHANGED frames

-----------------------------------------------------------------------------
(* Properties.                                                             *)

(* Line n from byte k on.                                                  *)
Bytes(n, k) == [j \in 1..(lens[n] - k + 1) |-> <<n, k + j - 1>>]

(* What the thread gets to see of line n.                                  *)
From(n) == IF n = 1 THEN first ELSE 1
Seen(n) == lens[n] - From(n) + 1

Ended(n) == n < Len(lens) \/ pos = lens[n]
Published(n) == \E i \in 1..Len(frames) : frames[i] = Bytes(n, From(n))
Lost == {n \in 1..Len(lens) : Ended(n) /\ ~Published(n)}

(* Types; the buffer is never written beyond its end.                      *)
UartTypeOK ==
  /\ lens \in Seq(LineLens) /\ lens # <<>> /\ Len(lens) <= MaxLines
  /\ first \in 1..lens[1] /\ pos \in 0..lens[Len(lens)]
  /\ line \in Seq(Nat \X Nat) /\ Len(line) <= FrameMaxLen
  /\ dropping_overlong \in BOOLEAN
  /\ frames \in Seq(Seq(Nat \X Nat))
  /\ overlong_lines \in Nat

(* "It must remain complete; truncating a NMEA frame is invalid"           *)
(* (CONTEXT.md:8): every frame published is a complete line of the wire.   *)
(* The thread does not wait for the first newline, so the tail of the line *)
(* it has joined in the middle is a frame like any other.                  *)
FramesComplete ==
  \A i \in 1..Len(frames) : \E n \in 1..Len(lens) : frames[i] = Bytes(n, 1)

(* Framing, but for that one frame: only the very first may be the tail of *)
(* a line, all others are complete lines in the order of the wire, never a *)
(* line cut short, two lines run together or a line twice, however often   *)
(* an overlong line made the thread skip input.                            *)
JoinedInside(i) == i = 1 /\ frames[i] = Bytes(1, first)
FramesAreLines ==
  /\ \A i \in 1..Len(frames) :
       JoinedInside(i) \/ \E n \in 1..Len(lens) : frames[i] = Bytes(n, 1)
  /\ \A i, j \in 1..Len(frames) : i < j => frames[i][1][1] < frames[j][1][1]

(* Resynchronisation: a line that fits the buffer is published, unless the *)
(* line before it is exactly one byte too long, so that its newline is the *)
(* byte found not to fit.  No loss is invisible: overlong_lines, which     *)
(* raises the data quality warning, stands for at most two lines each.     *)
LossExplained ==
  /\ \A n \in Lost : Seen(n) > FrameMaxLen \/ (n > 1 /\ Seen(n - 1) = FrameMaxLen + 1)
  /\ Cardinality(Lost) <= 2 * overlong_lines
=============================================================================
