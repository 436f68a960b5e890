-------------------------- MODULE StatusLedProofs ---------------------------
(***************************************************************************)
(* Proofs about StatusLed, for every set of reporting threads and every    *)
(* length of the clock, the flashes and the retries.                       *)
(***************************************************************************)
EXTENDS StatusLed, FiniteSetTheorems, TLAPS

Times == 0..(Wrap - 1)

(* Types, and a reporter that is about to record holds a report.           *)
Types ==
  /\ elapsed_ms \in Times
  /\ flash_until_ms \in [Kinds -> Times] /\ flash_active \in [Kinds -> BOOLEAN]
  /\ status_led_wake \in {0, 1}
  /\ rpc \in [Reporters -> {"in", "out", "record", "give"}]
  /\ report \in [Reporters -> [kind : Kinds \cup {"none"}, ms : Times]]
  /\ \A r \in Reporters : rpc[r] = "record" => report[r].kind \in Kinds
  /\ ledPc \in {"turn", "update", "sleep"}
  /\ failed_attempts \in 0..MaxAttempts

(* While the thread does anything but take its turn, the semaphore tells   *)
(* it of a report it has not rendered, or is about to: NoLostWake asks     *)
(* this of its sleep, but the report may come while it writes the strip.   *)
WakeInv == unseen /\ ledPc # "turn" =>
             status_led_wake = 1 \/ \E r \in Reporters : rpc[r] = "give"

(* The counter of sessions is the number of threads that run one.          *)
InSession == {r \in SessionThreads : rpc[r] # "out"}
CountInv == /\ \A r \in UartThreads : rpc[r] # "out"
            /\ active_tcp_nmea_sessions = Cardinality(InSession)

(* The colour that is cached is the one the strip shows, while no update   *)
(* has failed since one that did not.                                      *)
CacheHonest == failed_attempts = 0 => strip = Shown(applied_rgb)

LedInv == Types /\ WakeInv /\ CacheHonest

-----------------------------------------------------------------------------
(* The clock wraps around within its range.                                *)
LEMMA Modulo == \A x \in Int : x % Wrap \in Times
<1> Wrap \in Nat /\ Wrap # 0
  BY LedAssumption
<1> QED
  BY DEF Times

LEMMA LedInitially == Init => LedInv
<1> SUFFICES ASSUME Init PROVE LedInv
  OBVIOUS
<1> USE DEF Init, NoReport
<1>0. Wrap \in Nat /\ Wrap # 0 /\ MaxAttempts \in Nat
  BY LedAssumption
<1>1. 0 \in Times
  BY <1>0 DEF Times
<1>2. Types
  BY <1>0, <1>1 DEF Types
<1>3. WakeInv /\ CacheHonest
  BY DEF WakeInv, CacheHonest, Shown
<1> QED
  BY <1>2, <1>3 DEF LedInv

LEMMA LedStep == LedInv /\ [Next]_vars => LedInv'
<1> SUFFICES ASSUME LedInv, [Next]_vars PROVE LedInv'
  OBVIOUS
<1>0. Wrap \in Nat /\ FlashTicks \in Nat /\ MaxAttempts \in Nat /\ MaxAttempts # 0
  BY LedAssumption
<1> USE DEF LedInv, policy, led
<1>a. ASSUME NEW r \in Reporters, session_started(r) PROVE LedInv'
  BY <1>a DEF session_started, Types, WakeInv, CacheHonest, Shown
<1>b. ASSUME NEW r \in Reporters, session_ended(r) PROVE LedInv'
  BY <1>b DEF session_ended, Types, WakeInv, CacheHonest, Shown
<1>c. ASSUME NEW b \in BOOLEAN, connecting(b) PROVE LedInv'
  BY <1>c DEF connecting, Types, WakeInv, CacheHonest, Shown
<1>d. ASSUME NEW r \in Reporters, NEW k \in Kinds, ReadClock(r, k) PROVE LedInv'
  BY <1>d DEF ReadClock, Types, WakeInv, CacheHonest, Shown
<1>e. ASSUME NEW r \in Reporters, Record(r) PROVE LedInv'
  <2> DEFINE k == report[r].kind
  <2>1. k \in Kinds /\ report[r].ms \in Times
    BY <1>e DEF Record, Types
  <2>2. (report[r].ms + FlashTicks) % Wrap \in Times /\ 0 \in Times
    <3>1. report[r].ms + FlashTicks \in Int
      BY <2>1, <1>0 DEF Times
    <3>2. (report[r].ms + FlashTicks) % Wrap \in Times
      BY <3>1, Modulo
    <3> QED
      BY <3>2, <1>0, LedAssumption DEF Times
  <2> HIDE DEF k
  <2>3. /\ rpc' = [rpc EXCEPT ![r] = "give"] /\ rpc[r] = "record"
        /\ flash_active' = [flash_active EXCEPT ![k] = TRUE]
        /\ flash_until_ms' = [flash_until_ms EXCEPT ![k] = (report[r].ms + FlashTicks) % Wrap]
        /\ report' = [report EXCEPT ![r] = NoReport]
        /\ UNCHANGED <<elapsed_ms, status_led_wake, ledPc, applied_rgb, failed_attempts, strip>>
    BY <1>e DEF Record, k
  <2>4. Types'
    BY <2>1, <2>2, <2>3 DEF Types, NoReport
  <2>5. WakeInv' /\ CacheHonest'
    BY <2>3 DEF Types, WakeInv, CacheHonest, Shown
  <2> QED
    BY <2>4, <2>5
<1>f. ASSUME NEW r \in Reporters, Give(r) PROVE LedInv'
  BY <1>f DEF Give, Types, WakeInv, CacheHonest, Shown
<1>g. CASE Turn
  BY <1>g DEF Turn, Types, WakeInv, CacheHonest, Shown
<1>h. CASE UpdateOk
  BY <1>h, <1>0 DEF UpdateOk, Types, WakeInv, CacheHonest, Shown
<1>i. CASE UpdateFails
  <2>1. failed_attempts' \in 0..MaxAttempts /\ failed_attempts' # 0
    BY <1>i, <1>0 DEF UpdateFails, Types
  <2> QED
    BY <1>i, <2>1 DEF UpdateFails, Types, WakeInv, CacheHonest
<1>j. CASE Wake
  BY <1>j DEF Wake, Types, WakeInv, CacheHonest, Shown
<1>k. CASE Tick
  <2>1. elapsed_ms' \in Times
    <3>1. elapsed_ms + 1 \in Int
      BY <1>0 DEF Types, Times
    <3> QED
      BY <1>k, <3>1, Modulo DEF Tick
  <2> QED
    BY <1>k, <2>1 DEF Tick, Types, WakeInv, CacheHonest, Shown
<1>l. CASE UNCHANGED vars
  BY <1>l DEF vars, Types, WakeInv, CacheHonest, Shown
<1> QED
  BY <1>a, <1>b, <1>c, <1>d, <1>e, <1>f, <1>g, <1>h, <1>i, <1>j, <1>k, <1>l DEF Next, Thread

LEMMA LedCorrect == Spec => []LedInv
BY LedInitially, LedStep, PTL DEF Spec

(* A report is rendered at once: while the thread sleeps and has not       *)
(* rendered it, k_sem_give of status_led_wake has been or is about to be   *)
(* called, however the reporters and the thread interleave.                *)
THEOREM NoLostWakeCorrect == Spec => []NoLostWake
<1>1. LedInv => NoLostWake
  BY DEF LedInv, WakeInv, NoLostWake
<1> QED
  BY <1>1, LedCorrect, PTL

(* status_led_thread skips a colour it has cached: after a successful      *)
(* update, and until one fails, the strip shows that colour.               *)
THEOREM CacheHonestCorrect == Spec => []CacheHonest
<1>1. LedInv => CacheHonest
  BY DEF LedInv
<1> QED
  BY <1>1, LedCorrect, PTL

-----------------------------------------------------------------------------
(* A session begins and ends once at a time, so the counter never falls    *)
(* below zero and never misses one.                                        *)
LEMMA CountInitially == Init => CountInv
<1> SUFFICES ASSUME Init PROVE CountInv
  OBVIOUS
<1>1. InSession = {}
  BY LedAssumption DEF Init, InSession, Reporters
<1> QED
  BY <1>1, FS_EmptySet DEF Init, CountInv, Reporters

LEMMA CountStep ==
  ASSUME IsFiniteSet(SessionThreads), LedInv, CountInv, [Next]_vars
  PROVE  CountInv'
<1> USE DEF CountInv, policy, led
<1>0. rpc \in [Reporters -> {"in", "out", "record", "give"}]
  BY DEF LedInv, Types
<1>1. IsFiniteSet(InSession) /\ Cardinality(InSession) \in Nat
  BY FS_Subset, FS_CardinalityType DEF InSession
(* A step of a reporter that stays in its session, or has none.            *)
<1>2. ASSUME NEW r \in Reporters, NEW s \in {"in", "record", "give"},
             rpc[r] # "out", rpc' = [rpc EXCEPT ![r] = s], UNCHANGED active_tcp_nmea_sessions
      PROVE  CountInv'
  <2>1. \A t \in Reporters : rpc'[t] = "out" <=> rpc[t] = "out"
    BY <1>0, <1>2
  <2>2. InSession' = InSession
    BY <2>1 DEF InSession, Reporters
  <2> QED
    BY <1>2, <2>1, <2>2 DEF Reporters
<1>3. ASSUME UNCHANGED <<rpc, active_tcp_nmea_sessions>> PROVE CountInv'
  BY <1>3 DEF InSession
<1>a. ASSUME NEW r \in Reporters, session_started(r) PROVE CountInv'
  <2>1. r \in SessionThreads /\ r \notin InSession
    BY <1>a DEF session_started, InSession, Reporters
  <2>2. InSession' = InSession \cup {r}
    BY <1>0, <1>a, <2>1 DEF session_started, InSession, Reporters
  <2>3. Cardinality(InSession') = Cardinality(InSession) + 1
    BY <1>1, <2>1, <2>2, FS_AddElement
  <2>4. \A t \in UartThreads : rpc'[t] # "out"
    BY <1>0, <1>a DEF session_started, Reporters
  <2> QED
    BY <1>a, <2>3, <2>4 DEF session_started
<1>b. ASSUME NEW r \in Reporters, session_ended(r) PROVE CountInv'
  <2>1. r \in SessionThreads /\ r \in InSession
    BY <1>b DEF session_ended, InSession
  <2>2. InSession' = InSession \ {r}
    BY <1>0, <1>b, <2>1 DEF session_ended, InSession, Reporters
  <2>3. Cardinality(InSession') = Cardinality(InSession) - 1 /\ Cardinality(InSession') \in Nat
    BY <1>1, <2>1, <2>2, FS_RemoveElement, FS_CardinalityType
  <2>4. active_tcp_nmea_sessions > 0
    BY <1>1, <2>3
  <2>5. \A t \in UartThreads : rpc'[t] # "out"
    BY <1>0, <1>b, LedAssumption DEF session_ended, Reporters
  <2> QED
    BY <1>b, <2>3, <2>4, <2>5 DEF session_ended
<1>c. ASSUME NEW b \in BOOLEAN, connecting(b) PROVE CountInv'
  BY <1>3, <1>c DEF connecting
<1>d. ASSUME NEW r \in Reporters, NEW k \in Kinds, ReadClock(r, k) PROVE CountInv'
  BY <1>2, <1>d DEF ReadClock
<1>e. ASSUME NEW r \in Reporters, Record(r) PROVE CountInv'
  BY <1>2, <1>e DEF Record
<1>f. ASSUME NEW r \in Reporters, Give(r) PROVE CountInv'
  BY <1>2, <1>f DEF Give
<1>g. CASE Thread
  BY <1>3, <1>g DEF Thread, Turn, UpdateOk, UpdateFails, Wake
<1>h. CASE Tick
  BY <1>3, <1>h DEF Tick
<1>i. CASE UNCHANGED vars
  BY <1>3, <1>i DEF vars
<1> QED
  BY <1>a, <1>b, <1>c, <1>d, <1>e, <1>f, <1>g, <1>h, <1>i DEF Next

(* The policy's counter is exact: base_state is "connected" while a thread *)
(* runs a session, and never when none does.                               *)
SessionsExact == /\ active_tcp_nmea_sessions = Cardinality(InSession)
                 /\ base_state = "connected" <=> InSession # {}

THEOREM SessionsExactCorrect ==
  ASSUME IsFiniteSet(SessionThreads)
  PROVE  Spec => []SessionsExact
<1>1. LedInv /\ CountInv /\ [Next]_vars => CountInv'
  BY CountStep
<1>2. CountInv => SessionsExact
  <2>1. IsFiniteSet(InSession)
    BY FS_Subset DEF InSession
  <2>2. Cardinality(InSession) \in Nat /\ (Cardinality(InSession) = 0 <=> InSession = {})
    BY <2>1, FS_CardinalityType, FS_EmptySet
  <2> QED
    BY <2>2 DEF CountInv, SessionsExact, base_state
<1> QED
  BY <1>1, <1>2, CountInitially, LedCorrect, PTL DEF Spec

-----------------------------------------------------------------------------
(* The types.  The provers know nothing of a power but its recursion's     *)
(* start, so that those of 2 are natural numbers is a hypothesis.          *)
RetryInv == retry_in \in 0..RetryMax

LEMMA RetryStep ==
  ASSUME \A n \in Nat : 2^n \in Nat, LedInv, RetryInv, [Next]_vars
  PROVE  RetryInv'
<1> USE DEF RetryInv, policy, led
<1>0. RetryMax \in Nat /\ RetryMax # 0 /\ RetryInitial \in Nat /\ MaxAttempts \in Nat /\ MaxAttempts # 0
  BY LedAssumption
<1>1. \A n \in Nat \ {0} : retry_delay_ms(n) \in 0..RetryMax
  <2> TAKE n \in Nat \ {0}
  <2>1. n - 1 \in Nat
    OBVIOUS
  <2>2. 2^(n - 1) \in Nat
    BY <2>1
  <2> DEFINE p == 2^(n - 1)
             d == RetryInitial * p
  <2>3. retry_delay_ms(n) = IF d > RetryMax THEN RetryMax ELSE d
    BY DEF retry_delay_ms
  <2>4. p \in Nat
    BY <2>2
  <2> HIDE DEF p
  <2>5. d \in Nat
    BY <1>0, <2>4
  <2> HIDE DEF d
  <2> QED
    BY <1>0, <2>3, <2>5
<1>a. CASE UpdateFails
  <2>1. failed_attempts' \in Nat \ {0}
    BY <1>0, <1>a DEF UpdateFails, LedInv, Types
  <2>2. retry_in' = retry_delay_ms(failed_attempts')
    BY <1>a DEF UpdateFails
  <2> QED
    BY <1>1, <2>1, <2>2
<1>b. CASE Tick
  BY <1>0, <1>b DEF Tick
<1>c. CASE Turn \/ UpdateOk \/ Wake
  BY <1>c DEF Turn, UpdateOk, Wake
<1>d. CASE \E r \in Reporters : session_started(r) \/ session_ended(r) \/ Record(r) \/ Give(r)
  BY <1>d DEF session_started, session_ended, Record, Give
<1>e. CASE \E r \in Reporters, k \in Kinds : ReadClock(r, k)
  BY <1>e DEF ReadClock
<1>f. CASE \E b \in BOOLEAN : connecting(b)
  BY <1>f DEF connecting
<1>g. CASE UNCHANGED vars
  BY <1>g DEF vars
<1> QED
  BY <1>a, <1>b, <1>c, <1>d, <1>e, <1>f, <1>g DEF Next, Thread

(* The clock, the ends of the flashes, the counters and the delay before   *)
(* the next attempt keep to the ranges their C types and caps give them.   *)
THEOREM LedTypeCorrect ==
  ASSUME \A n \in Nat : 2^n \in Nat, IsFiniteSet(SessionThreads)
  PROVE  Spec => []TypeOK
<1>1. LedInv /\ RetryInv /\ [Next]_vars => RetryInv'
  BY RetryStep
<1>2. Init => RetryInv
  BY LedAssumption DEF Init, RetryInv
<1>3. LedInv /\ CountInv /\ [Next]_vars => CountInv'
  BY CountStep
<1>4. LedInv /\ RetryInv /\ CountInv => TypeOK
  <2>1. /\ Cardinality(SessionThreads) \in Nat /\ Cardinality(InSession) \in Nat
        /\ Cardinality(InSession) <= Cardinality(SessionThreads)
    BY FS_Subset, FS_CardinalityType DEF InSession
  <2> QED
    BY <2>1 DEF LedInv, Types, Times, RetryInv, CountInv, TypeOK
<1> QED
  BY <1>1, <1>2, <1>3, <1>4, CountInitially, LedCorrect, PTL DEF Spec
=============================================================================
