------------------------------ MODULE StatusLed -----------------------------
(***************************************************************************)
(* src/src/status_led.c and status_led_policy.c: threads report sessions   *)
(* and NMEA activity, the status LED thread renders them as one colour and *)
(* writes it to the LED strip.                                             *)
(*                                                                         *)
(* The milliseconds of the policy are 32 bits wide and wrap around; here   *)
(* time counts in ticks of 100 ms, modulo Wrap.  A colour is what it means *)
(* ("error", "connected"...); the pulse of the connecting state is one     *)
(* that differs from tick to tick.  status_led_lock makes each call of the *)
(* policy one atomic step.  A definition used nowhere is a faulty variant  *)
(* of the one it precedes.                                                 *)
(***************************************************************************)
EXTENDS Integers, FiniteSets

CONSTANTS UartThreads,     \* the thread that reports UART activity
          SessionThreads,  \* threads that run TCP NMEA sessions
          Wrap,            \* 2^32 ms, in ticks
          FlashTicks,      \* STATUS_LED_NMEA_ACTIVITY_FLASH_MS
          RetryInitial, RetryMax,  \* STATUS_LED_RETRY_INITIAL_MS, _MAX_MS
          MaxAttempts      \* UINT8_MAX

ASSUME LedAssumption == /\ {Wrap, FlashTicks, RetryInitial, RetryMax, MaxAttempts} \subseteq Nat \ {0}
                        /\ Wrap % 2 = 0 /\ 2 * FlashTicks < Wrap
                        /\ RetryInitial <= RetryMax
                        /\ UartThreads \cap SessionThreads = {}

Kinds == {"activity", "forwarded", "error"}
Reporters == UartThreads \cup SessionThreads

NoReport == [kind |-> "none", ms |-> 0]

VARIABLES elapsed_ms,   \* (uint32_t)(k_uptime_get() - status_led_started_ms)
          active_tcp_nmea_sessions, client_connecting,
          flash_active, flash_until_ms,      \* per kind
          status_led_wake,                   \* the semaphore
          rpc, report,       \* per reporter: where it is, and its locals
          ledPc, rendered, applied_rgb, failed_attempts,
          retry_in,     \* next_retry_ms - now_ms, or 0
          strip,        \* the state the LED shows steadily, or "other"
          age,          \* history: ticks since the last forwarded frame
          unseen        \* history: a report the thread has not rendered yet

policy == <<active_tcp_nmea_sessions, client_connecting, flash_active, flash_until_ms>>
led == <<ledPc, rendered, applied_rgb, failed_attempts>>
vars == <<elapsed_ms, policy, status_led_wake, rpc, report, led, retry_in, strip, age, unseen>>

Init == /\ elapsed_ms = 0
        /\ active_tcp_nmea_sessions = 0 /\ client_connecting = FALSE
        /\ flash_active = [k \in Kinds |-> FALSE]
        /\ flash_until_ms = [k \in Kinds |-> 0]
        /\ status_led_wake = 0
        /\ rpc = [r \in Reporters |-> IF r \in UartThreads THEN "in" ELSE "out"]
        /\ report = [r \in Reporters |-> NoReport]
        /\ ledPc = "turn" /\ rendered = "none" /\ applied_rgb = "none"
        /\ failed_attempts = 0 /\ retry_in = 0
        /\ strip = "other"
        /\ age = FlashTicks
        /\ unseen = FALSE

-----------------------------------------------------------------------------
(* status_led_policy.c.                                                    *)

(* active && (int32_t)(now_ms - until_ms) < 0.                             *)
flash_active_until(k) == /\ flash_active[k]
                         /\ (elapsed_ms - flash_until_ms[k]) % Wrap >= Wrap \div 2

base_state == IF active_tcp_nmea_sessions > 0 THEN "connected"
              ELSE IF client_connecting THEN IF elapsed_ms % 2 = 0 THEN "dim pulse" ELSE "bright pulse"
              ELSE "disconnected"

render == IF flash_active_until("error") THEN "error"
          ELSE IF flash_active_until("forwarded") THEN "forwarded"
          ELSE IF flash_active_until("activity") THEN "activity"
          ELSE base_state

-----------------------------------------------------------------------------
(* status_led_tcp_nmea_session_started, _ended and _client_connecting.     *)

session_started(r) ==
  /\ rpc[r] = "out" /\ rpc' = [rpc EXCEPT ![r] = "in"]
  /\ active_tcp_nmea_sessions' = active_tcp_nmea_sessions + 1
  /\ UNCHANGED <<elapsed_ms, client_connecting, flash_active, flash_until_ms, status_led_wake,
                 report, led, retry_in, strip, age, unseen>>

session_ended(r) ==
  /\ r \in SessionThreads /\ rpc[r] = "in" /\ rpc' = [rpc EXCEPT ![r] = "out"]
  /\ active_tcp_nmea_sessions' = IF active_tcp_nmea_sessions > 0
                                 THEN active_tcp_nmea_sessions - 1 ELSE 0
  /\ UNCHANGED <<elapsed_ms, client_connecting, flash_active, flash_until_ms, status_led_wake,
                 report, led, retry_in, strip, age, unseen>>

connecting(b) ==
  /\ client_connecting # b /\ client_connecting' = b
  /\ UNCHANGED <<elapsed_ms, active_tcp_nmea_sessions, flash_active, flash_until_ms,
                 status_led_wake, rpc, report, led, retry_in, strip, age, unseen>>

(* status_led_nmea_frame_received (UART thread), _frame_forwarded and      *)
(* _send_failed (sessions): the clock is read before the lock is taken ... *)
ReadClock(r, k) ==
  /\ rpc[r] = "in" /\ rpc' = [rpc EXCEPT ![r] = "record"]
  /\ (k = "activity") = (r \in UartThreads)
  /\ report' = [report EXCEPT ![r] = [kind |-> k, ms |-> elapsed_ms]]
  /\ UNCHANGED <<elapsed_ms, policy, status_led_wake, led, retry_in, strip, age, unseen>>

(* ... the policy records the flash ...                                    *)
Record(r) ==
  LET k == report[r].kind
  IN /\ rpc[r] = "record" /\ rpc' = [rpc EXCEPT ![r] = "give"]
     /\ flash_active' = [flash_active EXCEPT ![k] = TRUE]
     /\ flash_until_ms' = [flash_until_ms EXCEPT ![k] = (report[r].ms + FlashTicks) % Wrap]
     /\ report' = [report EXCEPT ![r] = NoReport]
     /\ age' = IF k = "forwarded" THEN 0 ELSE age
     /\ unseen' = TRUE
     /\ UNCHANGED <<elapsed_ms, active_tcp_nmea_sessions, client_connecting, status_led_wake,
                    led, retry_in, strip>>

(* ... and the LED thread is woken; the semaphore counts up to 1.          *)
GiveForgotten(r) ==
  /\ rpc[r] = "give" /\ rpc' = [rpc EXCEPT ![r] = "in"]
  /\ UNCHANGED <<elapsed_ms, policy, status_led_wake, report, led, retry_in, strip, age, unseen>>
Give(r) ==
  /\ rpc[r] = "give" /\ rpc' = [rpc EXCEPT ![r] = "in"]
  /\ status_led_wake' = 1
  /\ UNCHANGED <<elapsed_ms, policy, report, led, retry_in, strip, age, unseen>>

-----------------------------------------------------------------------------
(* status_led_thread.                                                      *)

Turn ==
  /\ ledPc = "turn"
  /\ unseen' = FALSE
  /\ IF render # applied_rgb /\ retry_in = 0
     THEN ledPc' = "update" /\ rendered' = render
     ELSE ledPc' = "sleep" /\ UNCHANGED rendered
  /\ UNCHANGED <<elapsed_ms, policy, status_led_wake, rpc, report, applied_rgb,
                 failed_attempts, retry_in, strip, age>>

Shown(colour) == IF colour \in {"connected", "disconnected"} THEN colour ELSE "other"

UpdateOk ==
  /\ ledPc = "update" /\ ledPc' = "sleep" /\ rendered' = "none"
  /\ strip' = Shown(rendered) /\ applied_rgb' = rendered
  /\ failed_attempts' = 0
  /\ UNCHANGED <<elapsed_ms, policy, status_led_wake, rpc, report, retry_in, age, unseen>>

(* status_led_retry_delay_ms: doubled failed_attempts - 1 times, capped.   *)
DelayUncapped(n) == RetryInitial * 2^(n - 1)
retry_delay_ms(n) == IF RetryInitial * 2^(n - 1) > RetryMax THEN RetryMax
                     ELSE RetryInitial * 2^(n - 1)

(* led_strip_update_rgb fails, before or after the pixel was shifted out.  *)
UpdateFailsCached ==
  /\ ledPc = "update" /\ ledPc' = "sleep" /\ rendered' = "none"
  /\ applied_rgb' = rendered
  /\ strip' \in {strip, Shown(rendered)}
  /\ UNCHANGED <<elapsed_ms, policy, status_led_wake, rpc, report,
                 failed_attempts, retry_in, age, unseen>>
UpdateFails ==
  /\ ledPc = "update" /\ ledPc' = "sleep" /\ rendered' = "none"
  /\ failed_attempts' = IF failed_attempts < MaxAttempts THEN failed_attempts + 1 ELSE MaxAttempts
  /\ retry_in' = retry_delay_ms(failed_attempts')
  /\ strip' \in {strip, Shown(rendered)}
  /\ UNCHANGED <<elapsed_ms, policy, status_led_wake, rpc, report, applied_rgb, age, unseen>>

(* k_sem_take(&status_led_wake, K_MSEC(STATUS_LED_UPDATE_MS)).             *)
Wake == /\ ledPc = "sleep" /\ ledPc' = "turn"
        /\ status_led_wake = 1 /\ status_led_wake' = 0
        /\ UNCHANGED <<elapsed_ms, policy, rpc, report, rendered, applied_rgb,
                       failed_attempts, retry_in, strip, age, unseen>>

(* A tick passes, and with it the timeout of k_sem_take.  Writing one      *)
(* pixel takes less than that.                                             *)
Tick ==
  /\ ledPc # "update"
  /\ ledPc' = IF ledPc = "sleep" THEN "turn" ELSE ledPc
  /\ elapsed_ms' = (elapsed_ms + 1) % Wrap
  /\ retry_in' = IF retry_in > 0 THEN retry_in - 1 ELSE 0
  /\ age' = IF age < FlashTicks THEN age + 1 ELSE FlashTicks
  /\ UNCHANGED <<policy, status_led_wake, rpc, report, rendered, applied_rgb,
                 failed_attempts, strip, unseen>>

Thread == Turn \/ UpdateOk \/ UpdateFails \/ Wake

Next == \/ \E r \in Reporters : \/ session_started(r) \/ session_ended(r)
                                \/ \E k \in Kinds : ReadClock(r, k)
                                \/ Record(r) \/ Give(r)
        \/ \E b \in BOOLEAN : connecting(b)
        \/ Thread
        \/ Tick

Spec == Init /\ [][Next]_vars

(* Time goes on, the thread gets its turns, and the strip does not fail    *)
(* for ever.                                                               *)
FairSpec == Spec /\ WF_vars(Tick) /\ WF_vars(Thread) /\ SF_vars(UpdateOk)

-----------------------------------------------------------------------------
(* Properties.                                                             *)

TypeOK ==
  /\ elapsed_ms \in 0..(Wrap - 1)
  /\ active_tcp_nmea_sessions \in 0..Cardinality(SessionThreads)
  /\ flash_until_ms \in [Kinds -> 0..(Wrap - 1)]
  /\ status_led_wake \in {0, 1}
  /\ failed_attempts \in 0..MaxAttempts
  /\ retry_in \in 0..RetryMax

(* A report does not have to wait for the 100 ms timeout, by which its     *)
(* flash would be over: while the thread sleeps and has not rendered it,   *)
(* the semaphore is up or about to be given.                               *)
NoLostWake == unseen /\ ledPc = "sleep" =>
                status_led_wake = 1 \/ \E r \in Reporters : rpc[r] = "give"

(* The cache of the last colour never hides a failed update: in the end    *)
(* the LED shows the steady state that is rendered, unless a flash or the  *)
(* pulse is rendered instead.  What is left out is an update that failed   *)
(* although it changed the pixel, after which the colour that was there    *)
(* before is rendered again: the cache holds that colour, and it is not    *)
(* written.                                                                *)
Steady == render \in {"connected", "disconnected"}
WriteLost == applied_rgb = render /\ failed_attempts > 0
LedCatchesUp == Steady ~> (~Steady \/ strip = render \/ WriteLost)

(* The LED shows "short-lived forwarding flashes" (ADR 0001, line 5): a    *)
(* flash is over when its time is.                                         *)
FlashIsShort == render = "forwarded" => age < FlashTicks
=============================================================================
