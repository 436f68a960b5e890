-------------------------------- MODULE Boot --------------------------------
(***************************************************************************)
(* src/src/main.c and the *_start functions it calls: the order in which   *)
(* the parts of the program come up, composed with the Wi-Fi manager.      *)
(*                                                                         *)
(* Static threads (dispatcher, statistics, Wi-Fi retry) exist before main  *)
(* runs, the others once their *_start has created them.  Whatever their   *)
(* priorities, any of them may run between two steps of main.  Two mutexes *)
(* are set up by the program while it comes up; a thread that took one     *)
(* before would take it twice.                                             *)
(***************************************************************************)
EXTENDS WifiManager

VARIABLES mainPc,   \* main
          running,  \* the threads that exist
          inits,    \* the mutexes that have been initialised
          ingest,   \* a frame waits for the dispatcher
          early     \* history: mutexes taken before they were initialised

bootVars == <<mainPc, running, inits, ingest, early>>
vars == <<wifiVars, bootVars>>

Init == /\ WifiInit
        /\ mainPc = "bridge"
        /\ running = {"dispatcher", "stats", "retry"}
        /\ inits = {} /\ ingest = FALSE /\ early = {}

-----------------------------------------------------------------------------
(* main, one step for each call.                                           *)

MainStep(from, to) == mainPc = from /\ mainPc' = to /\ UNCHANGED <<ingest, early>>

InitBridge == /\ MainStep("bridge", "led")
              /\ inits' = inits \cup {"sinks_lock"}
              /\ UNCHANGED <<wifiVars, running>>

(* status_led_start: without a strip, or one that is not ready, there is   *)
(* no LED thread.                                                          *)
StartLed == /\ MainStep("led", "uart")
            /\ running' \in {running, running \cup {"led"}}
            /\ UNCHANGED <<wifiVars, inits>>

(* uart_nmea_start: a UART that is not ready is the end of main.           *)
StartUart == /\ MainStep("uart", "sleep")
             /\ running' = running \cup {"uart"}
             /\ UNCHANGED <<wifiVars, inits>>
UartNotReady == /\ MainStep("uart", "failed")
                /\ UNCHANGED <<wifiVars, running, inits>>

(* Five seconds of sleep, then wifi_manager_start.                         *)
CallWifi == /\ MainStep("sleep", "wifi")
            /\ CallStart
            /\ UNCHANGED <<running, inits>>

WifiErrorIsFatal == /\ pc["main"] = "done"
                    /\ MainStep("wifi", IF ret THEN "failed" ELSE "server")
                    /\ UNCHANGED <<wifiVars, running, inits>>
WifiReturned == /\ pc["main"] = "done"
                /\ MainStep("wifi", "server")
                /\ UNCHANGED <<wifiVars, running, inits>>

(* tcp_nmea_server_start, tcp_nmea_client_start and web_app_start, which   *)
(* do nothing when configured out.  The first sets up its mutex before it  *)
(* creates its thread.                                                     *)
ServerDisabled == /\ ~config.server /\ MainStep("server", "client")
                  /\ UNCHANGED <<wifiVars, running, inits>>
ThreadBeforeLock == /\ config.server /\ MainStep("server", "thread")
                    /\ running' = running \cup {"server"}
                    /\ UNCHANGED <<wifiVars, inits>>
InitClientsLock == /\ config.server /\ MainStep("server", "thread")
                   /\ inits' = inits \cup {"clients_lock"}
                   /\ UNCHANGED <<wifiVars, running>>
StartServer == /\ MainStep("thread", "client")
               /\ running' = running \cup {"server"}
               /\ UNCHANGED <<wifiVars, inits>>
StartClient == /\ MainStep("client", "web")
               /\ running' = running \cup (IF config.client THEN {"client"} ELSE {})
               /\ UNCHANGED <<wifiVars, inits>>
StartWeb == /\ MainStep("web", "done")
            /\ running' = running \cup (IF config.web THEN {"web"} ELSE {})
            /\ UNCHANGED <<wifiVars, inits>>

Main == \/ InitBridge \/ StartLed \/ StartUart \/ UartNotReady \/ CallWifi
        \/ WifiReturned \/ ServerDisabled \/ InitClientsLock \/ StartServer \/ StartClient \/ StartWeb

-----------------------------------------------------------------------------
(* What the threads do that depends on main: the locks they take.          *)

(* The UART thread publishes a frame, the dispatcher distributes it under  *)
(* sinks_lock.                                                             *)
Publish == /\ "uart" \in running /\ ~ingest /\ ingest' = TRUE
           /\ UNCHANGED <<wifiVars, mainPc, running, inits, early>>

Takes(lock) == early' = early \cup ({lock} \ inits)

Dispatch == /\ ingest /\ ingest' = FALSE /\ Takes("sinks_lock")
            /\ UNCHANGED <<wifiVars, mainPc, running, inits>>

(* A session, of the server's threads or the client, opens its sink;       *)
(* server_thread looks for a slot; the web server counts the slots in use. *)
Session == /\ running \cap {"server", "client"} # {} /\ Takes("sinks_lock")
           /\ UNCHANGED <<wifiVars, mainPc, running, inits, ingest>>
AllocSlot == /\ "server" \in running /\ Takes("clients_lock")
             /\ UNCHANGED <<wifiVars, mainPc, running, inits, ingest>>
CountSlots == /\ "web" \in running /\ Takes("clients_lock")
              /\ UNCHANGED <<wifiVars, mainPc, running, inits, ingest>>

Thread == Publish \/ Dispatch \/ Session \/ AllocSlot \/ CountSlots

-----------------------------------------------------------------------------
Wifi == \/ Driver \/ EventThread \/ RetryThread
        \/ mainPc = "wifi" /\ StartWifi
        \/ \E r \in Readers \cap running : Reader(r)

Next == \/ Main
        \/ Thread
        \/ Wifi /\ UNCHANGED bootVars

Spec == Init /\ [][Next]_vars

(* The threads go on; the driver answers every request it has accepted.    *)
(* The event thread may have to wait for readers at its lower priority,    *)
(* but they sleep between two calls, so it is not starved: hence SF.       *)
Fairness == /\ WF_vars(Main)
            /\ WF_vars(StartWifi /\ UNCHANGED bootVars)
            /\ WF_vars(RetryThread /\ UNCHANGED bootVars)
            /\ SF_vars(EventThread /\ UNCHANGED bootVars)
            /\ WF_vars((ConnectSucceeds \/ ConnectFails) /\ UNCHANGED bootVars)
            /\ \A r \in Readers : WF_vars((Search(r) \/ Mark(r) \/ MarkAddr(r)) /\ UNCHANGED bootVars)

FairSpec == Spec /\ Fairness

-----------------------------------------------------------------------------
(* Properties.                                                             *)

(* Types, those of the Wi-Fi manager included; wifi_manager_start runs     *)
(* once, inside main.                                                      *)
TypeOK ==
  /\ WifiTypeOK
  /\ mainPc \in {"bridge", "led", "uart", "sleep", "wifi", "server", "thread", "client", "web",
                 "done", "failed"}
  /\ mainPc \in {"bridge", "led", "uart", "sleep"} => pc["main"] = "before"
  /\ mainPc \in {"server", "thread", "client", "web", "done"} => pc["main"] = "done"
  /\ running \subseteq {"dispatcher", "stats", "retry", "led", "uart", "server", "client", "web"}
  /\ inits \subseteq {"sinks_lock", "clients_lock"}
  /\ ingest \in BOOLEAN
  /\ early \subseteq {"sinks_lock", "clients_lock"}

(* No mutex is used before it is initialised.  The exception is the one of *)
(* the server's slots when the server is configured out: nothing ever      *)
(* initialises it, and the web server, alone with it, takes it all the     *)
(* same.                                                                   *)
InitBeforeUse == /\ "sinks_lock" \notin early
                 /\ config.server => "clients_lock" \notin early

(* "UART ingestion continues" (main.c:62): once the UART runs, every part  *)
(* that is configured comes up, whatever of the Wi-Fi failed.              *)
Configured == {s \in {"server", "client", "web"} : config[s]}
BootCompletes == ("uart" \in running) ~> (Configured \subseteq running)
=============================================================================
