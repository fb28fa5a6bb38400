----------------------------- MODULE WifiManager -----------------------------
(***************************************************************************)
(* The station side of wireless_esp32: SettingsStore (two NVS strings),    *)
(* WifiManager and the wifi_credentials message of WirelessModule.         *)
(*                                                                         *)
(* Three tasks share the fields of WifiManager: the main task (initialize, *)
(* process), the service task (apply_station) and the event task           *)
(* (on_event).  The driver, the DHCP client, NVS and the power are         *)
(* external.  A string of NVS is known by the credentials it is part of;   *)
(* the length of the backoff is abstracted to "later".                     *)
(***************************************************************************)
EXTENDS Sequences, Naturals

CONSTANTS Creds,     \* credentials a client may send over secure BLE
          None,      \* no credentials, a string that is not stored
          MaxSteps,  \* updates and losses of power
          MaxFaults  \* calls of NVS or of the driver that fail

ASSUME NoneAssumption == None \notin Creds

VARIABLES main,     \* where the main task is, from boot on
          service,  \* where the service task is in handle_wifi_credentials()
          req,      \* the credentials it handles
          flash,    \* what NVS holds under "sta_ssid" and "sta_pass"
          staged,   \* strings that are set and not committed
          settings, \* settings_, as a pair of strings
          mgr,      \* station_configured_, reconnect_pending_, reconnect_at_ms_, state_
          driver,   \* mode, configuration, association; external
          events,   \* queue of the default event loop
          faults, steps,
          tried,    \* history: the driver has accepted a connect since boot, and
                    \* has not refused one of apply_station() since
          told      \* history: credentials last answered with 1, no update since

store == <<flash, staged, settings>>
air == <<driver, events>>
vars == <<main, service, req, store, mgr, air, faults, steps, tried, told>>

Keys == {"ssid", "pass"}
Pair(c) == [k \in Keys |-> c]
NoPair == Pair(None)

Fault == faults < MaxFaults /\ faults' = faults + 1
NoFault == UNCHANGED faults

PowerOn ==
    /\ main = "load" /\ service = "off" /\ req = None
    /\ settings = NoPair /\ staged = NoPair
    /\ mgr = [configured |-> FALSE, pending |-> FALSE, timer |-> "due", state |-> "stopped"]
    /\ driver = [apsta |-> FALSE, config |-> NoPair, joined |-> NoPair,
                 phase |-> "idle", lease |-> "none"]
    /\ events = <<>>
    /\ tried = FALSE

Init ==
    /\ PowerOn
    /\ flash \in {NoPair} \cup {Pair(c) : c \in Creds}
    /\ faults = 0 /\ steps = 0
    /\ told = None

\* The power fails: a string that was set may or may not be in the flash.
Reboot ==
    /\ steps < MaxSteps \/ main = "halted"
    /\ steps' = IF steps < MaxSteps THEN steps + 1 ELSE steps
    /\ \E written \in SUBSET {k \in Keys : staged[k] # None} :
          flash' = [k \in Keys |-> IF k \in written THEN staged[k] ELSE flash[k]]
    /\ main' = "load" /\ service' = "off" /\ req' = None
    /\ settings' = NoPair /\ staged' = NoPair
    /\ mgr' = [configured |-> FALSE, pending |-> FALSE, timer |-> "due", state |-> "stopped"]
    /\ driver' = [apsta |-> FALSE, config |-> NoPair, joined |-> NoPair,
                  phase |-> "idle", lease |-> "none"]
    /\ events' = <<>>
    /\ tried' = FALSE
    /\ UNCHANGED <<faults, told>>

-----------------------------------------------------------------------------
(* The driver: a connect is refused by a failing driver; a station that is *)
(* not idle answers ESP_ERR_WIFI_CONN, which the code takes as done.       *)

ConnectAccepted ==
    /\ NoFault
    /\ driver' = IF driver.phase = "idle"
                 THEN [driver EXCEPT !.phase = "trying", !.joined = driver.config]
                 ELSE driver
    /\ tried' = TRUE
    /\ UNCHANGED events

ConnectRefused == Fault /\ UNCHANGED air

Associate ==
    /\ driver.phase = "trying"
    /\ driver' = [driver EXCEPT !.phase = "up"]
    /\ events' = Append(events, "connected")
    /\ UNCHANGED <<main, service, req, store, mgr, faults, steps, tried, told>>

\* An attempt fails or an association ends.
Dissociate ==
    /\ driver.phase # "idle"
    /\ driver' = [driver EXCEPT !.phase = "idle"]
    /\ events' = Append(events, "disconnected")
    /\ UNCHANGED <<main, service, req, store, mgr, faults, steps, tried, told>>

\* The DHCP client runs until the disconnection is handled, not until it happens.
Lease ==
    /\ driver.lease = "asking"
    /\ driver' = [driver EXCEPT !.lease = "held"]
    /\ events' = Append(events, "got_ip")
    /\ UNCHANGED <<main, service, req, store, mgr, faults, steps, tried, told>>

-----------------------------------------------------------------------------
(* on_event() and, for the lease, the handlers of the network interface.   *)

Handle(kind) ==
    /\ events # <<>>
    /\ Head(events) = kind
    /\ events' = Tail(events)
    /\ UNCHANGED <<main, service, req, store, faults, steps, tried, told>>

OnStart ==
    /\ Handle("start")
    /\ mgr' = IF mgr.configured THEN [mgr EXCEPT !.pending = TRUE, !.timer = "due"] ELSE mgr
    /\ UNCHANGED driver

OnConnected ==
    /\ Handle("connected")
    /\ driver' = [driver EXCEPT !.lease = "asking"]
    /\ UNCHANGED mgr

\* Mutant: only an established connection is retried.
OnDisconnectedIfUp ==
    /\ Handle("disconnected")
    /\ driver' = [driver EXCEPT !.lease = "none"]
    /\ mgr' = IF mgr.configured /\ mgr.state = "connected"
              THEN [mgr EXCEPT !.pending = TRUE, !.timer = "later", !.state = "connecting"]
              ELSE mgr

OnDisconnected ==
    /\ Handle("disconnected")
    /\ driver' = [driver EXCEPT !.lease = "none"]
    /\ mgr' = IF mgr.configured
              THEN [mgr EXCEPT !.pending = TRUE, !.timer = "later", !.state = "connecting"]
              ELSE mgr

OnGotIp ==
    /\ Handle("got_ip")
    /\ mgr' = [mgr EXCEPT !.pending = FALSE, !.state = "connected"]
    /\ UNCHANGED driver

HandleEvent == OnStart \/ OnConnected \/ OnDisconnected \/ OnGotIp

BackoffOver ==
    /\ mgr.timer = "later"
    /\ mgr' = [mgr EXCEPT !.timer = "due"]
    /\ UNCHANGED <<main, service, req, store, air, faults, steps, tried, told>>

-----------------------------------------------------------------------------
(* The main task: load_station(), initialize(), then process() for ever.   *)

LoadStation ==
    /\ main = "load"
    /\ settings' = IF None \in {flash[k] : k \in Keys} THEN NoPair ELSE flash
    /\ main' = "start"
    /\ UNCHANGED <<service, req, flash, staged, mgr, air, faults, steps, tried, told>>

\* esp_wifi_set_mode(), esp_wifi_set_config() and esp_wifi_start()
StartDriver ==
    /\ main = "start"
    /\ \/ /\ NoFault
          /\ driver' = [driver EXCEPT !.apsta = settings # NoPair, !.config = settings]
          /\ events' = IF settings # NoPair THEN Append(events, "start") ELSE events
          /\ main' = "adopt"
       \/ Fault /\ main' = "halted" /\ UNCHANGED air
    /\ UNCHANGED <<service, req, store, mgr, steps, tried, told>>

\* station_configured_ is set after the driver runs; the service task comes last.
AdoptStation ==
    /\ main = "adopt"
    /\ mgr' = [mgr EXCEPT !.configured = settings # NoPair,
                          !.state = IF settings # NoPair THEN "connecting" ELSE "ap_only"]
    /\ main' = "check"
    /\ service' = "idle"
    /\ UNCHANGED <<req, store, air, faults, steps, tried, told>>

CheckReconnect ==
    /\ main = "check"
    /\ mgr.pending /\ mgr.configured /\ mgr.timer = "due"
    /\ main' = "clear"
    /\ UNCHANGED <<service, req, store, mgr, air, faults, steps, tried, told>>

ClearPending ==
    /\ main = "clear"
    /\ mgr' = [mgr EXCEPT !.pending = FALSE]
    /\ main' = "connecting"
    /\ UNCHANGED <<service, req, store, air, faults, steps, tried, told>>

SetConnecting ==
    /\ main = "connecting"
    /\ mgr' = [mgr EXCEPT !.state = "connecting"]
    /\ main' = "connect"
    /\ UNCHANGED <<service, req, store, air, faults, steps, tried, told>>

Reconnect ==
    /\ main = "connect"
    /\ main' = "check"
    /\ \/ ConnectAccepted /\ UNCHANGED mgr
       \/ /\ ConnectRefused
          /\ mgr' = [mgr EXCEPT !.pending = TRUE, !.timer = "later"]
          /\ UNCHANGED tried
    /\ UNCHANGED <<service, req, store, steps, told>>

Process == CheckReconnect \/ ClearPending \/ SetConnecting \/ Reconnect

-----------------------------------------------------------------------------
(* The service task: one wifi_credentials message of the secure BLE link.  *)

Update ==
    /\ service = "idle"
    /\ steps < MaxSteps
    /\ steps' = steps + 1
    /\ req' \in Creds
    /\ service' = "ssid"
    /\ told' = None
    /\ UNCHANGED <<main, store, mgr, air, faults, tried>>

\* nvs_set_str(): a call that fails may have set the string.
SetString(key, next) ==
    /\ service = key
    /\ LET Set == staged' = [staged EXCEPT ![key] = req]
       IN \/ NoFault /\ Set /\ service' = next
          \/ Fault /\ (Set \/ UNCHANGED staged) /\ service' = "idle"
    /\ UNCHANGED <<main, req, flash, settings, mgr, air, steps, tried, told>>

Committed == [k \in Keys |-> IF staged[k] = None THEN flash[k] ELSE staged[k]]

\* Mutant: the strings are used without nvs_commit().
CommitLater ==
    /\ service = "commit"
    /\ NoFault
    /\ settings' = Pair(req) /\ service' = "mode"
    /\ UNCHANGED <<main, req, flash, staged, mgr, air, steps, tried, told>>

\* nvs_commit(), and the copy of the strings to settings_
Commit ==
    /\ service = "commit"
    /\ \/ /\ NoFault
          /\ flash' = Committed /\ staged' = NoPair
          /\ settings' = Pair(req) /\ service' = "mode"
       \/ Fault /\ service' = "idle" /\ UNCHANGED store
    /\ UNCHANGED <<main, req, mgr, air, steps, tried, told>>

\* apply_station(): esp_wifi_set_mode(WIFI_MODE_APSTA) starts the station once.
SetMode ==
    /\ service = "mode"
    /\ \/ /\ NoFault
          /\ driver' = [driver EXCEPT !.apsta = TRUE]
          /\ events' = IF driver.apsta THEN events ELSE Append(events, "start")
          /\ service' = "config"
       \/ Fault /\ service' = "idle" /\ UNCHANGED air
    /\ UNCHANGED <<main, req, store, mgr, steps, tried, told>>

\* configure_station(): the driver may refuse it during an attempt.
ConfigureStation ==
    /\ service = "config"
    /\ \/ /\ NoFault
          /\ driver' = [driver EXCEPT !.config = settings]
          /\ service' = "configured"
       \/ /\ Fault \/ (driver.phase = "trying" /\ NoFault)
          /\ service' = "idle"
          /\ UNCHANGED driver
    /\ UNCHANGED <<main, req, store, mgr, events, steps, tried, told>>

SetConfigured ==
    /\ service = "configured"
    /\ mgr' = [mgr EXCEPT !.configured = TRUE]
    /\ service' = "state"
    /\ UNCHANGED <<main, req, store, air, faults, steps, tried, told>>

\* Mutant: the old association is not ended.
SetStateAndConnect ==
    /\ service = "state"
    /\ mgr' = [mgr EXCEPT !.state = "connecting"]
    /\ service' = "connect"
    /\ UNCHANGED <<main, req, store, air, faults, steps, tried, told>>

SetState ==
    /\ service = "state"
    /\ mgr' = [mgr EXCEPT !.state = "connecting"]
    /\ service' = "disconnect"
    /\ UNCHANGED <<main, req, store, air, faults, steps, tried, told>>

\* The result of esp_wifi_disconnect() is not looked at.
Disconnect ==
    /\ service = "disconnect"
    /\ service' = "connect"
    /\ \/ /\ NoFault
          /\ driver' = [driver EXCEPT !.phase = "idle"]
          /\ events' = IF driver.phase = "idle" THEN events ELSE Append(events, "disconnected")
       \/ Fault /\ UNCHANGED air
    /\ UNCHANGED <<main, req, store, mgr, steps, tried, told>>

\* The answer is 1 exactly after a connect that is not refused.
ConnectAndAnswer ==
    /\ service = "connect"
    /\ service' = "idle"
    /\ \/ ConnectAccepted /\ told' = req
       \/ ConnectRefused /\ tried' = FALSE /\ UNCHANGED told
    /\ UNCHANGED <<main, req, store, mgr, steps>>

Apply == SetString("ssid", "pass") \/ SetString("pass", "commit") \/ Commit \/ SetMode
         \/ ConfigureStation \/ SetConfigured \/ SetState \/ Disconnect \/ ConnectAndAnswer

-----------------------------------------------------------------------------
Startup == LoadStation \/ StartDriver \/ AdoptStation

Next == \/ Reboot
        \/ Associate \/ Dissociate \/ Lease
        \/ OnStart \/ OnConnected \/ OnDisconnected \/ OnGotIp \/ BackoffOver
        \/ LoadStation \/ StartDriver \/ AdoptStation
        \/ CheckReconnect \/ ClearPending \/ SetConnecting \/ Reconnect
        \/ Update \/ SetString("ssid", "pass") \/ SetString("pass", "commit")
        \/ Commit \/ SetMode \/ ConfigureStation \/ SetConfigured \/ SetState
        \/ Disconnect \/ ConnectAndAnswer

\* Each task runs and the clock goes on; the air and the clients owe nothing.
Fairness ==
    /\ WF_vars(Startup) /\ WF_vars(Process)
    /\ WF_vars(HandleEvent)
    /\ WF_vars(BackoffOver)
    /\ WF_vars(Apply)

Spec == Init /\ [][Next]_vars /\ Fairness

-----------------------------------------------------------------------------
Strings == [Keys -> Creds \cup {None}]
Managers == [configured : BOOLEAN, pending : BOOLEAN, timer : {"due", "later"},
             state : {"stopped", "ap_only", "connecting", "connected"}]
Drivers == [apsta : BOOLEAN, config : Strings, joined : Strings,
            phase : {"idle", "trying", "up"}, lease : {"none", "asking", "held"}]
Kinds == {"start", "connected", "disconnected", "got_ip"}

\* The fields of the three tasks, NVS and the driver have the values that the
\* code gives them.
TypeOK ==
    /\ main \in {"load", "start", "adopt", "check", "clear", "connecting", "connect", "halted"}
    /\ service \in {"off", "idle", "ssid", "pass", "commit", "mode", "config",
                    "configured", "state", "disconnect", "connect"}
    /\ req \in Creds \cup {None} /\ told \in Creds \cup {None}
    /\ flash \in Strings /\ staged \in Strings /\ settings \in Strings
    /\ mgr \in Managers
    /\ driver \in Drivers
    /\ events \in Seq(Kinds)
    /\ faults \in Nat
    /\ tried \in BOOLEAN

\* Credentials that were answered with 1 are what the flash holds, both
\* strings of them, and what a boot loads, whenever the power fails, until a
\* client sends others (update_station() and load_station()).
AppliedPairBoots ==
    told # None => /\ \A k \in Keys : flash[k] = told /\ staged[k] = None
                   /\ main # "load" => settings = Pair(told)

\* After an answer of 1 the station is in no other network than the one that
\* was asked for, although process() may call the driver between any two calls
\* of apply_station(); unless a call of the driver has failed.
AppliedIsJoined ==
    (told # None /\ faults = 0 /\ driver.phase # "idle") => driver.joined = Pair(told)

Down == driver.phase = "idle" /\ mgr.configured /\ mgr.state = "connecting"

\* Once the driver has accepted an attempt, a station that knows it is not
\* connected tries again, whatever the order of events, process() and
\* apply_station(); unless apply_station() is refused its connect, which is
\* answered with 0 and may leave nothing pending.
AttemptsContinue == (Down /\ tried) ~> (~Down \/ ~tried)

\* "Station reconnect uses a ... capped backoff": a station that says it is
\* connecting tries to connect, also after a boot with stored credentials.
ConnectingTries == Down ~> ~Down
=============================================================================
