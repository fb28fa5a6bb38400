----------------------------- MODULE StationLink -----------------------------
(***************************************************************************)
(* WifiTransport of m5_sticks3 (connectivity/src/wifi_transport.cpp), the  *)
(* station side of the radio, and what it runs on: the Wi-Fi driver, the   *)
(* network interface and the default event loop.  Two tasks work on it.    *)
(* The owner (Service::process) calls process(), set_enabled(),            *)
(* configure() and the others one after the other; the event task hands    *)
(* the events of the driver to the interface and then to on_event(), in    *)
(* the order they were posted, at any moment between two calls of the      *)
(* owner.  So an event may speak of a station that is gone.                *)
(*                                                                         *)
(* Calls that fail are counted in faults.  This module has the operations; *)
(* RadioMemory has the owner that calls them.                              *)
(***************************************************************************)
EXTENDS Naturals, Sequences

CONSTANTS Creds,      \* WifiCredentials: a network and a password
          NoCred,     \* empty credentials
          Ssid,       \* the network of each credentials
          MaxBacklog, \* events that wait while a timer runs out or the air changes
          MaxFaults   \* calls of the driver and of NVS that fail

ASSUME CredsAssumption == NoCred \notin Creds

\* The interface's address carries the credentials it was obtained with.
VARIABLES link,   \* state_, diagnostics_ and the fields around them
          scan,   \* scan_in_flight_, scan_done_pending_, scan_cancelled_, deadline over
          driver, \* the Wi-Fi driver
          netif,  \* the station's network interface and its DHCP client
          events, \* posted and not yet handled
          faults  \* calls that have failed so far

linkVars == <<link, scan, driver, netif, events, faults>>

Named == [c \in Creds \cup {NoCred} |-> IF c = NoCred THEN NoCred ELSE Ssid[c]]

LinkStates == {"stopped", "access_point", "connecting", "connected",
               "retry_wait", "failed"}

Links == [radio : {"off", "attempted", "on"}, enabled : BOOLEAN, station : BOOLEAN,
          started : BOOLEAN, state : LinkStates, address : BOOLEAN,
          ssid : {Named[c] : c \in Creds \cup {NoCred}},
          next : {"none", "later", "due"}, deadline : {"none", "running", "over"}]
Scans == [flying : BOOLEAN, done : BOOLEAN, cancelled : BOOLEAN, late : BOOLEAN]
Drivers == [on : BOOLEAN, apsta : BOOLEAN, cred : Creds \cup {NoCred},
            phase : {"idle", "trying", "up"}, scanning : BOOLEAN]
Netifs == [dhcp : BOOLEAN, answer : Creds \cup {NoCred}, ip : Creds \cup {NoCred},
           losing : BOOLEAN]
Events == {"start", "stop", "connected", "disconnected", "got_ip", "lost_ip", "scan_done"}

LinkTypeOK ==
    /\ link \in Links /\ scan \in Scans /\ driver \in Drivers /\ netif \in Netifs
    /\ events \in Seq(Events)
    /\ faults \in Nat

\* A call of the driver or of NVS that the environment lets fail.
Fault == faults < MaxFaults /\ faults' = faults + 1
NoFault == faults' = faults

-----------------------------------------------------------------------------
(* Before and after start().                                               *)

NoScan == [flying |-> FALSE, done |-> FALSE, cancelled |-> FALSE, late |-> FALSE]
NoNetif == [dhcp |-> FALSE, answer |-> NoCred, ip |-> NoCred, losing |-> FALSE]

NoLink == [radio |-> "off", enabled |-> FALSE, station |-> FALSE, started |-> FALSE,
           state |-> "stopped", address |-> FALSE, ssid |-> NoCred,
           next |-> "none", deadline |-> "none"]
NoDriver == [on |-> FALSE, apsta |-> FALSE, cred |-> NoCred,
             phase |-> "idle", scanning |-> FALSE]

LinkDown ==
    /\ link = NoLink /\ scan = NoScan /\ driver = NoDriver /\ netif = NoNetif
    /\ events = <<>>

LinkLost ==
    /\ link' = NoLink /\ scan' = NoScan /\ driver' = NoDriver /\ netif' = NoNetif
    /\ events' = <<>>

\* start() with the credentials the service has loaded.
Start(c) ==
    /\ link' = [radio |-> "on", enabled |-> TRUE, station |-> c # NoCred,
                started |-> FALSE,
                state |-> IF c = NoCred THEN "access_point" ELSE "connecting",
                address |-> FALSE, ssid |-> Named[c],
                next |-> "none", deadline |-> "none"]
    /\ scan' = NoScan
    /\ driver' = [on |-> TRUE, apsta |-> TRUE, cred |-> c,
                  phase |-> "idle", scanning |-> FALSE]
    /\ netif' = NoNetif
    /\ events' = <<"start">>

-----------------------------------------------------------------------------
(* The event task: the default handler of the interface, then on_event().  *)

\* schedule_retry_locked()
Retry(l) ==
    IF ~l.station \/ ~l.enabled \/ l.state = "retry_wait" THEN l
    ELSE [l EXCEPT !.state = "retry_wait", !.address = FALSE,
                   !.deadline = "none", !.next = "later"]

Handle(kind) ==
    /\ events # <<>>
    /\ Head(events) = kind
    /\ events' = Tail(events)
    /\ UNCHANGED <<driver, faults>>

\* The interface goes down: DHCP ends, and a timer runs if an address is lost.
InterfaceDown == [dhcp |-> FALSE, answer |-> NoCred, ip |-> NoCred,
                  losing |-> netif.losing \/ netif.ip # NoCred]

OnStart ==
    /\ Handle("start")
    /\ link' = CASE ~link.enabled -> link
                 [] link.enabled /\ link.station ->
                      [link EXCEPT !.started = TRUE, !.state = "connecting", !.next = "due"]
                 [] OTHER -> [link EXCEPT !.started = TRUE]
    /\ UNCHANGED <<scan, netif>>

OnStop ==
    /\ Handle("stop")
    /\ netif' = InterfaceDown
    /\ link' = IF ~link.enabled THEN link
               ELSE [link EXCEPT !.started = FALSE, !.next = "none",
                                 !.deadline = "none", !.address = FALSE,
                                 !.state = IF link.station THEN "connecting"
                                           ELSE "access_point"]
    /\ UNCHANGED scan

\* on_event() only notes the channel.
OnConnected ==
    /\ Handle("connected")
    /\ netif' = [netif EXCEPT !.dhcp = TRUE]
    /\ UNCHANGED <<link, scan>>

OnDisconnected ==
    /\ Handle("disconnected")
    /\ netif' = InterfaceDown
    /\ link' = IF link.enabled /\ link.station /\ link.started THEN Retry(link) ELSE link
    /\ UNCHANGED scan

OnGotIp ==
    /\ Handle("got_ip")
    /\ link' = IF link.enabled /\ link.station /\ link.started
               THEN [link EXCEPT !.address = TRUE, !.state = "connected",
                                 !.next = "none", !.deadline = "none"]
               ELSE link
    /\ UNCHANGED <<scan, netif>>

\* Mutant: a lost address is left to the driver's own events.
OnLostIpIgnored ==
    /\ Handle("lost_ip")
    /\ UNCHANGED <<link, scan, netif>>

OnLostIp ==
    /\ Handle("lost_ip")
    /\ link' = IF link.enabled /\ link.station /\ link.started /\ link.state = "connected"
               THEN [link EXCEPT !.state = "connecting", !.address = FALSE,
                                 !.deadline = "running"]
               ELSE link
    /\ UNCHANGED <<scan, netif>>

\* The result of a scan is noted also while the radio is being turned off.
OnScanDone ==
    /\ Handle("scan_done")
    /\ scan' = [scan EXCEPT !.done = @ \/ scan.flying]
    /\ UNCHANGED <<link, netif>>

HandleEvent == OnStart \/ OnStop \/ OnConnected \/ OnDisconnected \/ OnGotIp
               \/ OnLostIp \/ OnScanDone

-----------------------------------------------------------------------------
(* The driver, the air and the clock.  They are slow against the event     *)
(* task: at most MaxBacklog events wait when one of these steps is taken.  *)

Unhurried == Len(events) <= MaxBacklog

Post(kind) == events' = Append(events, kind)

Associate ==
    /\ Unhurried
    /\ driver.phase = "trying"
    /\ driver' = [driver EXCEPT !.phase = "up"]
    /\ Post("connected")
    /\ UNCHANGED <<link, scan, netif, faults>>

\* An attempt fails or an association ends.
Dissociate ==
    /\ Unhurried
    /\ driver.phase # "idle"
    /\ driver' = [driver EXCEPT !.phase = "idle"]
    /\ Post("disconnected")
    /\ UNCHANGED <<link, scan, netif, faults>>

\* The network that the station is associated with answers the DHCP client.
Answer ==
    /\ driver.phase = "up"
    /\ netif.dhcp /\ netif.answer = NoCred /\ netif.ip = NoCred
    /\ netif' = [netif EXCEPT !.answer = driver.cred]
    /\ UNCHANGED <<link, scan, driver, events, faults>>

\* The DHCP client has read the answer, in its own time, and has an address.
Lease ==
    /\ netif.answer # NoCred
    /\ netif' = [netif EXCEPT !.answer = NoCred, !.ip = netif.answer]
    /\ Post("got_ip")
    /\ UNCHANGED <<link, scan, driver, faults>>

LeaseEnds ==
    /\ Unhurried
    /\ netif.ip # NoCred
    /\ netif' = [netif EXCEPT !.ip = NoCred, !.losing = TRUE]
    /\ UNCHANGED <<link, scan, driver, events, faults>>

\* The interface reports the loss unless it has an address again.
AddressLost ==
    /\ Unhurried
    /\ netif.losing
    /\ netif' = [netif EXCEPT !.losing = FALSE]
    /\ IF netif.ip # NoCred THEN UNCHANGED events ELSE Post("lost_ip")
    /\ UNCHANGED <<link, scan, driver, faults>>

ScanEnds ==
    /\ Unhurried
    /\ driver.scanning
    /\ driver' = [driver EXCEPT !.scanning = FALSE]
    /\ Post("scan_done")
    /\ UNCHANGED <<link, scan, netif, faults>>

BackoffOver ==
    /\ Unhurried
    /\ link.next = "later"
    /\ link' = [link EXCEPT !.next = "due"]
    /\ UNCHANGED <<scan, driver, netif, events, faults>>

ConnectDeadline ==
    /\ Unhurried
    /\ link.deadline = "running"
    /\ link' = [link EXCEPT !.deadline = "over"]
    /\ UNCHANGED <<scan, driver, netif, events, faults>>

ScanDeadline ==
    /\ Unhurried
    /\ scan.flying
    /\ ~scan.late
    /\ scan' = [scan EXCEPT !.late = TRUE]
    /\ UNCHANGED <<link, driver, netif, events, faults>>

Environment == Associate \/ Dissociate \/ Answer \/ Lease \/ LeaseEnds \/ AddressLost
               \/ ScanEnds \/ BackoffOver \/ ConnectDeadline \/ ScanDeadline

-----------------------------------------------------------------------------
(* Calls of the driver.                                                    *)

\* What the driver posts when its station interface stops and starts.
StopEvents ==
    IF ~driver.on \/ ~driver.apsta THEN <<>>
    ELSE (IF driver.scanning THEN <<"scan_done">> ELSE <<>>)
         \o (IF driver.phase # "idle" THEN <<"disconnected">> ELSE <<>>)
         \o <<"stop">>

\* esp_wifi_disconnect()
DriverDisconnect ==
    /\ driver' = [driver EXCEPT !.phase = "idle"]
    /\ events' = IF driver.phase = "idle" THEN events
                 ELSE Append(events, "disconnected")

\* esp_wifi_scan_stop() posts SCAN_DONE like a completed scan.
DriverScanStop ==
    /\ driver' = [driver EXCEPT !.scanning = FALSE]
    /\ events' = IF driver.scanning THEN Append(events, "scan_done") ELSE events

-----------------------------------------------------------------------------
(* process(): what it does about a scan and a connection, up to the call of *)
(* the driver it decides on.                                               *)

\* Mutant: a scan that takes too long is given up at once.
ScanTimeoutForgets ==
    /\ scan.flying /\ ~scan.cancelled /\ ~scan.done /\ scan.late
    /\ scan' = NoScan
    /\ UNCHANGED <<link, netif, driver, events, faults>>

\* cancel_scan() by process(); no connection is looked at while a scan is in flight.
ScanTimeout ==
    /\ scan.flying /\ ~scan.cancelled /\ ~scan.done /\ scan.late
    /\ scan' = [scan EXCEPT !.cancelled = TRUE]
    /\ \/ NoFault /\ DriverScanStop
       \/ Fault /\ UNCHANGED <<driver, events>>
    /\ UNCHANGED <<link, netif>>

ScanCollected == IF scan.flying /\ scan.done THEN NoScan ELSE scan

StationFree ==
    /\ link.enabled /\ link.radio = "on"
    /\ link.station /\ link.started
    /\ ~ScanCollected.flying

ConnectIsDue == StationFree /\ link.next = "due"
AttemptExpired == StationFree /\ link.next # "due" /\ link.deadline = "over"

BeginAttempt ==
    /\ ConnectIsDue
    /\ scan' = ScanCollected
    /\ link' = [link EXCEPT !.next = "none", !.deadline = "running", !.state = "connecting"]
    /\ UNCHANGED <<driver, netif, events, faults>>

EndAttempt ==
    /\ AttemptExpired
    /\ scan' = ScanCollected
    /\ link' = Retry(link)
    /\ UNCHANGED <<driver, netif, events, faults>>

NothingDue ==
    /\ ~(scan.flying /\ ~scan.cancelled /\ ~scan.done /\ scan.late)
    /\ ~ConnectIsDue
    /\ ~AttemptExpired
    /\ scan' = ScanCollected
    /\ UNCHANGED <<link, driver, netif, events, faults>>

\* esp_wifi_connect(): a station that is already connecting or connected may
\* refuse it or take it as done.
CallConnect ==
    /\ \/ /\ driver.phase = "idle"
          /\ driver' = [driver EXCEPT !.phase = "trying"]
          /\ UNCHANGED <<link, faults>>
       \/ driver.phase # "idle" /\ UNCHANGED <<link, driver, faults>>
       \/ driver.phase # "idle" /\ link' = Retry(link) /\ UNCHANGED <<driver, faults>>
       \/ Fault /\ link' = Retry(link) /\ UNCHANGED driver
    /\ UNCHANGED <<scan, netif, events>>

\* esp_wifi_disconnect() after the deadline; its result is only logged.
CallDisconnect ==
    /\ \/ NoFault /\ DriverDisconnect
       \/ Fault /\ UNCHANGED <<driver, events>>
    /\ UNCHANGED <<link, scan, netif>>

-----------------------------------------------------------------------------
(* Calls of the owner.  ok is what they return.                            *)

\* configuration_ready()
Ready == \/ link.radio = "on" /\ link.enabled /\ ~scan.flying
         \/ link.radio = "off" /\ ~link.enabled

\* disconnect_station()
DisconnectStation(ok) ==
    IF link.radio # "on" \/ ~link.enabled \/ scan.flying
    THEN ~ok /\ UNCHANGED linkVars
    ELSE /\ link' = [link EXCEPT !.station = FALSE, !.next = "none", !.deadline = "none",
                                 !.address = FALSE,
                                 !.state = IF ok THEN "access_point" ELSE "failed"]
         /\ IF ok THEN NoFault /\ DriverDisconnect
                  ELSE Fault /\ UNCHANGED <<driver, events>>
         /\ UNCHANGED <<scan, netif>>

\* set_enabled(true): the driver may fail to start, and then to stop; the power
\* saving mode may be refused after the radio is on.
Enable(ok) ==
    IF link.enabled /\ link.radio = "on" THEN ok /\ UNCHANGED linkVars
    ELSE
      LET Fresh == [link EXCEPT !.enabled = TRUE, !.started = FALSE, !.next = "none",
                                !.deadline = "none",
                                !.state = IF link.station THEN "connecting"
                                          ELSE "access_point"]
      IN /\ IF ok THEN NoFault ELSE Fault
         /\ \/ /\ link' = [Fresh EXCEPT !.radio = "on"]
               /\ driver' = [driver EXCEPT !.on = TRUE]
               /\ IF driver.apsta THEN Post("start") ELSE UNCHANGED events
            \/ /\ ~ok
               /\ \E retained \in BOOLEAN :
                     link' = [Fresh EXCEPT !.radio = IF retained THEN "attempted" ELSE "off",
                                           !.enabled = retained, !.state = "failed"]
               /\ UNCHANGED <<driver, events>>
         /\ UNCHANGED <<scan, netif>>

AlreadyDisabled == ~link.enabled /\ link.radio # "on"

\* set_enabled(false): cancel_scan(), then esp_wifi_stop().
Disable ==
    IF AlreadyDisabled THEN UNCHANGED linkVars
    ELSE /\ NoFault
         /\ scan' = [scan EXCEPT !.cancelled = @ \/ scan.flying]
         /\ link' = [link EXCEPT !.radio = "off", !.enabled = FALSE, !.started = FALSE,
                                 !.state = "stopped", !.address = FALSE,
                                 !.next = "none", !.deadline = "none"]
         /\ driver' = [driver EXCEPT !.on = FALSE, !.phase = "idle", !.scanning = FALSE]
         /\ events' = events \o StopEvents
         /\ UNCHANGED netif

\* set_enabled(false) when the driver does not stop: events that are handled
\* before DisableRefused are dropped.
DisableFails ==
    /\ ~AlreadyDisabled
    /\ Fault
    /\ scan' = [scan EXCEPT !.cancelled = @ \/ scan.flying]
    /\ link' = [link EXCEPT !.enabled = FALSE, !.next = "none", !.deadline = "none"]
    /\ IF scan.flying /\ ~scan.cancelled /\ ~scan.done
       THEN DriverScanStop ELSE UNCHANGED <<driver, events>>
    /\ UNCHANGED netif

DisableRefused ==
    /\ link' = [link EXCEPT !.enabled = TRUE, !.state = "failed"]
    /\ UNCHANGED <<scan, driver, netif, events, faults>>

ScanRefused ==
    \/ link.radio # "on"
    \/ ~link.enabled
    \/ ~link.started
    \/ link.station /\ link.state = "connecting"
    \/ driver.phase = "trying"

\* request_scan(); the driver refuses a scan during an attempt.
RequestScan(ok) ==
    IF ScanRefused \/ scan.flying THEN ~ok /\ UNCHANGED linkVars
    ELSE /\ IF ok THEN /\ NoFault
                       /\ scan' = [NoScan EXCEPT !.flying = TRUE]
                       /\ driver' = [driver EXCEPT !.scanning = TRUE]
                  ELSE Fault /\ UNCHANGED <<scan, driver>>
         /\ UNCHANGED <<link, netif, events>>

\* configure() while the radio is off.
ConfigureStopped(c, ok) ==
    /\ link.radio = "off" /\ ~link.enabled
    /\ IF ok THEN /\ NoFault
                  /\ link' = [link EXCEPT !.station = c # NoCred, !.started = FALSE,
                                          !.next = "none", !.deadline = "none",
                                          !.state = "stopped", !.ssid = Named[c],
                                          !.address = FALSE]
                  /\ driver' = [driver EXCEPT !.apsta = TRUE, !.cred = c]
             ELSE /\ Fault
                  /\ driver' \in {driver, [driver EXCEPT !.apsta = TRUE]}
                  /\ UNCHANGED link
    /\ UNCHANGED <<scan, netif, events>>

\* configure(), which looks at the radio and the scan itself: a scan that was
\* cancelled may be in flight still when the radio is on again.
ConfigureRefused ==
    /\ IF link.radio = "on" THEN ~link.enabled \/ scan.flying
       ELSE link.enabled \/ link.radio = "attempted"
    /\ UNCHANGED linkVars

\* configure(): forget the association, and cycle the station interface.
BeginConfigure(ok) ==
    /\ link.radio = "on" /\ link.enabled /\ ~scan.flying
    /\ link' = [link EXCEPT !.station = FALSE, !.started = FALSE, !.next = "none",
                            !.deadline = "none", !.state = "access_point",
                            !.ssid = NoCred, !.address = FALSE]
    /\ \/ /\ ok /\ NoFault
          /\ driver' = [driver EXCEPT !.apsta = TRUE, !.phase = "idle"]
          /\ events' = events \o StopEvents \o <<"start">>
       \/ /\ ~ok /\ Fault
          /\ driver' = [driver EXCEPT !.apsta = FALSE, !.phase = "idle"]
          /\ events' = events \o StopEvents
       \/ ~ok /\ Fault /\ UNCHANGED <<driver, events>>
    /\ UNCHANGED <<scan, netif>>

\* configure(): esp_wifi_set_config() accepts the credentials.
EndConfigure(c) ==
    /\ driver' = [driver EXCEPT !.cred = c]
    /\ link' = [link EXCEPT !.station = c # NoCred, !.ssid = Named[c],
                            !.state = IF c = NoCred THEN "access_point" ELSE "connecting",
                            !.next = IF c # NoCred /\ link.started THEN "due" ELSE @]
    /\ UNCHANGED <<scan, netif, events, faults>>

\* configure(): one of its calls has failed.
ConfigureFailed ==
    /\ link' = [link EXCEPT !.state = "failed"]
    /\ UNCHANGED <<scan, driver, netif, events>>

\* connection_matches(): the association, the configuration and an address.
ConnectionMatches(c) ==
    /\ link.radio = "on" /\ link.state = "connected" /\ link.address
    /\ driver.phase = "up" /\ driver.cred = c
    /\ netif.ip # NoCred
=============================================================================
