----------------------------- MODULE RadioMemory -----------------------------
(***************************************************************************)
(* The Wi-Fi half of connectivity::Service of m5_sticks3                   *)
(* (connectivity/src/connectivity_service.cpp, include/radio_memory.hpp):  *)
(* the remembered networks, the NVS records they live in, and the owner    *)
(* task that calls WifiTransport (StationLink).                            *)
(*                                                                         *)
(* A pass of Service::process() is wifi.process(), at most one command of  *)
(* the queue, and process_memory().  A queued command is a value, so it is *)
(* chosen when it is executed.  Power may fail between any two steps.      *)
(* An NVS write is refused, done, or done and reported as failed.          *)
(***************************************************************************)
EXTENDS StationLink

CONSTANTS MemorySlots,  \* kMemorySlots
          NoSlot,       \* kNoSlot
          Missing,      \* an NVS key that was never written
          Legacy,       \* credentials that older firmware may have left
          MaxSteps      \* commands executed and losses of power

ASSUME SlotsAssumption == MemorySlots \in Nat \ {0} /\ NoSlot \notin 0 .. MemorySlots - 1
ASSUME LegacyAssumption == Legacy \subseteq Creds /\ Missing \notin Creds \cup {NoCred}

VARIABLES pc,        \* where the owner task is
          cmd,       \* what configure() is under way for
          mem,       \* memory
          nvs,       \* the keys "settings" (its credentials) and "radio_mem"
          cur,       \* current_wifi
          remember,  \* wifi_remember_deadline: no, pending, over
          steps,     \* commands and losses of power so far
          intent,    \* history: credentials that are to be remembered
          owed       \* history: credentials of older firmware, never touched since

memVars == <<cmd, mem, nvs, cur, remember, steps, intent, owed>>
vars == <<linkVars, pc, memVars>>

Slots == 0 .. MemorySlots - 1
Memories == [slot : [Slots -> Creds \cup {NoCred}], preferred : Slots \cup {NoSlot}]

ASSUME MissingAssumption == Missing \notin Memories

-----------------------------------------------------------------------------
(* RadioMemory.                                                            *)

Empty == [slot |-> [s \in Slots |-> NoCred], preferred |-> NoSlot]

Lowest(S) == CHOOSE s \in S : \A t \in S : s <= t

Taken(m) == {s \in Slots : m.slot[s] # NoCred}
Profiles(m) == {m.slot[s] : s \in Taken(m)}
Same(m, c) == {s \in Taken(m) : Ssid[m.slot[s]] = Ssid[c]}

\* wifi_slot(): the slot of the network, or else the first free one.
SlotFor(m, c) == CASE Same(m, c) # {} -> Lowest(Same(m, c))
                   [] Same(m, c) = {} /\ Slots # Taken(m) -> Lowest(Slots \ Taken(m))
                   [] OTHER -> NoSlot

\* remember(), when there is a slot.
Recall(m, c) == [slot |-> [m.slot EXCEPT ![SlotFor(m, c)] = c], preferred |-> SlotFor(m, c)]

\* Mutant: the preferred slot is left as it is.
ForgottenButPreferred(m, s) ==
    IF s = NoSlot THEN Empty ELSE [m EXCEPT !.slot[s] = NoCred]

\* forget_wifi()
Forgotten(m, s) ==
    IF s = NoSlot THEN Empty
    ELSE [slot |-> [m.slot EXCEPT ![s] = NoCred],
          preferred |-> IF m.preferred = s THEN NoSlot ELSE m.preferred]

\* decode_memory(), of a record of the right size
Decodes(m) ==
    /\ m.preferred # NoSlot => m.preferred \in Taken(m)
    /\ \A s, t \in Taken(m) : Ssid[m.slot[s]] = Ssid[m.slot[t]] => s = t

-----------------------------------------------------------------------------
Init ==
    /\ LinkDown /\ faults = 0
    /\ pc = "settings"
    /\ cmd = [cred |-> NoCred, remember |-> FALSE]
    /\ nvs \in [settings : Legacy \cup {NoCred, Missing}, memory : {Missing}]
    /\ mem = Empty /\ cur = NoCred /\ remember = "no"
    /\ steps = 0
    /\ intent = NoCred
    /\ owed = IF nvs.settings \in Creds THEN nvs.settings ELSE NoCred

Write(key, value) == nvs' = [nvs EXCEPT ![key] = value]

\* nvs_set_blob() and nvs_commit() with an error, after which the value may be there.
WriteFails(key, value) == Fault /\ (Write(key, value) \/ UNCHANGED nvs)

-----------------------------------------------------------------------------
(* load(): one step for each of its writes, and start().                   *)

Booting == {"settings", "memory", "clean", "start"}

Boot(key, value, next) ==
    /\ \/ NoFault /\ Write(key, value) /\ pc' = next
       \/ WriteFails(key, value) /\ pc' = "halted"
    /\ UNCHANGED <<link, scan, driver, netif, events>>

\* The memory that older firmware's settings amount to.
Migrated == IF nvs.settings \in Creds THEN Recall(Empty, nvs.settings) ELSE Empty

\* Mutant: the older record is retired before the new one is written.
LoadSettingsAndClean ==
    /\ pc = "settings"
    /\ mem' = Migrated
    /\ IF nvs.settings # NoCred THEN Boot("settings", NoCred, "memory")
       ELSE pc' = "memory" /\ UNCHANGED <<linkVars, nvs>>
    /\ UNCHANGED <<cmd, cur, remember, steps, intent, owed>>

LoadSettings ==
    /\ pc = "settings"
    /\ IF nvs.settings = Missing THEN Boot("settings", NoCred, "memory")
       ELSE pc' = "memory" /\ UNCHANGED <<linkVars, nvs>>
    /\ UNCHANGED <<cmd, mem, cur, remember, steps, intent, owed>>

\* Mutant: an empty memory is filled from the settings once more, which are kept.
LoadMemoryAgain ==
    /\ pc = "memory"
    /\ IF nvs.memory \in {Missing, Empty}
       THEN mem' = Migrated /\ Boot("memory", mem', "start")
       ELSE mem' = nvs.memory /\ pc' = "start" /\ UNCHANGED <<linkVars, nvs>>
    /\ UNCHANGED <<cmd, cur, remember, steps, intent, owed>>

LoadMemory ==
    /\ pc = "memory"
    /\ IF nvs.memory = Missing
       THEN mem' = Migrated /\ Boot("memory", mem', "clean")
       ELSE IF Decodes(nvs.memory)
       THEN mem' = nvs.memory /\ pc' = "clean" /\ UNCHANGED <<linkVars, nvs>>
       ELSE pc' = "halted" /\ UNCHANGED <<linkVars, nvs, mem>>
    /\ UNCHANGED <<cmd, cur, remember, steps, intent, owed>>

CleanSettings ==
    /\ pc = "clean"
    /\ IF nvs.settings \in Creds THEN Boot("settings", NoCred, "start")
       ELSE pc' = "start" /\ UNCHANGED <<linkVars, nvs>>
    /\ UNCHANGED <<cmd, mem, cur, remember, steps, intent, owed>>

Begin ==
    /\ pc = "start"
    /\ cur' = IF mem.preferred = NoSlot THEN NoCred ELSE mem.slot[mem.preferred]
    /\ \/ NoFault /\ Start(cur') /\ pc' = "process"
       \/ Fault /\ UNCHANGED <<link, scan, driver, netif, events>> /\ pc' = "halted"
    /\ UNCHANGED <<cmd, mem, nvs, remember, steps, intent, owed>>

\* The power fails; a device that could not start waits for it.
Reboot ==
    /\ steps < MaxSteps \/ pc = "halted"
    /\ steps' = IF steps < MaxSteps THEN steps + 1 ELSE steps
    /\ pc' = "settings"
    /\ LinkLost
    /\ cmd' = [cred |-> NoCred, remember |-> FALSE]
    /\ mem' = Empty /\ cur' = NoCred /\ remember' = "no"
    /\ intent' = NoCred
    /\ UNCHANGED <<faults, nvs, owed>>

-----------------------------------------------------------------------------
(* wifi.process()                                                          *)

ProcessWifi ==
    /\ pc = "process"
    /\ \/ BeginAttempt /\ pc' = "connect"
       \/ EndAttempt /\ pc' = "disconnect"
       \/ (ScanTimeout \/ NothingDue) /\ pc' = "command"
    /\ UNCHANGED memVars

Connecting ==
    /\ pc = "connect"
    /\ CallConnect
    /\ pc' = "command"
    /\ UNCHANGED memVars

Disconnecting ==
    /\ pc = "disconnect"
    /\ CallDisconnect
    /\ pc' = "command"
    /\ UNCHANGED memVars

-----------------------------------------------------------------------------
(* execute(): one command.  Each ends before remembering is looked at.     *)

Execute ==
    /\ pc = "command"
    /\ steps < MaxSteps
    /\ steps' = steps + 1

\* save_memory()
Saved(m) ==
    /\ NoFault
    /\ IF m = mem THEN UNCHANGED <<mem, nvs, owed>>
       ELSE mem' = m /\ Write("memory", m) /\ owed' = NoCred

SaveFailed(m) ==
    /\ m # mem
    /\ WriteFails("memory", m)
    /\ owed' = NoCred
    /\ UNCHANGED mem

\* connect_wifi() after its checks and saves: the radio is turned on if need be.
Prepare(c, keep) ==
    IF link.enabled
    THEN /\ pc' = "configure"
         /\ cmd' = [cred |-> c, remember |-> keep]
         /\ UNCHANGED <<linkVars, remember>>
    ELSE \E ok \in BOOLEAN :
            /\ Enable(ok)
            /\ IF ok THEN /\ pc' = "configure"
                          /\ cmd' = [cred |-> c, remember |-> keep]
                          /\ UNCHANGED remember
                     ELSE pc' = "remember" /\ remember' = "no" /\ UNCHANGED cmd

Refused == pc' = "remember" /\ UNCHANGED <<linkVars, cmd, mem, nvs, cur, remember,
                                           intent, owed>>

ConnectTo(c, keep) ==
    IF ~Ready \/ (keep /\ SlotFor(mem, c) = NoSlot) THEN Refused
    ELSE /\ Prepare(c, keep)
         /\ intent' = IF keep THEN c ELSE NoCred
         /\ UNCHANGED <<mem, nvs, cur, owed>>

Connect == Execute /\ \E c \in Creds, keep \in BOOLEAN : ConnectTo(c, keep)

\* wifi.use, and wifi.reconnect of the preferred slot
Use == Execute /\ \E s \in Taken(mem) : ConnectTo(mem.slot[s], TRUE)
Reconnect == Execute /\ IF mem.preferred = NoSlot THEN Refused
                        ELSE ConnectTo(mem.slot[mem.preferred], TRUE)

\* wifi.configure saves at once and connects afterwards.
Configure ==
    /\ Execute
    /\ \E c \in Creds :
         IF ~Ready \/ SlotFor(mem, c) = NoSlot THEN Refused
         ELSE /\ \/ /\ Saved(Recall(mem, c))
                    /\ pc' = "prepare"
                    /\ cmd' = [cred |-> c, remember |-> FALSE]
                    /\ intent' = NoCred
                 \/ /\ SaveFailed(Recall(mem, c))
                    /\ pc' = "remember"
                    /\ UNCHANGED <<cmd, intent>>
              /\ UNCHANGED <<link, scan, driver, netif, events, cur, remember>>

Prepared ==
    /\ pc = "prepare"
    /\ Prepare(cmd.cred, FALSE)
    /\ UNCHANGED <<mem, nvs, cur, steps, intent, owed>>

BeginConfiguring ==
    /\ pc = "configure"
    /\ \E ok \in BOOLEAN : BeginConfigure(ok) /\ pc' = IF ok THEN "set_config" ELSE "failed"
    /\ UNCHANGED memVars

\* The end of connect_wifi() with the result of configure().
Configured(ok) ==
    /\ pc' = "remember"
    /\ cur' = IF ok THEN cmd.cred ELSE cur
    /\ remember' = IF ok /\ cmd.remember THEN "pending" ELSE "no"
    /\ UNCHANGED <<cmd, mem, nvs, steps, intent, owed>>

EndConfiguring ==
    \/ pc = "configure" /\ ConfigureRefused /\ Configured(FALSE)
    \/ pc = "set_config" /\ EndConfigure(cmd.cred) /\ Configured(TRUE)
    \/ pc = "set_config" /\ Fault /\ ConfigureFailed /\ Configured(FALSE)
    \/ pc = "failed" /\ NoFault /\ ConfigureFailed /\ Configured(FALSE)

\* Mutant: what the driver and the interface say is not looked at.
MatchesSnapshot ==
    /\ cur # NoCred
    /\ link.state = "connected" /\ link.address /\ link.ssid = Named[cur]

\* The connection that remember_wifi() accepts.
Matches ==
    /\ cur # NoCred
    /\ link.state = "connected" /\ link.address /\ link.ssid = Named[cur]
    /\ ConnectionMatches(cur)

\* remember_wifi() of a connection that matches; the intent ends with it.
RememberCurrent ==
    /\ remember' = "no"
    /\ intent' = NoCred
    /\ IF SlotFor(mem, cur) = NoSlot
       THEN UNCHANGED <<faults, mem, nvs, owed>>
       ELSE Saved(Recall(mem, cur)) \/ SaveFailed(Recall(mem, cur))
    /\ UNCHANGED <<link, scan, driver, netif, events, cmd, cur>>

\* A command or a deadline after which nothing is left to be remembered.
IntentEnds ==
    /\ remember' = "no"
    /\ intent' = NoCred
    /\ UNCHANGED <<cmd, mem, nvs, cur, owed>>

IntentStays == UNCHANGED <<cmd, mem, nvs, cur, remember, intent, owed>>

\* wifi.remember
RememberNow ==
    /\ Execute
    /\ pc' = "remember"
    /\ IF Matches THEN RememberCurrent ELSE IntentEnds /\ UNCHANGED linkVars

SameNetwork(c) == {d \in Creds : c # NoCred /\ Ssid[d] = Ssid[c]}

\* Mutant: the pending save of a network outlives its removal.
ForgetSaved(s) ==
    /\ Saved(Forgotten(mem, s))
    /\ intent' = IF s = NoSlot \/ intent \in SameNetwork(mem.slot[s]) THEN NoCred ELSE intent
    /\ UNCHANGED remember

\* wifi.forget of a slot or of all: what it does once the memory is saved.
Forget(s) ==
    /\ Saved(Forgotten(mem, s))
    /\ intent' = IF s = NoSlot \/ intent \in SameNetwork(mem.slot[s]) THEN NoCred ELSE intent
    /\ remember' = IF s = NoSlot \/ mem.slot[s] \in SameNetwork(cur) THEN "no" ELSE remember

ForgetFailed(s) ==
    /\ SaveFailed(Forgotten(mem, s))
    /\ UNCHANGED <<intent, remember>>

ForgetSlot ==
    /\ Execute
    /\ pc' = "remember"
    /\ \E s \in Taken(mem) \cup {NoSlot} : Forget(s) \/ ForgetFailed(s)
    /\ UNCHANGED <<link, scan, driver, netif, events, cmd, cur>>

\* wifi.clear forgets all and the current network as well.
Clear ==
    /\ Execute
    /\ \/ ~Ready /\ Refused
       \/ /\ Ready
          /\ \/ /\ Forget(NoSlot)
                /\ cur' = NoCred
                /\ cmd' = [cred |-> NoCred, remember |-> FALSE]
                /\ pc' = "configure"
             \/ ForgetFailed(NoSlot) /\ pc' = "remember" /\ UNCHANGED <<cur, cmd>>
          /\ UNCHANGED <<link, scan, driver, netif, events>>

\* configure() of a radio that is off, by wifi.clear
ConfigureOff ==
    /\ pc = "configure"
    /\ cmd.cred = NoCred
    /\ \E ok \in BOOLEAN : ConfigureStopped(NoCred, ok)
    /\ pc' = "remember"
    /\ UNCHANGED memVars

TurnOn ==
    /\ Execute
    /\ pc' = "remember"
    /\ \E ok \in BOOLEAN : Enable(ok)
    /\ IntentStays

TurnOff ==
    /\ Execute
    /\ \/ Disable /\ pc' = "remember" /\ IntentEnds
       \/ DisableFails /\ pc' = "refused" /\ IntentStays

TurnOffRefused ==
    /\ pc = "refused"
    /\ DisableRefused
    /\ pc' = "remember"
    /\ UNCHANGED memVars

Disconnect ==
    /\ Execute
    /\ pc' = "remember"
    /\ \E ok \in BOOLEAN : DisconnectStation(ok) /\ IF ok THEN IntentEnds ELSE IntentStays

Scan ==
    /\ Execute
    /\ pc' = "remember"
    /\ \E ok \in BOOLEAN : RequestScan(ok)
    /\ IntentStays

Command == Connect \/ Use \/ Reconnect \/ Configure \/ RememberNow
           \/ ForgetSlot \/ Clear \/ TurnOn \/ TurnOff \/ Disconnect \/ Scan

-----------------------------------------------------------------------------
\* process_memory(), after a command or when there is none
ProcessMemory ==
    /\ pc \in {"command", "remember"}
    /\ pc' = "process"
    /\ UNCHANGED steps
    /\ CASE remember # "no" /\ Matches -> RememberCurrent
         [] remember = "over" /\ ~Matches -> IntentEnds /\ UNCHANGED linkVars
         [] OTHER -> IntentStays /\ UNCHANGED linkVars

RememberDeadline ==
    /\ Unhurried
    /\ remember = "pending"
    /\ remember' = "over"
    /\ UNCHANGED <<linkVars, pc, cmd, mem, nvs, cur, steps, intent, owed>>

Owner == LoadSettings \/ LoadMemory \/ CleanSettings \/ Begin \/ ProcessWifi
         \/ Connecting \/ Disconnecting \/ Command \/ Prepared \/ BeginConfiguring
         \/ ConfigureOff \/ EndConfiguring \/ TurnOffRefused \/ ProcessMemory

EventTask == HandleEvent /\ UNCHANGED <<pc, memVars>>

World == (Environment /\ UNCHANGED <<pc, memVars>>) \/ RememberDeadline

Next == Owner \/ EventTask \/ World \/ Reboot

(* The owner's loop and the event task always run on, so the queue empties *)
(* again and again; a timer runs out then and a scan of the driver ends.   *)
OwnerWaits == UNCHANGED <<pc, memVars>>

Fairness ==
    /\ WF_vars(Owner) /\ WF_vars(EventTask)
    /\ WF_vars(BackoffOver /\ OwnerWaits) /\ WF_vars(ConnectDeadline /\ OwnerWaits)
    /\ WF_vars(ScanDeadline /\ OwnerWaits) /\ WF_vars(ScanEnds /\ OwnerWaits)
    /\ WF_vars(AddressLost /\ OwnerWaits)

Spec == Init /\ [][Next]_vars /\ Fairness

-----------------------------------------------------------------------------
\* The shape of the state: phases of the owner, a memory that is a table of
\* slots, records of NVS that are memories.
TypeOK ==
    /\ LinkTypeOK
    /\ pc \in Booting \cup {"halted", "process", "connect", "disconnect", "command",
                             "prepare", "configure", "set_config", "failed", "refused",
                             "remember"}
    /\ cmd \in [cred : Creds \cup {NoCred}, remember : BOOLEAN]
    /\ mem \in Memories
    /\ nvs \in [settings : Creds \cup {NoCred, Missing}, memory : Memories \cup {Missing}]
    /\ cur \in Creds \cup {NoCred}
    /\ remember \in {"no", "pending", "over"}
    /\ steps \in Nat
    /\ intent \in Creds \cup {NoCred} /\ owed \in Creds \cup {NoCred}

Written == IF nvs.memory = Missing THEN Empty ELSE nvs.memory

\* Credentials that a step adds to the memory or to NVS.
Added == (Profiles(mem') \cup Profiles(Written')) \ (Profiles(mem) \cup Profiles(Written))

\* Credentials are remembered only while the interface holds an address that their
\* network gave it, or by the commands and the firmware that save without one:
\* however late the events come, and whatever DHCP client they start or stop, an
\* answer of another network never vouches for the current one.
RememberedIsProven ==
    [][Added \subseteq {netif.ip} \/ pc \in Booting \/ Configure]_vars

\* Nothing is remembered that is not to be: forgetting wins over an address that
\* comes late, and a temporary or failed replacement ends the older intent.
RememberedIsWanted ==
    [][Added \subseteq {intent} \/ pc \in Booting \/ Configure \/ RememberNow]_vars

\* A restart at any moment finds the memory as it was, and no older record that
\* could bring back what was forgotten, unless a write has failed.
RestartFindsMemory ==
    pc \notin Booting \cup {"halted"} =>
        /\ nvs.settings = NoCred
        /\ nvs.memory # Missing
        /\ faults = 0 => nvs.memory = mem

\* Whatever sequence of commands, failed writes and restarts has written it, the
\* record in NVS is one that load() accepts: the device can start.
SavedDecodes == Decodes(Written)

\* Credentials of older firmware are in one of the two records at any moment
\* until a command changes the memory.
MigrationKeeps == owed # NoCred => nvs.settings = owed \/ owed \in Profiles(Written)

\* No scan of the driver, and no result of one, is about when the transport
\* believes that none is: a result is never taken for another scan's.
OneScanAtATime ==
    ~scan.flying => /\ ~driver.scanning
                    /\ \A k \in DOMAIN events : events[k] # "scan_done"

Online == driver.phase = "up" /\ netif.ip # NoCred

Wanting == link.radio = "on" /\ link.enabled /\ link.station /\ link.state # "failed"

\* A station that is wanted and has no address calls the driver to connect again,
\* whatever became of its events, its scans and its address.
Reconnects == Wanting ~> (Online \/ pc = "connect" \/ ~Wanting)
=============================================================================
