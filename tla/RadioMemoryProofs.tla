-------------------------- MODULE RadioMemoryProofs --------------------------
(***************************************************************************)
(* The remembered networks for any number of slots, any credentials and    *)
(* any sequence of commands, failed writes and losses of power: the record *)
(* in NVS always decodes, a migration never loses the older credentials, a *)
(* restart finds the memory, nothing unwanted is remembered, one scan at a *)
(* time is under way; and an address vouches only for the network it was   *)
(* obtained in, however many events wait.                                  *)
(***************************************************************************)
EXTENDS RadioMemory, FiniteSetTheorems, TLAPS

-----------------------------------------------------------------------------
(* The table of slots.                                                     *)

\* Among the initial segments 0 .. s of the elements one is in no other strictly.
LEMMA LowestIsOne ==
  ASSUME NEW S \in SUBSET Slots, S # {}
  PROVE  Lowest(S) \in S
<1> DEFINE T == {0 .. s : s \in S}
<1>1. S \subseteq Nat
  BY SlotsAssumption DEF Slots
<1>2. T \subseteq FiniteSubsetsOf(Nat) /\ T # {}
  <2>1. \A s \in S : IsFiniteSet(0 .. s)
    BY <1>1, FS_Interval
  <2>2. \A s \in S : 0 .. s \in FiniteSubsetsOf(Nat)
    BY <1>1, <2>1 DEF FiniteSubsetsOf
  <2> QED
    BY <2>2
<1>3. PICK s \in S : \A t \in S : <<0 .. t, 0 .. s>> \notin StrictSubsetOrdering(Nat)
  <2>1. \E x \in T : \A y \in T : <<y, x>> \notin StrictSubsetOrdering(Nat)
    BY <1>2, FS_StrictSubsetOrderingWellFounded, WFMin
  <2> QED
    BY <2>1
<1>4. ASSUME NEW t \in S, ~(s <= t) PROVE FALSE
  <2>1. 0 .. t \subseteq 0 .. s /\ s \in 0 .. s /\ s \notin 0 .. t /\ 0 .. s \subseteq Nat
    BY <1>1, <1>4
  <2> QED
    BY <1>3, <2>1 DEF StrictSubsetOrdering
<1> QED
  BY <1>3, <1>4 DEF Lowest

LEMMA SlotIsFree ==
  ASSUME NEW m \in Memories, NEW c \in Creds, SlotFor(m, c) # NoSlot
  PROVE  /\ SlotFor(m, c) \in Slots
         /\ Same(m, c) # {} => SlotFor(m, c) \in Same(m, c)
         /\ Same(m, c) = {} => SlotFor(m, c) \notin Taken(m)
<1>1. Same(m, c) \in SUBSET Slots /\ Slots \ Taken(m) \in SUBSET Slots
  BY DEF Same, Taken
<1>2. CASE Same(m, c) # {}
  BY <1>1, <1>2, LowestIsOne DEF SlotFor
<1>3. CASE Same(m, c) = {}
  <2>1. Slots \ Taken(m) # {}
    BY <1>3 DEF SlotFor, Taken
  <2>2. SlotFor(m, c) = Lowest(Slots \ Taken(m))
    BY <1>3, <2>1 DEF SlotFor
  <2> QED
    BY <1>1, <1>3, <2>1, <2>2, LowestIsOne
<1> QED
  BY <1>2, <1>3

LEMMA RecallKeeps ==
  ASSUME NEW m \in Memories, Decodes(m), NEW c \in Creds, SlotFor(m, c) # NoSlot
  PROVE  /\ Recall(m, c) \in Memories
         /\ Decodes(Recall(m, c))
         /\ c \in Profiles(Recall(m, c))
         /\ Profiles(Recall(m, c)) \subseteq Profiles(m) \cup {c}
<1> DEFINE s == SlotFor(m, c)
           r == Recall(m, c)
<1> HIDE DEF s
<1>1. /\ s \in Slots
      /\ Same(m, c) # {} => s \in Same(m, c)
      /\ Same(m, c) = {} => s \notin Taken(m)
  BY SlotIsFree DEF s
<1>2. /\ r \in Memories
      /\ r.preferred = s
      /\ \A t \in Slots : r.slot[t] = IF t = s THEN c ELSE m.slot[t]
  BY <1>1 DEF s, Recall, Memories
<1>3. Taken(r) = Taken(m) \cup {s}
  BY <1>1, <1>2, CredsAssumption DEF Taken
<1>4. \A t, u \in Taken(r) : Ssid[r.slot[t]] = Ssid[r.slot[u]] => t = u
  <2>1. ASSUME NEW t \in Taken(m), t # s PROVE Ssid[m.slot[t]] # Ssid[c]
    <3>1. SUFFICES ASSUME Ssid[m.slot[t]] = Ssid[c] PROVE FALSE
      OBVIOUS
    <3>2. t \in Same(m, c) /\ s \in Same(m, c)
      BY <1>1, <3>1 DEF Same
    <3> QED
      BY <2>1, <3>2 DEF Same, Decodes
  <2> QED
    BY <1>1, <1>2, <1>3, <2>1 DEF Decodes, Taken
<1>5. Decodes(r)
  BY <1>2, <1>3, <1>4 DEF Decodes
<1>6. c \in Profiles(r) /\ Profiles(r) \subseteq Profiles(m) \cup {c}
  BY <1>1, <1>2, <1>3 DEF Profiles, Taken
<1> QED
  BY <1>2, <1>5, <1>6

LEMMA EmptyKeeps ==
  Empty \in Memories /\ Decodes(Empty) /\ Taken(Empty) = {} /\ Profiles(Empty) = {}
BY DEF Empty, Memories, Decodes, Taken, Profiles

LEMMA ForgottenKeeps ==
  ASSUME NEW m \in Memories, Decodes(m), NEW s \in Taken(m) \cup {NoSlot}
  PROVE  /\ Forgotten(m, s) \in Memories
         /\ Decodes(Forgotten(m, s))
         /\ Profiles(Forgotten(m, s)) \subseteq Profiles(m)
<1>1. CASE s = NoSlot
  BY <1>1, EmptyKeeps DEF Forgotten
<1>2. CASE s # NoSlot
  <2> DEFINE r == Forgotten(m, s)
  <2>1. /\ r \in Memories
        /\ r.preferred = IF m.preferred = s THEN NoSlot ELSE m.preferred
        /\ \A t \in Slots : r.slot[t] = IF t = s THEN NoCred ELSE m.slot[t]
    BY <1>2 DEF Forgotten, Memories, Taken
  <2>2. Taken(r) = Taken(m) \ {s}
    BY <2>1 DEF Taken
  <2>3. \A t \in Taken(r) : r.slot[t] = m.slot[t]
    BY <2>1, <2>2 DEF Taken
  <2>4. Decodes(r)
    BY <2>1, <2>2, <2>3 DEF Decodes
  <2>5. Profiles(r) \subseteq Profiles(m)
    BY <2>2, <2>3 DEF Profiles
  <2> QED
    BY <2>1, <2>4, <2>5
<1> QED
  BY <1>1, <1>2

LEMMA MigratedKeeps ==
  ASSUME nvs.settings \in Creds \cup {NoCred}
  PROVE  /\ Migrated \in Memories /\ Decodes(Migrated)
         /\ nvs.settings \in Creds => nvs.settings \in Profiles(Migrated)
<1>1. CASE nvs.settings \notin Creds
  BY <1>1, EmptyKeeps DEF Migrated
<1>2. CASE nvs.settings \in Creds
  <2>1. Same(Empty, nvs.settings) = {} /\ Slots \ Taken(Empty) # {} /\ Slots # Taken(Empty)
    BY EmptyKeeps, SlotsAssumption DEF Same, Slots
  <2>2. SlotFor(Empty, nvs.settings) = Lowest(Slots \ Taken(Empty))
    BY <2>1 DEF SlotFor
  <2>3. SlotFor(Empty, nvs.settings) # NoSlot
    BY <2>1, <2>2, LowestIsOne, SlotsAssumption DEF Slots
  <2> QED
    BY <1>2, <2>3, EmptyKeeps, RecallKeeps DEF Migrated
<1> QED
  BY <1>1, <1>2

-----------------------------------------------------------------------------
(* The invariant.                                                          *)

Configuring == {"prepare", "configure", "set_config", "failed"}
Phases == Booting \cup Configuring
          \cup {"halted", "process", "connect", "disconnect", "command", "refused", "remember"}

Table == mem \in Memories /\ Decodes(mem)

Records == /\ nvs \in [settings : Creds \cup {NoCred, Missing}, memory : Memories \cup {Missing}]
           /\ Decodes(Written)

Fields == /\ pc \in Phases
          /\ cmd \in [cred : Creds \cup {NoCred}, remember : BOOLEAN]
          /\ cur \in Creds \cup {NoCred}
          /\ remember \in {"no", "pending", "over"}
          /\ intent \in Creds \cup {NoCred} /\ owed \in Creds \cup {NoCred}
          /\ faults \in Nat

\* What the writes of load() have achieved when the next one is due.
BootInOrder ==
    /\ pc \notin {"settings", "halted"} => nvs.settings # Missing
    /\ pc \notin {"settings", "memory", "halted"} => nvs.memory # Missing
    /\ pc \in {"clean", "start"} => nvs.memory = mem
    /\ pc \notin Booting \cup {"halted"} /\ faults = 0 => nvs.memory = mem
    /\ pc \notin {"settings", "memory", "clean", "halted"} => nvs.settings = NoCred

OwedKept ==
    owed # NoCred => IF nvs.memory = Missing THEN nvs.settings = owed
                     ELSE owed \in Profiles(nvs.memory)

\* A pending save is about the current credentials, except while the owner is
\* replacing them.
IntentFollowed ==
    /\ (remember # "no" /\ pc \notin Configuring) => intent = cur
    /\ (pc \in {"configure", "set_config"} /\ cmd.remember) => intent = cmd.cred
    /\ pc = "prepare" => cmd.cred # NoCred
    /\ (pc = "configure" /\ cmd.cred = NoCred) => remember = "no"
    /\ pc \in Booting \cup {"halted"} => remember = "no"

MInv == Table /\ Records /\ Fields /\ BootInOrder /\ OwedKept /\ IntentFollowed

-----------------------------------------------------------------------------
LEMMA CallsCount ==
  ASSUME NEW ok \in BOOLEAN, NEW c
  PROVE  /\ Enable(ok) => NoFault \/ Fault
         /\ DisconnectStation(ok) => NoFault \/ Fault
         /\ RequestScan(ok) => NoFault \/ Fault
         /\ BeginConfigure(ok) => NoFault \/ Fault
         /\ ConfigureStopped(c, ok) => NoFault \/ Fault
<1>1. UNCHANGED linkVars => NoFault
  BY DEF linkVars, NoFault
<1>2. Enable(ok) => NoFault \/ Fault
  BY <1>1 DEF Enable
<1>3. DisconnectStation(ok) => NoFault \/ Fault
  BY <1>1 DEF DisconnectStation
<1>4. RequestScan(ok) => NoFault \/ Fault
  BY <1>1 DEF RequestScan
<1>5. BeginConfigure(ok) => NoFault \/ Fault
  BY DEF BeginConfigure
<1>6. ConfigureStopped(c, ok) => NoFault \/ Fault
  BY DEF ConfigureStopped
<1> QED
  BY <1>2, <1>3, <1>4, <1>5, <1>6

LEMMA FaultAdds ==
  ASSUME faults \in Nat, NoFault \/ Fault
  PROVE  faults' \in Nat /\ (faults' = 0 => faults = 0)
BY DEF NoFault, Fault

\* Calls that fail are counted and never forgotten.
LEMMA FaultsGrow ==
  ASSUME faults \in Nat, [Next]_vars
  PROVE  faults' \in Nat /\ (faults' = 0 => faults = 0)
<1> USE DEF Fault, NoFault, linkVars
<1>1. CASE EventTask
  BY <1>1 DEF EventTask, HandleEvent, Handle, OnStart, OnStop, OnConnected, OnDisconnected,
              OnGotIp, OnLostIp, OnScanDone
<1>2. CASE World
  BY <1>2 DEF World, Environment, Associate, Dissociate, Answer, Lease, LeaseEnds, AddressLost,
              ScanEnds, BackoffOver, ConnectDeadline, ScanDeadline, RememberDeadline
<1>3. CASE Reboot
  BY <1>3 DEF Reboot
<1>4. CASE LoadSettings \/ LoadMemory \/ CleanSettings \/ Begin
  BY <1>4 DEF LoadSettings, LoadMemory, CleanSettings, Begin, Boot, WriteFails
<1>5. CASE ProcessWifi \/ Connecting \/ Disconnecting
  BY <1>5 DEF ProcessWifi, Connecting, Disconnecting, BeginAttempt, EndAttempt, ScanTimeout,
              NothingDue, CallConnect, CallDisconnect
<1>6. CASE Command
  <2>1. \A ok \in BOOLEAN : Enable(ok) => faults' \in Nat /\ (faults' = 0 => faults = 0)
    BY CallsCount, FaultAdds
  <2>2. CASE Connect \/ Use \/ Reconnect
    BY <2>1, <2>2 DEF Connect, Use, Reconnect, ConnectTo, Prepare, Refused
  <2>3. CASE Configure
    BY <2>3 DEF Configure, Refused, Saved, SaveFailed, WriteFails
  <2>4. CASE RememberNow
    BY <2>4 DEF RememberNow, RememberCurrent, Saved, SaveFailed, WriteFails
  <2>5. CASE ForgetSlot \/ Clear
    BY <2>5 DEF ForgetSlot, Clear, Forget, ForgetFailed, Refused, Saved, SaveFailed, WriteFails
  <2>6. CASE TurnOn \/ TurnOff
    <3>1. CASE TurnOn
      BY <2>1, <3>1 DEF TurnOn
    <3>2. CASE TurnOff
      BY <3>2 DEF TurnOff, Disable, DisableFails
    <3> QED
      BY <2>6, <3>1, <3>2
  <2>7. CASE Disconnect \/ Scan
    <3>1. \E ok \in BOOLEAN : DisconnectStation(ok) \/ RequestScan(ok)
      BY <2>7 DEF Disconnect, Scan
    <3> QED
      BY <3>1, CallsCount, FaultAdds
  <2> QED
    BY <1>6, <2>2, <2>3, <2>4, <2>5, <2>6, <2>7 DEF Command
<1>7. CASE Prepared
  <2>1. UNCHANGED linkVars \/ \E ok \in BOOLEAN : Enable(ok)
    BY <1>7 DEF Prepared, Prepare
  <2> QED
    BY <2>1, CallsCount, FaultAdds
<1>8. CASE BeginConfiguring \/ ConfigureOff \/ EndConfiguring \/ TurnOffRefused
  <2>1. CASE BeginConfiguring \/ ConfigureOff
    <3>1. \E ok \in BOOLEAN : BeginConfigure(ok) \/ ConfigureStopped(NoCred, ok)
      BY <2>1 DEF BeginConfiguring, ConfigureOff
    <3> QED
      BY <3>1, CallsCount, FaultAdds
  <2>2. CASE EndConfiguring
    <3>1. EndConfigure(cmd.cred) => NoFault
      BY DEF EndConfigure
    <3>2. EndConfigure(cmd.cred) \/ NoFault \/ Fault
      BY <2>2 DEF EndConfiguring, ConfigureRefused
    <3> QED
      BY <3>1, <3>2, FaultAdds
  <2>3. CASE TurnOffRefused
    BY <2>3 DEF TurnOffRefused, DisableRefused
  <2> QED
    BY <1>8, <2>1, <2>2, <2>3
<1>9. CASE ProcessMemory
  BY <1>9 DEF ProcessMemory, RememberCurrent, Saved, SaveFailed, WriteFails
<1>10. CASE UNCHANGED vars
  BY <1>10 DEF vars
<1> QED
  BY <1>1, <1>2, <1>3, <1>4, <1>5, <1>6, <1>7, <1>8, <1>9, <1>10 DEF Next, Owner

-----------------------------------------------------------------------------
(* Steps that leave the memory and its records alone.                      *)

Quiet == UNCHANGED <<mem, nvs, owed>>

LEMMA QuietKeeps ==
  ASSUME MInv, Quiet
  PROVE  Table' /\ Records' /\ OwedKept'
BY DEF MInv, Quiet, Table, Records, OwedKept, Written

LEMMA RadioSteps ==
  ASSUME MInv, [Next]_vars,
         \/ ProcessWifi \/ Connecting \/ Disconnecting \/ BeginConfiguring \/ ConfigureOff
         \/ TurnOffRefused \/ EventTask \/ World \/ UNCHANGED vars
  PROVE  MInv'
<1>1. Quiet /\ UNCHANGED <<cmd, cur, intent>> /\ remember' \in {"no", "pending", "over"}
      /\ (remember = "no" => remember' = "no")
  BY DEF ProcessWifi, Connecting, Disconnecting, BeginConfiguring, ConfigureOff, TurnOffRefused,
         EventTask, World, RememberDeadline, memVars, vars, Quiet, MInv, Fields
<1>2. /\ pc' \in Phases
      /\ pc \in Booting \cup {"halted"} => pc' = pc
      /\ pc \notin Booting \cup {"halted"} => pc' \notin Booting \cup {"halted"}
      /\ pc' \in {"configure", "set_config"} => pc \in {"configure"} \/ pc' = pc
      /\ pc' = "configure" => pc = "configure"
      /\ pc' = "prepare" => pc = "prepare"
      /\ pc' \notin Configuring /\ pc \in Configuring => pc = "configure" /\ cmd.cred = NoCred
  BY DEF ProcessWifi, Connecting, Disconnecting, BeginConfiguring, ConfigureOff, TurnOffRefused,
         EventTask, World, RememberDeadline, memVars, vars, MInv, Fields, Phases, Configuring,
         Booting
<1>3. faults' \in Nat /\ (faults' = 0 => faults = 0)
  BY FaultsGrow DEF MInv, Fields
<1>4. Table' /\ Records' /\ OwedKept'
  BY <1>1, QuietKeeps
<1>5. Fields'
  BY <1>1, <1>2, <1>3 DEF MInv, Fields, Quiet
<1>6. BootInOrder'
  BY <1>1, <1>2, <1>3 DEF MInv, BootInOrder, Quiet, Booting
<1>7. IntentFollowed'
  BY <1>1, <1>2 DEF MInv, IntentFollowed, Booting, Configuring
<1> QED
  BY <1>4, <1>5, <1>6, <1>7 DEF MInv

LEMMA Targets ==
  ASSUME NEW c \in Creds, NEW keep \in BOOLEAN, MInv, ConnectTo(c, keep),
         pc = "command", faults' \in Nat, faults' = 0 => faults = 0
  PROVE  MInv'
<1>1. CASE Refused
  <2>1. Quiet
    BY <1>1 DEF Refused, Quiet
  <2> QED
    BY <1>1, <2>1, QuietKeeps
    DEF Refused, Quiet, MInv, Fields, BootInOrder, IntentFollowed, Phases, Booting, Configuring
<1>2. CASE Prepare(c, keep) /\ intent' = (IF keep THEN c ELSE NoCred) /\ UNCHANGED <<mem, nvs, cur, owed>>
  <2>1. Quiet
    BY <1>2 DEF Quiet
  <2>2. \/ /\ pc' = "configure" /\ cmd' = [cred |-> c, remember |-> keep] /\ remember' = remember
        \/ pc' = "remember" /\ remember' = "no" /\ UNCHANGED cmd
    BY <1>2 DEF Prepare
  <2>3. intent' \in Creds \cup {NoCred} /\ (keep => intent' = c)
    BY <1>2
  <2>4. Fields' /\ BootInOrder' /\ IntentFollowed'
    BY <1>2, <2>1, <2>2, <2>3, CredsAssumption
    DEF Quiet, MInv, Fields, BootInOrder, IntentFollowed, Phases, Booting, Configuring
  <2> QED
    BY <2>1, <2>4, QuietKeeps DEF MInv
<1> QED
  BY <1>1, <1>2 DEF ConnectTo

LEMMA CommandSteps ==
  ASSUME MInv, [Next]_vars,
         Connect \/ Use \/ Reconnect \/ TurnOn \/ TurnOff \/ Disconnect \/ Scan
  PROVE  MInv'
<1>1. faults' \in Nat /\ (faults' = 0 => faults = 0)
  BY FaultsGrow DEF MInv, Fields
<1>2. CASE Connect
  BY <1>1, <1>2, Targets DEF Connect, Execute
<1>3. CASE Use
  <2>1. PICK s \in Taken(mem) : ConnectTo(mem.slot[s], TRUE)
    BY <1>3 DEF Use
  <2>2. mem.slot[s] \in Creds
    BY DEF MInv, Table, Memories, Taken
  <2> QED
    BY <1>1, <1>3, <2>1, <2>2, Targets DEF Use, Execute
<1>4. CASE Reconnect /\ mem.preferred # NoSlot
  <2>1. mem.slot[mem.preferred] \in Creds /\ ConnectTo(mem.slot[mem.preferred], TRUE)
    BY <1>4 DEF Reconnect, MInv, Table, Decodes, Memories, Taken
  <2> QED
    BY <1>1, <1>4, <2>1, Targets DEF Reconnect, Execute
<1>5. CASE \/ Reconnect /\ mem.preferred = NoSlot
           \/ TurnOn \/ TurnOff \/ Disconnect \/ Scan
  <2>1. /\ Quiet /\ UNCHANGED <<cmd, cur>>
        /\ remember' = "no" \/ (remember' = remember /\ intent' = intent)
        /\ intent' \in {intent, NoCred}
        /\ pc = "command" /\ pc' \in {"remember", "refused"}
    BY <1>5 DEF Reconnect, Refused, TurnOn, TurnOff, Disconnect, Scan, Execute, IntentEnds,
                IntentStays, Quiet
  <2>2. Fields' /\ BootInOrder' /\ IntentFollowed'
    BY <1>1, <2>1 DEF Quiet, MInv, Fields, BootInOrder, IntentFollowed, Phases, Booting,
                      Configuring
  <2> QED
    BY <2>1, <2>2, QuietKeeps DEF MInv
<1> QED
  BY <1>2, <1>3, <1>4, <1>5

LEMMA ConfiguringSteps ==
  ASSUME MInv, [Next]_vars, Prepared \/ EndConfiguring
  PROVE  MInv'
<1>1. faults' \in Nat /\ (faults' = 0 => faults = 0)
  BY FaultsGrow DEF MInv, Fields
<1>2. CASE Prepared
  <2>1. Quiet /\ UNCHANGED <<cur, intent>> /\ pc = "prepare"
    BY <1>2 DEF Prepared, Quiet
  <2>2. \/ /\ pc' = "configure" /\ cmd' = [cred |-> cmd.cred, remember |-> FALSE]
           /\ remember' = remember
        \/ pc' = "remember" /\ remember' = "no" /\ UNCHANGED cmd
    BY <1>2 DEF Prepared, Prepare
  <2>3. cmd.cred \in Creds /\ cmd.cred # NoCred
    BY <2>1 DEF MInv, Fields, IntentFollowed
  <2>4. CASE pc' = "configure" /\ cmd' = [cred |-> cmd.cred, remember |-> FALSE]
             /\ remember' = remember
    <3>1. cmd' \in [cred : Creds \cup {NoCred}, remember : BOOLEAN] /\ cmd'.cred # NoCred
          /\ cmd'.remember = FALSE
      BY <2>3, <2>4
    <3> QED
      BY <1>1, <2>1, <2>4, <3>1, QuietKeeps
      DEF Quiet, MInv, Fields, BootInOrder, IntentFollowed, Phases, Booting, Configuring
  <2>5. CASE pc' = "remember" /\ remember' = "no" /\ UNCHANGED cmd
    BY <1>1, <2>1, <2>5, QuietKeeps
    DEF Quiet, MInv, Fields, BootInOrder, IntentFollowed, Phases, Booting, Configuring
  <2> QED
    BY <2>2, <2>4, <2>5
<1>3. CASE EndConfiguring
  <2>1. /\ Quiet /\ UNCHANGED <<cmd, intent>> /\ pc' = "remember"
        /\ \/ pc = "set_config" /\ cur' = cmd.cred
              /\ remember' = (IF cmd.remember THEN "pending" ELSE "no")
           \/ pc \in {"configure", "set_config", "failed"} /\ cur' = cur /\ remember' = "no"
    BY <1>3 DEF EndConfiguring, Configured, Quiet
  <2>2. Fields' /\ BootInOrder' /\ IntentFollowed'
    BY <1>1, <2>1
    DEF Quiet, MInv, Fields, BootInOrder, IntentFollowed, Phases, Booting, Configuring
  <2> QED
    BY <2>1, <2>2, QuietKeeps DEF MInv
<1> QED
  BY <1>2, <1>3

-----------------------------------------------------------------------------
(* load().                                                                 *)

LEMMA BootSteps ==
  ASSUME MInv, [Next]_vars, LoadSettings \/ LoadMemory \/ CleanSettings \/ Begin \/ Reboot
  PROVE  MInv'
<1>1. faults' \in Nat /\ (faults' = 0 => faults = 0)
  BY FaultsGrow DEF MInv, Fields
<1>2. CASE LoadSettings
  <2>1. /\ pc = "settings" /\ UNCHANGED <<cmd, mem, cur, remember, intent, owed>>
        /\ \/ nvs' = nvs /\ pc' = "halted"
           \/ nvs' = nvs /\ nvs.settings # Missing /\ pc' = "memory"
           \/ /\ nvs.settings = Missing /\ nvs' = [nvs EXCEPT !.settings = NoCred]
              /\ pc' \in {"memory", "halted"}
    BY <1>2 DEF LoadSettings, Boot, Write, WriteFails
  <2>2. nvs'.memory = nvs.memory /\ (nvs.settings = Missing \/ nvs'.settings = nvs.settings)
        /\ (pc' = "memory" => nvs'.settings # Missing)
    BY <2>1, LegacyAssumption DEF MInv, Records
  <2>3. Table' /\ Records'
    BY <2>1, <2>2 DEF MInv, Table, Records, Written
  <2>4. OwedKept'
    BY <2>1, <2>2, LegacyAssumption DEF MInv, OwedKept, Fields
  <2> QED
    BY <1>1, <2>1, <2>2, <2>3, <2>4
    DEF MInv, Fields, BootInOrder, IntentFollowed, Phases, Booting, Configuring
<1>3. CASE LoadMemory
  <2> DEFINE old == nvs.memory
  <2>1. pc = "memory" /\ nvs.settings \in Creds \cup {NoCred}
        /\ UNCHANGED <<cmd, cur, remember, intent, owed>>
    BY <1>3 DEF LoadMemory, MInv, BootInOrder, Records
  <2>2. CASE old = Missing
    <3>1. /\ mem' = Migrated /\ pc' \in {"clean", "halted"}
          /\ (nvs' = nvs /\ pc' = "halted") \/ nvs' = [nvs EXCEPT !.memory = Migrated]
      BY <1>3, <2>2 DEF LoadMemory, Boot, Write, WriteFails
    <3>2. /\ Migrated \in Memories /\ Decodes(Migrated)
          /\ nvs.settings \in Creds => nvs.settings \in Profiles(Migrated)
      BY <2>1, MigratedKeeps
    <3>3. Migrated # Missing
      BY <3>2, MissingAssumption
    <3>4. /\ nvs'.settings = nvs.settings
          /\ (nvs' = nvs /\ pc' = "halted") \/ nvs'.memory = Migrated
      BY <3>1 DEF MInv, Records
    <3>5. Table' /\ Records'
      BY <3>1, <3>2, <3>3 DEF MInv, Table, Records, Written
    <3>6. OwedKept'
      BY <2>1, <2>2, <3>2, <3>3, <3>4 DEF MInv, OwedKept, Fields
    <3> QED
      BY <1>1, <2>1, <3>1, <3>3, <3>4, <3>5, <3>6
      DEF MInv, Fields, BootInOrder, IntentFollowed, Phases, Booting, Configuring
  <2>3. CASE old # Missing
    <3>1. /\ nvs' = nvs
          /\ (mem' = old /\ pc' = "clean") \/ (mem' = mem /\ pc' = "halted")
      BY <1>3, <2>3 DEF LoadMemory
    <3>2. Table' /\ Records' /\ OwedKept'
      BY <2>1, <2>3, <3>1 DEF MInv, Table, Records, OwedKept, Written
    <3> QED
      BY <1>1, <2>1, <2>3, <3>1, <3>2
      DEF MInv, Fields, BootInOrder, IntentFollowed, Phases, Booting, Configuring
  <2> QED
    BY <2>2, <2>3
<1>4. CASE CleanSettings
  <2>1. /\ pc = "clean" /\ UNCHANGED <<cmd, mem, cur, remember, intent, owed>>
        /\ \/ nvs' = nvs /\ (pc' = "halted" \/ (pc' = "start" /\ nvs.settings \notin Creds))
           \/ nvs' = [nvs EXCEPT !.settings = NoCred] /\ pc' \in {"start", "halted"}
    BY <1>4 DEF CleanSettings, Boot, Write, WriteFails
  <2>2. /\ nvs'.memory = nvs.memory /\ nvs.memory # Missing
        /\ nvs'.settings \in {nvs.settings, NoCred}
        /\ pc' = "start" => nvs'.settings = NoCred
    BY <2>1 DEF MInv, BootInOrder, Records
  <2>3. Table' /\ Records' /\ OwedKept'
    BY <2>1, <2>2 DEF MInv, Table, Records, OwedKept, Written
  <2> QED
    BY <1>1, <2>1, <2>2, <2>3, LegacyAssumption
    DEF MInv, Fields, BootInOrder, IntentFollowed, Phases, Booting, Configuring
<1>5. CASE Begin
  <2>1. /\ Quiet /\ UNCHANGED <<cmd, remember, intent>> /\ pc = "start"
        /\ pc' \in {"process", "halted"}
        /\ cur' = (IF mem.preferred = NoSlot THEN NoCred ELSE mem.slot[mem.preferred])
    BY <1>5 DEF Begin, Quiet
  <2>2. cur' \in Creds \cup {NoCred}
    BY <2>1 DEF MInv, Table, Decodes, Memories, Taken
  <2> QED
    BY <1>1, <2>1, <2>2, QuietKeeps
    DEF Quiet, MInv, Fields, BootInOrder, IntentFollowed, Phases, Booting, Configuring
<1>6. CASE Reboot
  <2>1. /\ nvs' = nvs /\ owed' = owed /\ mem' = Empty /\ cur' = NoCred /\ remember' = "no"
        /\ pc' = "settings" /\ intent' = NoCred /\ cmd' = [cred |-> NoCred, remember |-> FALSE]
    BY <1>6 DEF Reboot
  <2>2. Table' /\ Records' /\ OwedKept'
    BY <2>1, EmptyKeeps DEF MInv, Table, Records, OwedKept, Written
  <2> QED
    BY <1>1, <2>1, <2>2
    DEF MInv, Fields, BootInOrder, IntentFollowed, Phases, Booting, Configuring
<1> QED
  BY <1>2, <1>3, <1>4, <1>5, <1>6

-----------------------------------------------------------------------------
(* Steps that save the memory.                                             *)

Running == pc \notin Booting \cup {"halted"}

LEMMA SavingKeeps ==
  ASSUME MInv, Running, faults' \in Nat, faults' = 0 => faults = 0,
         NEW m \in Memories, Decodes(m), Saved(m) \/ SaveFailed(m)
  PROVE  /\ Table' /\ Records' /\ OwedKept'
         /\ owed' \in Creds \cup {NoCred}
         /\ nvs'.settings = NoCred /\ nvs'.memory # Missing
         /\ faults' = 0 => nvs'.memory = mem'
         /\ Added \subseteq Profiles(m)
<1>1. /\ mem' \in {mem, m} /\ (nvs' = nvs \/ nvs' = [nvs EXCEPT !.memory = m])
      /\ owed' = NoCred \/ (owed' = owed /\ mem' = mem /\ nvs' = nvs)
  BY DEF Saved, SaveFailed, WriteFails, Write
<1>2. nvs.settings = NoCred /\ nvs.memory # Missing /\ m # Missing
      /\ (faults = 0 => nvs.memory = mem)
  BY MissingAssumption DEF MInv, BootInOrder, Running, Booting
<1>3. /\ nvs'.settings = NoCred /\ nvs'.memory \in {nvs.memory, m}
      /\ nvs' \in [settings : Creds \cup {NoCred, Missing}, memory : Memories \cup {Missing}]
  BY <1>1, <1>2 DEF MInv, Records
<1>4. Written = nvs.memory /\ Written' = nvs'.memory
  BY <1>2, <1>3 DEF Written
<1>5. Table' /\ Records'
  BY <1>1, <1>2, <1>3, <1>4 DEF MInv, Table, Records
<1>6. OwedKept' /\ owed' \in Creds \cup {NoCred}
  BY <1>1 DEF MInv, OwedKept, Fields
<1>7. faults' = 0 => nvs'.memory = mem'
  <2>1. CASE Saved(m)
    <3>1. CASE m = mem
      BY <1>2, <2>1, <3>1 DEF Saved
    <3>2. CASE m # mem
      BY <2>1, <3>2 DEF Saved, Write, MInv, Records
    <3> QED
      BY <3>1, <3>2
  <2>2. CASE SaveFailed(m)
    BY <2>2 DEF SaveFailed, WriteFails, Fault, MInv, Fields
  <2> QED
    BY <2>1, <2>2
<1>8. Added \subseteq Profiles(m)
  <2>1. Profiles(mem') \in {Profiles(mem), Profiles(m)}
    BY <1>1
  <2>2. Profiles(Written') \in {Profiles(Written), Profiles(m)}
    BY <1>3, <1>4
  <2> QED
    BY <2>1, <2>2 DEF Added
<1> QED
  BY <1>2, <1>3, <1>5, <1>6, <1>7, <1>8

LEMMA Remembers ==
  ASSUME MInv, Running, pc \notin Configuring, pc' \in {"remember", "process"},
         faults' \in Nat, faults' = 0 => faults = 0,
         Matches, RememberCurrent
  PROVE  MInv' /\ Added \subseteq {cur}
<1>1. cur \in Creds
  BY DEF Matches, MInv, Fields
<1>2. UNCHANGED <<cmd, cur>> /\ remember' = "no" /\ intent' = NoCred
  BY DEF RememberCurrent
<1>3. CASE SlotFor(mem, cur) = NoSlot
  <2>1. Quiet
    BY <1>3 DEF RememberCurrent, Quiet
  <2>2. Added = {}
    BY <2>1 DEF Quiet, Added, Written
  <2> QED
    BY <1>2, <2>1, <2>2, QuietKeeps
    DEF Quiet, Running, MInv, Fields, BootInOrder, IntentFollowed, Phases, Booting, Configuring
<1>4. CASE SlotFor(mem, cur) # NoSlot
  <2> DEFINE m == Recall(mem, cur)
  <2>1. /\ m \in Memories /\ Decodes(m)
        /\ Profiles(m) \subseteq Profiles(mem) \cup {cur}
    BY <1>1, <1>4, RecallKeeps DEF MInv, Table
  <2>2. Saved(m) \/ SaveFailed(m)
    BY <1>4 DEF RememberCurrent
  <2> HIDE DEF m
  <2>3. /\ Table' /\ Records' /\ OwedKept' /\ owed' \in Creds \cup {NoCred}
        /\ nvs'.settings = NoCred /\ nvs'.memory # Missing
        /\ faults' = 0 => nvs'.memory = mem'
        /\ Added \subseteq Profiles(m)
    BY <2>1, <2>2, SavingKeeps
  <2>4. Added \subseteq {cur}
    BY <2>1, <2>3 DEF Added
  <2> QED
    BY <1>2, <2>3, <2>4, LegacyAssumption
    DEF MInv, Fields, BootInOrder, IntentFollowed, Phases, Booting, Configuring
<1> QED
  BY <1>3, <1>4

LEMMA Forgets ==
  ASSUME MInv, pc = "command", faults' \in Nat, faults' = 0 => faults = 0,
         NEW s \in Taken(mem) \cup {NoSlot}, Forget(s) \/ ForgetFailed(s)
  PROVE  /\ Table' /\ Records' /\ OwedKept' /\ owed' \in Creds \cup {NoCred}
         /\ nvs'.settings = NoCred /\ nvs'.memory # Missing
         /\ faults' = 0 => nvs'.memory = mem'
         /\ Added = {}
         /\ intent' \in {intent, NoCred} /\ remember' \in {remember, "no"}
         /\ remember' # "no" => intent' = intent
<1> DEFINE m == Forgotten(mem, s)
<1>1. m \in Memories /\ Decodes(m) /\ Profiles(m) \subseteq Profiles(mem)
  BY ForgottenKeeps DEF MInv, Table
<1>2. Saved(m) \/ SaveFailed(m)
  BY DEF Forget, ForgetFailed
<1>3. Running
  BY DEF Running, Booting
<1> HIDE DEF m
<1>4. /\ Table' /\ Records' /\ OwedKept' /\ owed' \in Creds \cup {NoCred}
      /\ nvs'.settings = NoCred /\ nvs'.memory # Missing
      /\ faults' = 0 => nvs'.memory = mem'
      /\ Added \subseteq Profiles(m)
  BY <1>1, <1>2, <1>3, SavingKeeps
<1>5. Added = {}
  BY <1>1, <1>4 DEF Added
<1>6. intent' \in {intent, NoCred} /\ remember' \in {remember, "no"}
  BY DEF Forget, ForgetFailed
<1>7. remember' # "no" => intent' = intent
  <2>1. SUFFICES ASSUME remember' # "no", intent' # intent PROVE FALSE
    OBVIOUS
  <2>2. remember # "no" /\ intent = cur
    BY <1>6, <2>1 DEF MInv, IntentFollowed, Configuring
  <2>3. s # NoSlot /\ intent \in SameNetwork(mem.slot[s]) /\ mem.slot[s] \notin SameNetwork(cur)
    BY <2>1 DEF Forget, ForgetFailed
  <2>4. mem.slot[s] \in Creds
    BY <2>3 DEF MInv, Table, Memories, Taken
  <2> QED
    BY <2>2, <2>3, <2>4, CredsAssumption DEF SameNetwork
<1> QED
  BY <1>4, <1>5, <1>6, <1>7

LEMMA SavingSteps ==
  ASSUME MInv, [Next]_vars, Configure \/ RememberNow \/ ForgetSlot \/ Clear \/ ProcessMemory
  PROVE  MInv'
<1>1. faults' \in Nat /\ (faults' = 0 => faults = 0)
  BY FaultsGrow DEF MInv, Fields
<1>2. CASE Configure
  <2>1. pc = "command" /\ Running
    BY <1>2 DEF Configure, Execute, Running, Booting
  <2>2. PICK c \in Creds :
          \/ Refused
          \/ /\ SlotFor(mem, c) # NoSlot
             /\ \/ /\ Saved(Recall(mem, c)) /\ pc' = "prepare" /\ intent' = NoCred
                   /\ cmd' = [cred |-> c, remember |-> FALSE]
                \/ /\ SaveFailed(Recall(mem, c)) /\ pc' = "remember"
                   /\ UNCHANGED <<cmd, intent>>
             /\ UNCHANGED <<cur, remember>>
    BY <1>2 DEF Configure
  <2>3. CASE Refused
    <3>1. Quiet
      BY <2>3 DEF Refused, Quiet
    <3> QED
      BY <1>1, <2>1, <2>3, <3>1, QuietKeeps, <1>2
      DEF Refused, Quiet, MInv, Fields, BootInOrder, IntentFollowed, Phases, Booting, Configuring
  <2>4. CASE ~Refused
    <3> DEFINE m == Recall(mem, c)
    <3>1. m \in Memories /\ Decodes(m)
      BY <2>2, <2>4, RecallKeeps DEF MInv, Table
    <3> HIDE DEF m
    <3>2. Saved(m) \/ SaveFailed(m)
      BY <2>2, <2>4 DEF m
    <3>3. /\ Table' /\ Records' /\ OwedKept' /\ owed' \in Creds \cup {NoCred}
          /\ nvs'.settings = NoCred /\ nvs'.memory # Missing
          /\ faults' = 0 => nvs'.memory = mem'
      BY <1>1, <2>1, <3>1, <3>2, SavingKeeps
    <3>4. /\ cmd' \in [cred : Creds \cup {NoCred}, remember : BOOLEAN]
          /\ pc' = "remember" \/ (pc' = "prepare" /\ cmd'.cred # NoCred)
          /\ intent' \in {intent, NoCred} /\ UNCHANGED <<cur, remember>>
          /\ pc' = "remember" => intent' = intent
      <4>1. CASE /\ pc' = "prepare" /\ intent' = NoCred
                 /\ cmd' = [cred |-> c, remember |-> FALSE] /\ UNCHANGED <<cur, remember>>
        BY <4>1, CredsAssumption
      <4>2. CASE pc' = "remember" /\ UNCHANGED <<cmd, intent, cur, remember>>
        <5>1. cmd' \in [cred : Creds \cup {NoCred}, remember : BOOLEAN]
          BY <4>2 DEF MInv, Fields
        <5> QED
          BY <4>2, <5>1
      <4> QED
        BY <2>2, <2>4, <4>1, <4>2
    <3>5. Fields' /\ BootInOrder'
      BY <1>1, <3>3, <3>4, LegacyAssumption DEF MInv, Fields, BootInOrder, Phases, Booting, Configuring
    <3>6. IntentFollowed'
      BY <2>1, <3>4 DEF MInv, IntentFollowed, Booting, Configuring
    <3> QED
      BY <3>3, <3>5, <3>6 DEF MInv
  <2> QED
    BY <2>3, <2>4
<1>3. CASE RememberNow
  <2>1. pc = "command" /\ pc' = "remember" /\ Running /\ pc \notin Configuring
    BY <1>3 DEF RememberNow, Execute, Running, Booting, Configuring
  <2>2. CASE Matches
    BY <1>1, <1>3, <2>1, <2>2, Remembers DEF RememberNow
  <2>3. CASE ~Matches
    <3>1. Quiet /\ UNCHANGED <<cmd, cur>> /\ remember' = "no" /\ intent' = NoCred
      BY <1>3, <2>3 DEF RememberNow, IntentEnds, Quiet
    <3> QED
      BY <1>1, <2>1, <3>1, QuietKeeps
      DEF Quiet, MInv, Fields, BootInOrder, IntentFollowed, Phases, Booting, Configuring
  <2> QED
    BY <2>2, <2>3
<1>4. CASE ForgetSlot \/ (Clear /\ ~Refused)
  <2>1. /\ pc = "command" /\ pc' \in {"remember", "configure"}
        /\ \/ UNCHANGED <<cmd, cur>> /\ pc' = "remember"
           \/ /\ cmd' = [cred |-> NoCred, remember |-> FALSE] /\ cur' = NoCred
              /\ remember' = "no"
    BY <1>4 DEF ForgetSlot, Clear, Execute, Forget
  <2>2. PICK s \in Taken(mem) \cup {NoSlot} : Forget(s) \/ ForgetFailed(s)
    BY <1>4 DEF ForgetSlot, Clear
  <2>3. /\ Table' /\ Records' /\ OwedKept' /\ owed' \in Creds \cup {NoCred}
        /\ nvs'.settings = NoCred /\ nvs'.memory # Missing
        /\ faults' = 0 => nvs'.memory = mem'
        /\ intent' \in {intent, NoCred} /\ remember' \in {remember, "no"}
        /\ remember' # "no" => intent' = intent
    BY <1>1, <2>1, <2>2, Forgets
  <2>4. /\ cmd' \in [cred : Creds \cup {NoCred}, remember : BOOLEAN]
        /\ cur' \in Creds \cup {NoCred}
        /\ cur' = cur \/ remember' = "no"
        /\ pc' = "configure" => cmd'.remember = FALSE /\ remember' = "no"
    <3>1. CASE UNCHANGED <<cmd, cur>> /\ pc' = "remember"
      BY <3>1 DEF MInv, Fields
    <3>2. CASE /\ cmd' = [cred |-> NoCred, remember |-> FALSE] /\ cur' = NoCred
               /\ remember' = "no"
      BY <3>2
    <3> QED
      BY <2>1, <3>1, <3>2
  <2>5. Fields' /\ BootInOrder'
    BY <1>1, <2>1, <2>3, <2>4, LegacyAssumption
    DEF MInv, Fields, BootInOrder, Phases, Booting, Configuring
  <2>6. IntentFollowed'
    BY <2>1, <2>3, <2>4 DEF MInv, IntentFollowed, Booting, Configuring
  <2> QED
    BY <2>3, <2>5, <2>6 DEF MInv
<1>5. CASE Clear /\ Refused
  <2>1. Quiet /\ pc = "command"
    BY <1>5 DEF Refused, Quiet, Clear, Execute
  <2> QED
    BY <1>1, <1>5, <2>1, QuietKeeps
    DEF Refused, Quiet, MInv, Fields, BootInOrder, IntentFollowed, Phases, Booting, Configuring
<1>6. CASE ProcessMemory
  <2>1. pc \in {"command", "remember"} /\ pc' = "process" /\ Running /\ pc \notin Configuring
    BY <1>6 DEF ProcessMemory, Running, Booting, Configuring
  <2>2. CASE remember # "no" /\ Matches
    BY <1>1, <1>6, <2>1, <2>2, Remembers DEF ProcessMemory
  <2>3. CASE ~(remember # "no" /\ Matches)
    <3>1. /\ Quiet /\ UNCHANGED <<cmd, cur>>
          /\ (remember' = "no" /\ intent' = NoCred) \/ UNCHANGED <<remember, intent>>
      BY <1>6, <2>3 DEF ProcessMemory, IntentEnds, IntentStays, Quiet
    <3> QED
      BY <1>1, <2>1, <3>1, QuietKeeps
      DEF Quiet, MInv, Fields, BootInOrder, IntentFollowed, Phases, Booting, Configuring
  <2> QED
    BY <2>2, <2>3
<1> QED
  BY <1>2, <1>3, <1>4, <1>5, <1>6

\* Steps that add nothing to the memory or to its record.
LEMMA NothingAdded ==
  ASSUME MInv, [Next]_vars, pc \notin Booting, ~Configure, ~RememberNow,
         ~(ProcessMemory /\ remember # "no" /\ Matches)
  PROVE  Added = {}
<1>1. faults' \in Nat /\ (faults' = 0 => faults = 0)
  BY FaultsGrow DEF MInv, Fields
<1>2. ASSUME Quiet PROVE Added = {}
  BY <1>2 DEF Quiet, Added, Written
<1>3. CASE ProcessMemory
  BY <1>2, <1>3 DEF ProcessMemory, IntentEnds, IntentStays, Quiet
<1>4. CASE ForgetSlot \/ Clear
  <2>1. CASE Refused
    BY <1>2, <2>1 DEF Refused, Quiet
  <2>2. CASE ~Refused
    <3>1. pc = "command"
      BY <1>4 DEF ForgetSlot, Clear, Execute
    <3>2. PICK s \in Taken(mem) \cup {NoSlot} : Forget(s) \/ ForgetFailed(s)
      BY <1>4, <2>2 DEF ForgetSlot, Clear
    <3> QED
      BY <1>1, <3>1, <3>2, Forgets
  <2> QED
    BY <2>1, <2>2
<1>5. CASE Connect \/ Use \/ Reconnect \/ TurnOn \/ TurnOff \/ Disconnect \/ Scan
  BY <1>2, <1>5 DEF Connect, Use, Reconnect, ConnectTo, Refused, TurnOn, TurnOff, Disconnect,
                    Scan, IntentEnds, IntentStays, Quiet
<1>6. CASE \/ ProcessWifi \/ Connecting \/ Disconnecting \/ BeginConfiguring \/ ConfigureOff
           \/ TurnOffRefused \/ EventTask \/ World \/ UNCHANGED vars
  BY <1>2, <1>6 DEF ProcessWifi, Connecting, Disconnecting, BeginConfiguring, ConfigureOff,
         TurnOffRefused, EventTask, World, RememberDeadline, memVars, vars, Quiet
<1>7. CASE Prepared \/ EndConfiguring
  BY <1>2, <1>7 DEF Prepared, EndConfiguring, Configured, Quiet
<1>8. CASE Reboot
  <2>1. mem' = Empty /\ nvs' = nvs
    BY <1>8 DEF Reboot
  <2> QED
    BY <2>1, EmptyKeeps DEF Added, Written
<1> QED
  BY <1>3, <1>4, <1>5, <1>6, <1>7, <1>8
  DEF Next, Owner, Command, LoadSettings, LoadMemory, CleanSettings, Begin, Booting

\* What is remembered of a connection that matches is the network in use.
LEMMA RememberingSteps ==
  ASSUME MInv, [Next]_vars, Matches,
         RememberNow \/ (ProcessMemory /\ remember # "no")
  PROVE  Added \subseteq {cur}
<1>1. faults' \in Nat /\ (faults' = 0 => faults = 0)
  BY FaultsGrow DEF MInv, Fields
<1>2. /\ pc \in {"command", "remember"} /\ pc' \in {"remember", "process"}
      /\ Running /\ pc \notin Configuring
  BY DEF RememberNow, Execute, ProcessMemory, Running, Booting, Configuring
<1>3. RememberCurrent
  BY DEF RememberNow, ProcessMemory
<1> QED
  BY <1>1, <1>2, <1>3, Remembers

\* What each step adds is what is intended to be remembered.
LEMMA WantedSteps ==
  ASSUME MInv, [Next]_vars
  PROVE  Added \subseteq {intent} \/ pc \in Booting \/ Configure \/ RememberNow
<1>1. CASE ProcessMemory /\ remember # "no" /\ Matches
  <2>1. Added \subseteq {cur}
    BY <1>1, RememberingSteps
  <2>2. pc \in {"command", "remember"}
    BY <1>1 DEF ProcessMemory
  <2> QED
    BY <1>1, <2>1, <2>2 DEF MInv, IntentFollowed, Configuring
<1>2. CASE ~(ProcessMemory /\ remember # "no" /\ Matches)
  BY <1>2, NothingAdded
<1> QED
  BY <1>1, <1>2

-----------------------------------------------------------------------------
(* The types of the transport, the driver and the interface.               *)

LinkOK == /\ link \in Links /\ scan \in Scans /\ driver \in Drivers /\ netif \in Netifs
          /\ events \in Seq(Events)

LEMMA EventsPosted ==
  /\ \A q \in Seq(Events), e \in Events : Append(q, e) \in Seq(Events)
  /\ \A q, r \in Seq(Events) : q \o r \in Seq(Events)
  /\ \A q \in Seq(Events) : q # <<>> => Head(q) \in Events /\ Tail(q) \in Seq(Events)
  /\ \A e \in Events : <<e>> \in Seq(Events)
  /\ <<>> \in Seq(Events)
OBVIOUS

LEMMA EventsKnown ==
  \A k \in {"start", "stop", "connected", "disconnected", "got_ip", "lost_ip", "scan_done"} :
     k \in Events
BY DEF Events

LEMMA RetryKeeps ==
  ASSUME NEW l \in Links
  PROVE  Retry(l) \in Links
<1>1. [l EXCEPT !.state = "retry_wait", !.address = FALSE,
                !.deadline = "none", !.next = "later"] \in Links
  BY DEF Links, LinkStates
<1> QED
  BY <1>1 DEF Retry

LEMMA EventSteps ==
  ASSUME LinkOK, HandleEvent \/ Environment
  PROVE  LinkOK'
<1>1. HandleEvent => events' \in Seq(Events) /\ UNCHANGED driver
  BY EventsPosted DEF HandleEvent, Handle, OnStart, OnStop, OnConnected, OnDisconnected, OnGotIp,
                      OnLostIp, OnScanDone, LinkOK
<1>2. InterfaceDown \in Netifs
  BY DEF InterfaceDown, LinkOK, Netifs
<1>3. CASE OnStart
  <2>1. link' \in Links
    BY <1>3 DEF OnStart, LinkOK, Links, LinkStates
  <2> QED
    BY <1>3, <1>1, <2>1 DEF OnStart, LinkOK, HandleEvent
<1>4. CASE OnStop
  <2>1. link' \in Links
    BY <1>4 DEF OnStop, LinkOK, Links, LinkStates
  <2>2. netif' \in Netifs
    BY <1>4, <1>2 DEF OnStop, LinkOK, Netifs
  <2> QED
    BY <1>4, <1>1, <2>1, <2>2 DEF OnStop, LinkOK, HandleEvent
<1>5. CASE OnConnected
  <2>1. netif' \in Netifs
    BY <1>5 DEF OnConnected, LinkOK, Netifs
  <2> QED
    BY <1>5, <1>1, <2>1 DEF OnConnected, LinkOK, HandleEvent
<1>6. CASE OnDisconnected
  <2>1. link' \in Links
    BY <1>6, RetryKeeps DEF OnDisconnected, LinkOK, Links, LinkStates
  <2>2. netif' \in Netifs
    BY <1>6, <1>2 DEF OnDisconnected, LinkOK, Netifs
  <2> QED
    BY <1>6, <1>1, <2>1, <2>2 DEF OnDisconnected, LinkOK, HandleEvent
<1>7. CASE OnGotIp
  <2>1. link' \in Links
    BY <1>7 DEF OnGotIp, LinkOK, Links, LinkStates
  <2> QED
    BY <1>7, <1>1, <2>1 DEF OnGotIp, LinkOK, HandleEvent
<1>8. CASE OnLostIp
  <2>1. link' \in Links
    BY <1>8 DEF OnLostIp, LinkOK, Links, LinkStates
  <2> QED
    BY <1>8, <1>1, <2>1 DEF OnLostIp, LinkOK, HandleEvent
<1>9. CASE OnScanDone
  <2>1. scan' \in Scans
    BY <1>9 DEF OnScanDone, LinkOK, Scans
  <2> QED
    BY <1>9, <1>1, <2>1 DEF OnScanDone, LinkOK, HandleEvent
<1>10. CASE Associate
  <2>1. driver' \in Drivers
    BY <1>10 DEF Associate, LinkOK, Drivers
  <2>2. events' \in Seq(Events)
    BY <1>10, EventsPosted, EventsKnown DEF Associate, Post, LinkOK
  <2> QED
    BY <1>10, <2>1, <2>2 DEF Associate, LinkOK
<1>11. CASE Dissociate
  <2>1. driver' \in Drivers
    BY <1>11 DEF Dissociate, LinkOK, Drivers
  <2>2. events' \in Seq(Events)
    BY <1>11, EventsPosted, EventsKnown DEF Dissociate, Post, LinkOK
  <2> QED
    BY <1>11, <2>1, <2>2 DEF Dissociate, LinkOK
<1>12. CASE Lease
  <2>1. netif' \in Netifs
    BY <1>12 DEF Lease, LinkOK, Netifs
  <2>2. events' \in Seq(Events)
    BY <1>12, EventsPosted, EventsKnown DEF Lease, Post, LinkOK
  <2> QED
    BY <1>12, <2>1, <2>2 DEF Lease, LinkOK
<1>13. CASE LeaseEnds
  <2>1. netif' \in Netifs
    BY <1>13 DEF LeaseEnds, LinkOK, Netifs
  <2> QED
    BY <1>13, <2>1 DEF LeaseEnds, LinkOK
<1>14. CASE AddressLost
  <2>1. netif' \in Netifs
    BY <1>14 DEF AddressLost, LinkOK, Netifs
  <2>2. events' \in Seq(Events)
    BY <1>14, EventsPosted, EventsKnown DEF AddressLost, Post, LinkOK
  <2> QED
    BY <1>14, <2>1, <2>2 DEF AddressLost, LinkOK
<1>15. CASE ScanEnds
  <2>1. driver' \in Drivers
    BY <1>15 DEF ScanEnds, LinkOK, Drivers
  <2>2. events' \in Seq(Events)
    BY <1>15, EventsPosted, EventsKnown DEF ScanEnds, Post, LinkOK
  <2> QED
    BY <1>15, <2>1, <2>2 DEF ScanEnds, LinkOK
<1>16. CASE BackoffOver
  <2>1. link' \in Links
    BY <1>16 DEF BackoffOver, LinkOK, Links, LinkStates
  <2> QED
    BY <1>16, <2>1 DEF BackoffOver, LinkOK
<1>17. CASE ConnectDeadline
  <2>1. link' \in Links
    BY <1>17 DEF ConnectDeadline, LinkOK, Links, LinkStates
  <2> QED
    BY <1>17, <2>1 DEF ConnectDeadline, LinkOK
<1>18. CASE ScanDeadline
  <2>1. scan' \in Scans
    BY <1>18 DEF ScanDeadline, LinkOK, Scans
  <2> QED
    BY <1>18, <2>1 DEF ScanDeadline, LinkOK
<1>19. CASE Answer
  <2>1. netif' \in Netifs
    BY <1>19 DEF Answer, LinkOK, Netifs, Drivers
  <2> QED
    BY <1>19, <2>1 DEF Answer, LinkOK
<1> QED
  BY <1>3, <1>4, <1>5, <1>6, <1>7, <1>8, <1>9, <1>10, <1>11, <1>12, <1>13, <1>14, <1>15, <1>16, <1>17,
     <1>18, <1>19 DEF HandleEvent, Environment

(* The calls of the owner.                                                 *)

LEMMA Stopping == LinkOK => StopEvents \in Seq(Events)
<1> SUFFICES ASSUME LinkOK PROVE StopEvents \in Seq(Events)
  OBVIOUS
<1>1. (IF driver.scanning THEN <<"scan_done">> ELSE <<>>) \in Seq(Events)
  BY EventsPosted, EventsKnown
<1>2. (IF driver.phase # "idle" THEN <<"disconnected">> ELSE <<>>) \in Seq(Events)
  BY EventsPosted, EventsKnown
<1>3. <<"stop">> \in Seq(Events)
  BY EventsPosted, EventsKnown
<1> QED
  BY <1>1, <1>2, <1>3, EventsPosted DEF StopEvents

LEMMA NamesKnown == \A c \in Creds \cup {NoCred} : Named[c] \in {Named[d] : d \in Creds \cup {NoCred}}
OBVIOUS

LEMMA NoNameKnown == NoCred \in {Named[d] : d \in Creds \cup {NoCred}}
<1>1. Named[NoCred] = NoCred
  BY DEF Named
<1> QED
  BY <1>1

LEMMA RestLinks == NoLink \in Links /\ NoScan \in Scans /\ NoDriver \in Drivers /\ NoNetif \in Netifs
<1>1. NoLink \in Links
  BY NoNameKnown DEF NoLink, Links, LinkStates
<1> QED
  BY <1>1 DEF NoScan, Scans, NoDriver, Drivers, NoNetif, Netifs

LEMMA DriverCalls ==
  ASSUME LinkOK
  PROVE  /\ DriverDisconnect => driver' \in Drivers /\ events' \in Seq(Events)
         /\ DriverScanStop => driver' \in Drivers /\ events' \in Seq(Events)
<1>1. DriverDisconnect => driver' \in Drivers
  BY DEF DriverDisconnect, LinkOK, Drivers
<1>2. DriverScanStop => driver' \in Drivers
  BY DEF DriverScanStop, LinkOK, Drivers
<1>3. DriverDisconnect => events' \in Seq(Events)
  BY EventsPosted, EventsKnown DEF DriverDisconnect, LinkOK
<1>4. DriverScanStop => events' \in Seq(Events)
  BY EventsPosted, EventsKnown DEF DriverScanStop, LinkOK
<1> QED
  BY <1>1, <1>2, <1>3, <1>4

LEMMA ProcessCalls ==
  ASSUME LinkOK, \/ BeginAttempt \/ EndAttempt \/ ScanTimeout \/ NothingDue
                 \/ CallConnect \/ CallDisconnect
  PROVE  LinkOK'
<1>1. ScanCollected \in Scans
  BY RestLinks DEF ScanCollected, LinkOK
<1>2. CASE BeginAttempt
  <2>1. link' \in Links
    BY <1>2 DEF BeginAttempt, LinkOK, Links, LinkStates
  <2> QED
    BY <1>1, <1>2, <2>1 DEF BeginAttempt, LinkOK
<1>3. CASE EndAttempt
  BY <1>1, <1>3, RetryKeeps DEF EndAttempt, LinkOK
<1>4. CASE ScanTimeout
  <2>1. scan' \in Scans
    BY <1>4 DEF ScanTimeout, LinkOK, Scans
  <2> QED
    BY <1>4, <2>1, DriverCalls DEF ScanTimeout, LinkOK
<1>5. CASE NothingDue
  BY <1>1, <1>5 DEF NothingDue, LinkOK
<1>6. CASE CallConnect
  <2>1. driver' \in Drivers
    BY <1>6 DEF CallConnect, LinkOK, Drivers
  <2> QED
    BY <1>6, <2>1, RetryKeeps DEF CallConnect, LinkOK
<1>7. CASE CallDisconnect
  BY <1>7, DriverCalls DEF CallDisconnect, LinkOK
<1> QED
  BY <1>2, <1>3, <1>4, <1>5, <1>6, <1>7

LEMMA SwitchingCalls ==
  ASSUME LinkOK, NEW ok \in BOOLEAN,
         \/ DisconnectStation(ok) \/ Enable(ok) \/ Disable \/ DisableFails \/ DisableRefused
         \/ RequestScan(ok)
  PROVE  LinkOK'
<1>1. CASE UNCHANGED linkVars
  BY <1>1 DEF linkVars, LinkOK
<1>2. CASE DisconnectStation(ok) /\ ~UNCHANGED linkVars
  <2>1. link' \in Links
    <3> DEFINE Left == [link EXCEPT !.station = FALSE, !.next = "none", !.deadline = "none",
                                 !.address = FALSE,
                                 !.state = IF ok THEN "access_point" ELSE "failed"]
    <3>1. Left \in Links
      BY DEF LinkOK, Links, LinkStates
    <3> HIDE DEF Left
    <3>2. link' = Left
      BY <1>2 DEF DisconnectStation, Left
    <3> QED
      BY <3>1, <3>2
  <2> QED
    BY <1>2, <2>1, DriverCalls DEF DisconnectStation, LinkOK
<1>3. CASE Enable(ok) /\ ~UNCHANGED linkVars
  <2> DEFINE Fresh == [link EXCEPT !.enabled = TRUE, !.started = FALSE, !.next = "none",
                                !.deadline = "none",
                                !.state = IF link.station THEN "connecting"
                                          ELSE "access_point"]
  <2>1. Fresh \in Links
    BY DEF LinkOK, Links, LinkStates
  <2> HIDE DEF Fresh
  <2>2. [Fresh EXCEPT !.radio = "on"] \in Links
    BY <2>1 DEF Links, LinkStates
  <2>3. ASSUME NEW retained \in BOOLEAN
        PROVE  [Fresh EXCEPT !.radio = IF retained THEN "attempted" ELSE "off",
                             !.enabled = retained, !.state = "failed"] \in Links
    <3>1. (IF retained THEN "attempted" ELSE "off") \in {"off", "attempted", "on"}
      OBVIOUS
    <3> QED
      BY <2>1, <3>1 DEF Links, LinkStates
  <2>4. [driver EXCEPT !.on = TRUE] \in Drivers
    BY DEF LinkOK, Drivers
  <2>5. Append(events, "start") \in Seq(Events)
    BY EventsPosted, EventsKnown DEF LinkOK
  <2>6. /\ UNCHANGED <<scan, netif>>
        /\ \/ link' = [Fresh EXCEPT !.radio = "on"] /\ driver' = [driver EXCEPT !.on = TRUE]
              /\ events' \in {events, Append(events, "start")}
           \/ /\ UNCHANGED <<driver, events>>
              /\ \E retained \in BOOLEAN :
                    link' = [Fresh EXCEPT !.radio = IF retained THEN "attempted" ELSE "off",
                         !.enabled = retained, !.state = "failed"]
    BY <1>3 DEF Enable, Post, Fresh
  <2> QED
    BY <2>2, <2>3, <2>4, <2>5, <2>6 DEF LinkOK
<1>4. CASE Disable /\ ~UNCHANGED linkVars
  <2> DEFINE Off == [link EXCEPT !.radio = "off", !.enabled = FALSE, !.started = FALSE,
                                 !.state = "stopped", !.address = FALSE,
                                 !.next = "none", !.deadline = "none"]
             Silent == [driver EXCEPT !.on = FALSE, !.phase = "idle", !.scanning = FALSE]
             Ending == [scan EXCEPT !.cancelled = @ \/ scan.flying]
  <2>1. Off \in Links
    BY DEF LinkOK, Links, LinkStates
  <2>2. Silent \in Drivers
    BY DEF LinkOK, Drivers
  <2>3. Ending \in Scans
    BY DEF LinkOK, Scans
  <2>4. events \o StopEvents \in Seq(Events)
    BY Stopping, EventsPosted DEF LinkOK
  <2> HIDE DEF Off, Silent, Ending
  <2>5. /\ link' = Off /\ driver' = Silent /\ scan' = Ending /\ netif' = netif
        /\ events' = events \o StopEvents
    BY <1>4 DEF Disable, Off, Silent, Ending
  <2> QED
    BY <2>1, <2>2, <2>3, <2>4, <2>5 DEF LinkOK
<1>5. CASE DisableFails
  <2>1. link' \in Links /\ scan' \in Scans
    BY <1>5 DEF DisableFails, LinkOK, Links, Scans
  <2> QED
    BY <1>5, <2>1, DriverCalls DEF DisableFails, LinkOK
<1>6. CASE DisableRefused
  <2>1. link' \in Links
    BY <1>6 DEF DisableRefused, LinkOK, Links, LinkStates
  <2> QED
    BY <1>6, <2>1 DEF DisableRefused, LinkOK
<1>7. CASE RequestScan(ok) /\ ~UNCHANGED linkVars
  <2>1. [NoScan EXCEPT !.flying = TRUE] \in Scans
    BY DEF NoScan, Scans
  <2>2. driver' \in Drivers
    BY <1>7 DEF RequestScan, LinkOK, Drivers
  <2> QED
    BY <1>7, <2>1, <2>2 DEF RequestScan, LinkOK
<1> QED
  BY <1>1, <1>2, <1>3, <1>4, <1>5, <1>6, <1>7

LEMMA ConfigureCalls ==
  ASSUME LinkOK, NEW ok \in BOOLEAN, NEW c \in Creds \cup {NoCred},
         \/ ConfigureStopped(c, ok) \/ BeginConfigure(ok) \/ EndConfigure(c)
         \/ ConfigureFailed \/ Start(c) \/ LinkLost
  PROVE  LinkOK'
<1>1. CASE ConfigureStopped(c, ok)
  <2>1. link' \in Links
    <3> DEFINE Set == [link EXCEPT !.station = c # NoCred, !.started = FALSE,
                                   !.next = "none", !.deadline = "none",
                                   !.state = "stopped", !.ssid = Named[c], !.address = FALSE]
    <3>1. Set \in Links
      BY NamesKnown DEF LinkOK, Links, LinkStates
    <3> HIDE DEF Set
    <3>2. link' \in {link, Set}
      BY <1>1 DEF ConfigureStopped, Set
    <3> QED
      BY <3>1, <3>2 DEF LinkOK
  <2>2. driver' \in Drivers
    BY <1>1 DEF ConfigureStopped, LinkOK, Drivers
  <2> QED
    BY <1>1, <2>1, <2>2 DEF ConfigureStopped, LinkOK
<1>2. CASE BeginConfigure(ok)
  <2>1. link' \in Links
    BY <1>2, NoNameKnown DEF BeginConfigure, LinkOK, Links, LinkStates
  <2>2. driver' \in Drivers /\ UNCHANGED <<scan, netif>>
    BY <1>2 DEF BeginConfigure, LinkOK, Drivers
  <2>3. events \o StopEvents \in Seq(Events) /\ <<"start">> \in Seq(Events)
    BY Stopping, EventsPosted, EventsKnown DEF LinkOK
  <2>4. (events \o StopEvents) \o <<"start">> \in Seq(Events)
    BY <2>3, EventsPosted
  <2>5. events' \in Seq(Events)
    BY <1>2, <2>3, <2>4 DEF BeginConfigure, LinkOK
  <2> QED
    BY <2>1, <2>2, <2>5 DEF LinkOK
<1>3. CASE EndConfigure(c)
  <2>1. link' \in Links
    BY <1>3, NamesKnown DEF EndConfigure, LinkOK, Links, LinkStates
  <2>2. driver' \in Drivers
    BY <1>3 DEF EndConfigure, LinkOK, Drivers
  <2> QED
    BY <1>3, <2>1, <2>2 DEF EndConfigure, LinkOK
<1>4. CASE ConfigureFailed
  <2>1. link' \in Links
    BY <1>4 DEF ConfigureFailed, LinkOK, Links, LinkStates
  <2> QED
    BY <1>4, <2>1 DEF ConfigureFailed, LinkOK
<1>5. CASE Start(c)
  <2>1. link' \in Links
    BY <1>5, NamesKnown DEF Start, Links, LinkStates
  <2>2. driver' \in Drivers
    BY <1>5 DEF Start, Drivers
  <2>3. events' \in Seq(Events)
    BY <1>5, EventsPosted, EventsKnown DEF Start
  <2> QED
    BY <1>5, <2>1, <2>2, <2>3, RestLinks DEF Start, LinkOK
<1>6. CASE LinkLost
  BY <1>6, RestLinks, EventsPosted DEF LinkLost, LinkOK
<1> QED
  BY <1>1, <1>2, <1>3, <1>4, <1>5, <1>6

LEMMA LinkSteps ==
  ASSUME MInv, LinkOK, [Next]_vars
  PROVE  LinkOK'
<1> USE DEF linkVars
<1>1. CASE UNCHANGED linkVars
  BY <1>1 DEF LinkOK
<1>2. CASE LoadSettings \/ LoadMemory \/ CleanSettings
  BY <1>2 DEF LoadSettings, LoadMemory, CleanSettings, Boot, LinkOK
<1>3. CASE Begin
  <2>1. cur' \in Creds \cup {NoCred}
    BY <1>3 DEF Begin, MInv, Table, Decodes, Memories, Taken
  <2>2. CASE Start(cur')
    BY <2>1, <2>2, ConfigureCalls
  <2> QED
    BY <1>3, <2>2 DEF Begin, LinkOK
<1>4. CASE ProcessWifi \/ Connecting \/ Disconnecting
  BY <1>4, ProcessCalls DEF ProcessWifi, Connecting, Disconnecting
<1>5. CASE Connect \/ Use \/ Reconnect \/ Prepared
  <2>1. ASSUME NEW c, NEW keep, Prepare(c, keep)
        PROVE  LinkOK'
    BY <2>1, SwitchingCalls DEF Prepare, LinkOK
  <2>2. ASSUME NEW c, NEW keep, ConnectTo(c, keep)
        PROVE  LinkOK'
    BY <2>1, <2>2 DEF ConnectTo, Refused, LinkOK
  <2>3. Reconnect => LinkOK'
    BY <2>2 DEF Reconnect, Refused, LinkOK
  <2> QED
    BY <1>5, <2>1, <2>2, <2>3 DEF Connect, Use, Prepared
<1>6. CASE Configure \/ RememberNow \/ ForgetSlot \/ Clear \/ ProcessMemory
  BY <1>6 DEF Configure, RememberNow, ForgetSlot, Clear, ProcessMemory, Refused, RememberCurrent,
              LinkOK
<1>7. CASE TurnOn \/ TurnOff \/ Disconnect \/ Scan \/ TurnOffRefused
  BY <1>7, SwitchingCalls DEF TurnOn, TurnOff, Disconnect, Scan, TurnOffRefused
<1>8. CASE BeginConfiguring \/ ConfigureOff
  BY <1>8, ConfigureCalls DEF BeginConfiguring, ConfigureOff
<1>9. CASE EndConfiguring
  <2>1. cmd.cred \in Creds \cup {NoCred}
    BY DEF MInv, Fields
  <2> QED
    BY <1>1, <1>9, <2>1, ConfigureCalls DEF EndConfiguring, ConfigureRefused
<1>10. CASE EventTask \/ World
  BY <1>10, EventSteps DEF EventTask, World, RememberDeadline, LinkOK
<1>11. CASE Reboot
  BY <1>11, ConfigureCalls DEF Reboot
<1>12. CASE UNCHANGED vars
  BY <1>12 DEF vars, LinkOK
<1> QED
  BY <1>2, <1>3, <1>4, <1>5, <1>6, <1>7, <1>8, <1>9, <1>10, <1>11, <1>12
  DEF Next, Owner, Command

LEMMA StepsCounted ==
  ASSUME steps \in Nat, [Next]_vars
  PROVE  steps' \in Nat
<1>1. steps' = steps \/ steps' = steps + 1
  BY DEF Next, Owner, Command, EventTask, World, RememberDeadline, Reboot, vars, memVars,
         LoadSettings, LoadMemory, CleanSettings, Begin, ProcessWifi, Connecting, Disconnecting,
         Connect, Use, Reconnect, Configure, RememberNow, ForgetSlot, Clear, TurnOn, TurnOff,
         Disconnect, Scan, Execute, Prepared, BeginConfiguring, ConfigureOff, EndConfiguring,
         Configured, TurnOffRefused, ProcessMemory
<1> QED
  BY <1>1

-----------------------------------------------------------------------------
(* One scan at a time.  There is at most one of: a scan of the driver, its *)
(* result in the queue, its result noted; and none while the transport     *)
(* believes that no scan is in flight.                                     *)

Silent(s) == \A k \in DOMAIN s : s[k] # "scan_done"
Single(s) == \A j, k \in DOMAIN s : s[j] = "scan_done" /\ s[k] = "scan_done" => j = k

ScanInv ==
    /\ Single(events)
    /\ driver.scanning => Silent(events) /\ ~scan.done
    /\ scan.done => Silent(events)
    /\ ~scan.flying => Silent(events) /\ ~scan.done /\ ~driver.scanning

LEMMA Joined ==
  ASSUME NEW s \in Seq(Events), NEW t \in Seq(Events)
  PROVE  /\ Silent(s) /\ Silent(t) => Silent(s \o t)
         /\ Silent(s) /\ Single(t) => Single(s \o t)
         /\ Single(s) /\ Silent(t) => Single(s \o t)
<1>1. /\ s \o t \in Seq(Events) /\ DOMAIN s = 1..Len(s) /\ DOMAIN t = 1..Len(t)
      /\ Len(s) \in Nat /\ Len(t) \in Nat
      /\ DOMAIN (s \o t) = 1 .. Len(s) + Len(t)
  OBVIOUS
<1>2. ASSUME NEW k \in DOMAIN (s \o t)
      PROVE  \/ k \in DOMAIN s /\ (s \o t)[k] = s[k]
             \/ k - Len(s) \in DOMAIN t /\ (s \o t)[k] = t[k - Len(s)]
  BY <1>1
<1>3. Silent(s) /\ Silent(t) => Silent(s \o t)
  BY <1>2 DEF Silent
<1>4. Silent(s) /\ Single(t) => Single(s \o t)
  BY <1>1, <1>2 DEF Silent, Single
<1>5. Single(s) /\ Silent(t) => Single(s \o t)
  BY <1>1, <1>2 DEF Silent, Single
<1> QED
  BY <1>3, <1>4, <1>5

LEMMA Posted ==
  ASSUME NEW s \in Seq(Events), NEW e \in Events
  PROVE  /\ e # "scan_done" /\ Silent(s) => Silent(Append(s, e))
         /\ e # "scan_done" /\ Single(s) => Single(Append(s, e))
         /\ Silent(s) => Single(Append(s, e))
<1>1. /\ DOMAIN s = 1..Len(s) /\ Len(s) \in Nat
      /\ DOMAIN Append(s, e) = 1 .. Len(s) + 1
      /\ \A k \in 1..Len(s) : Append(s, e)[k] = s[k]
      /\ Append(s, e)[Len(s) + 1] = e
  OBVIOUS
<1> QED
  BY <1>1 DEF Silent, Single

LEMMA Handled ==
  ASSUME NEW s \in Seq(Events), s # <<>>
  PROVE  /\ Silent(s) => Silent(Tail(s))
         /\ Single(s) => Single(Tail(s))
         /\ Head(s) = "scan_done" => ~Silent(s)
         /\ Head(s) = "scan_done" /\ Single(s) => Silent(Tail(s))
<1>1. /\ DOMAIN s = 1..Len(s) /\ Len(s) \in Nat \ {0} /\ Head(s) = s[1]
      /\ DOMAIN Tail(s) = 1 .. Len(s) - 1
      /\ \A k \in 1 .. Len(s) - 1 : Tail(s)[k] = s[k + 1]
  OBVIOUS
<1>2. \A k \in DOMAIN Tail(s) : k + 1 \in DOMAIN s /\ k + 1 # 1 /\ Tail(s)[k] = s[k + 1]
  BY <1>1
<1>3. Silent(s) => Silent(Tail(s))
  BY <1>2 DEF Silent
<1>4. Single(s) => Single(Tail(s))
  <2>1. \A j, k \in DOMAIN Tail(s) : j + 1 = k + 1 => j = k
    BY <1>1
  <2> QED
    BY <1>2, <2>1 DEF Single
<1>5. 1 \in DOMAIN s
  BY <1>1
<1> QED
  BY <1>1, <1>2, <1>3, <1>4, <1>5 DEF Silent, Single

\* What the driver posts when its station stops, as far as scans go.
LEMMA StopPosts ==
  ASSUME LinkOK
  PROVE  Single(StopEvents) /\ (~driver.scanning => Silent(StopEvents))
<1> DEFINE a == IF driver.scanning THEN <<"scan_done">> ELSE <<>>
           b == IF driver.phase # "idle" THEN <<"disconnected">> ELSE <<>>
           c == <<"stop">>
<1>1. a \in Seq(Events) /\ Single(a) /\ (~driver.scanning => Silent(a))
  BY EventsPosted, EventsKnown DEF Silent, Single
<1>2. b \in Seq(Events) /\ Silent(b) /\ c \in Seq(Events) /\ Silent(c)
  BY EventsPosted, EventsKnown DEF Silent
<1>3. Silent(<<>>) /\ Single(<<>>)
  BY DEF Silent, Single
<1>4. StopEvents = IF ~driver.on \/ ~driver.apsta THEN <<>> ELSE a \o b \o c
  BY DEF StopEvents
<1> HIDE DEF a, b, c
<1>5. a \o b \in Seq(Events) /\ Single(a \o b) /\ (~driver.scanning => Silent(a \o b))
  BY <1>1, <1>2, Joined, EventsPosted
<1>6. Single(a \o b \o c) /\ (~driver.scanning => Silent(a \o b \o c))
  BY <1>2, <1>5, Joined
<1> QED
  BY <1>3, <1>4, <1>6

\* What a step may do to the scan: nothing but lose it, end it in the driver,
\* note its result, collect it, begin another, or start all over.
Quieter == (Silent(events) => Silent(events')) /\ (Single(events) => Single(events'))
SameScan == scan'.flying = scan.flying /\ scan'.done = scan.done
Passes == SameScan /\ Quieter /\ (driver'.scanning => driver.scanning)
Ends == SameScan /\ driver.scanning /\ ~driver'.scanning /\ (Silent(events) => Single(events'))
Noted == /\ scan'.flying = scan.flying /\ ~Silent(events) /\ Silent(events')
         /\ driver'.scanning = driver.scanning
Collected == /\ scan.flying /\ scan.done /\ scan' = NoScan
             /\ driver'.scanning = driver.scanning /\ events' = events
Begins == /\ ~scan.flying /\ scan' = [NoScan EXCEPT !.flying = TRUE] /\ events' = events
StartsOver == scan' = NoScan /\ ~driver'.scanning /\ Silent(events')

ScanMoves == Passes \/ Ends \/ Noted \/ Collected \/ Begins \/ StartsOver

LEMMA MovesKeep == ScanInv /\ ScanMoves => ScanInv'
<1> SUFFICES ASSUME ScanInv, ScanMoves PROVE ScanInv'
  OBVIOUS
<1>1. Silent(events') => Single(events')
  BY DEF Silent, Single
<1>2. CASE Passes
  BY <1>2 DEF Passes, SameScan, Quieter, ScanInv
<1>3. CASE Ends
  BY <1>3 DEF Ends, SameScan, ScanInv
<1>4. CASE Noted
  BY <1>1, <1>4 DEF Noted, ScanInv
<1>5. CASE Collected
  BY <1>5 DEF Collected, ScanInv, NoScan
<1>6. CASE Begins
  BY <1>6 DEF Begins, ScanInv, NoScan
<1>7. CASE StartsOver
  BY <1>1, <1>7 DEF StartsOver, ScanInv, NoScan
<1> QED
  BY <1>2, <1>3, <1>4, <1>5, <1>6, <1>7 DEF ScanMoves

LEMMA EventMoves ==
  ASSUME LinkOK, ScanInv, HandleEvent \/ Environment
  PROVE  ScanMoves
<1>1. ASSUME NEW kind, kind # "scan_done", Handle(kind), UNCHANGED scan PROVE Passes
  BY <1>1, Handled DEF Handle, LinkOK, Passes, SameScan, Quieter
<1>2. CASE HandleEvent /\ ~OnScanDone
  BY <1>1, <1>2 DEF HandleEvent, OnStart, OnStop, OnConnected, OnDisconnected, OnGotIp, OnLostIp,
                    ScanMoves
<1>3. CASE OnScanDone
  <2>1. scan'.flying = scan.flying
    BY <1>3 DEF OnScanDone, LinkOK, Scans
  <2> QED
    BY <1>3, <2>1, Handled DEF OnScanDone, Handle, LinkOK, ScanInv, Noted, ScanMoves
<1>4. CASE ScanEnds
  <2>1. ~driver'.scanning /\ driver.scanning /\ UNCHANGED scan
    BY <1>4 DEF ScanEnds, LinkOK, Drivers
  <2>2. Silent(events) => Single(events')
    BY <1>4, Posted, EventsKnown DEF ScanEnds, Post, LinkOK
  <2> QED
    BY <2>1, <2>2 DEF Ends, SameScan, ScanMoves
<1>5. CASE Associate \/ Dissociate \/ Lease \/ AddressLost
  <2>1. scan' = scan /\ driver'.scanning = driver.scanning
    BY <1>5 DEF Associate, Dissociate, Lease, AddressLost, LinkOK, Drivers
  <2>2. \E e \in Events : e # "scan_done" /\ events' \in {events, Append(events, e)}
    BY <1>5, EventsKnown DEF Associate, Dissociate, Lease, AddressLost, Post
  <2> QED
    BY <2>1, <2>2, Posted DEF LinkOK, Quieter, Passes, SameScan, ScanMoves
<1>6. CASE Answer \/ LeaseEnds \/ BackoffOver \/ ConnectDeadline \/ ScanDeadline
  <2>1. SameScan /\ UNCHANGED <<driver, events>>
    BY <1>6 DEF Answer, LeaseEnds, BackoffOver, ConnectDeadline, ScanDeadline, SameScan, LinkOK,
                Scans
  <2> QED
    BY <2>1 DEF Quieter, Passes, ScanMoves
<1> QED
  BY <1>2, <1>3, <1>4, <1>5, <1>6 DEF Environment

LEMMA DriverMoves ==
  ASSUME LinkOK
  PROVE  /\ DriverDisconnect => Quieter /\ driver'.scanning = driver.scanning
         /\ DriverScanStop => \/ UNCHANGED <<driver, events>>
                              \/ /\ driver.scanning /\ ~driver'.scanning
                                 /\ Silent(events) => Single(events')
<1>1. DriverDisconnect => driver'.scanning = driver.scanning
  BY DEF DriverDisconnect, LinkOK, Drivers
<1>2. DriverDisconnect => Quieter
  <2>1. "disconnected" # "scan_done" /\ "disconnected" \in Events
    BY EventsKnown
  <2> QED
    BY <2>1, Posted DEF DriverDisconnect, LinkOK, Quieter
<1>3. DriverScanStop /\ ~driver.scanning => UNCHANGED <<driver, events>>
  BY DEF DriverScanStop, LinkOK, Drivers
<1>4. DriverScanStop => ~driver'.scanning
  BY DEF DriverScanStop, LinkOK, Drivers
<1>5. DriverScanStop /\ driver.scanning => (Silent(events) => Single(events'))
  BY Posted, EventsKnown DEF DriverScanStop, LinkOK
<1> QED
  BY <1>1, <1>2, <1>3, <1>4, <1>5

LEMMA StillMoves == UNCHANGED <<scan, driver, events>> => ScanMoves
BY DEF ScanMoves, Passes, SameScan, Quieter

LEMMA ProcessMoves ==
  ASSUME LinkOK, \/ BeginAttempt \/ EndAttempt \/ ScanTimeout \/ NothingDue
                 \/ CallConnect \/ CallDisconnect
  PROVE  ScanMoves
<1>1. CASE BeginAttempt \/ EndAttempt \/ NothingDue
  <2>1. scan' = ScanCollected /\ UNCHANGED <<driver, events>>
    BY <1>1 DEF BeginAttempt, EndAttempt, NothingDue
  <2> QED
    BY <2>1, StillMoves DEF ScanCollected, ScanMoves, Collected
<1>2. CASE ScanTimeout
  <2>1. SameScan
    BY <1>2 DEF ScanTimeout, SameScan, LinkOK, Scans
  <2> QED
    BY <1>2, <2>1, DriverMoves DEF ScanTimeout, ScanMoves, Ends, Passes, Quieter
<1>3. CASE CallConnect
  <2>1. UNCHANGED <<scan, events>> /\ driver'.scanning = driver.scanning
    BY <1>3 DEF CallConnect, LinkOK, Drivers
  <2> QED
    BY <2>1 DEF ScanMoves, Passes, SameScan, Quieter
<1>4. CASE CallDisconnect
  BY <1>4, DriverMoves, StillMoves DEF CallDisconnect, ScanMoves, Passes, SameScan
<1> QED
  BY <1>1, <1>2, <1>3, <1>4

LEMMA SwitchingMoves ==
  ASSUME LinkOK, ScanInv, NEW ok \in BOOLEAN,
         \/ DisconnectStation(ok) \/ Enable(ok) \/ Disable \/ DisableFails \/ DisableRefused
         \/ RequestScan(ok)
  PROVE  ScanMoves
<1>1. CASE UNCHANGED linkVars
  BY <1>1, StillMoves DEF linkVars
<1>2. CASE DisconnectStation(ok) /\ ~UNCHANGED linkVars
  BY <1>2, DriverMoves, StillMoves DEF DisconnectStation, ScanMoves, Passes, SameScan
<1>3. CASE Enable(ok) /\ ~UNCHANGED linkVars
  <2>1. /\ scan' = scan /\ driver'.scanning = driver.scanning
        /\ events' \in {events, Append(events, "start")}
    BY <1>3 DEF Enable, Post, LinkOK, Drivers
  <2>2. "start" # "scan_done" /\ "start" \in Events
    BY EventsKnown
  <2>3. Quieter
    BY <2>1, <2>2, Posted DEF Quieter, LinkOK
  <2> QED
    BY <2>1, <2>3 DEF ScanMoves, Passes, SameScan
<1>4. CASE Disable /\ ~UNCHANGED linkVars
  <2>1. SameScan
    BY <1>4 DEF Disable, SameScan, LinkOK, Scans
  <2>2. ~driver'.scanning /\ events' = events \o StopEvents
    BY <1>4 DEF Disable, LinkOK, Drivers
  <2>3. CASE driver.scanning
    <3>1. Silent(events) => Single(events')
      BY <2>2, StopPosts, Stopping, Joined DEF LinkOK
    <3> QED
      BY <2>1, <2>2, <2>3, <3>1 DEF ScanMoves, Ends
  <2>4. CASE ~driver.scanning
    <3>1. Quieter
      BY <2>2, <2>4, StopPosts, Stopping, Joined DEF LinkOK, Quieter
    <3> QED
      BY <2>1, <2>2, <3>1 DEF ScanMoves, Passes
  <2> QED
    BY <2>3, <2>4
<1>5. CASE DisableFails
  <2>1. SameScan
    BY <1>5 DEF DisableFails, SameScan, LinkOK, Scans
  <2> QED
    BY <1>5, <2>1, DriverMoves DEF DisableFails, ScanMoves, Ends, Passes, Quieter
<1>6. CASE DisableRefused
  BY <1>6, StillMoves DEF DisableRefused
<1>7. CASE RequestScan(ok) /\ ~UNCHANGED linkVars
  BY <1>7, StillMoves DEF RequestScan, ScanMoves, Begins
<1> QED
  BY <1>1, <1>2, <1>3, <1>4, <1>5, <1>6, <1>7

LEMMA ConfigureMoves ==
  ASSUME LinkOK, ScanInv, NEW ok \in BOOLEAN, NEW c,
         \/ ConfigureStopped(c, ok) \/ BeginConfigure(ok) \/ EndConfigure(c)
         \/ ConfigureFailed \/ Start(c) \/ LinkLost
  PROVE  ScanMoves
<1>1. CASE ConfigureStopped(c, ok) \/ EndConfigure(c)
  <2>1. UNCHANGED <<scan, events>> /\ driver'.scanning = driver.scanning
    BY <1>1 DEF ConfigureStopped, EndConfigure, LinkOK, Drivers
  <2> QED
    BY <2>1 DEF ScanMoves, Passes, SameScan, Quieter
<1>2. CASE BeginConfigure(ok)
  <2>1. ~driver.scanning /\ scan' = scan /\ driver'.scanning = driver.scanning
    BY <1>2 DEF BeginConfigure, ScanInv, LinkOK, Drivers
  <2>2. <<"start">> \in Seq(Events) /\ Silent(<<"start">>)
    BY EventsPosted, EventsKnown DEF Silent
  <2>3. /\ events \o StopEvents \in Seq(Events)
        /\ Silent(events) => Silent(events \o StopEvents)
        /\ Single(events) => Single(events \o StopEvents)
    BY <2>1, StopPosts, Stopping, Joined, EventsPosted DEF LinkOK
  <2>4. /\ Silent(events) => Silent((events \o StopEvents) \o <<"start">>)
        /\ Single(events) => Single((events \o StopEvents) \o <<"start">>)
    BY <2>2, <2>3, Joined
  <2>5. Quieter
    BY <1>2, <2>3, <2>4 DEF BeginConfigure, Quieter
  <2> QED
    BY <2>1, <2>5 DEF ScanMoves, Passes, SameScan
<1>3. CASE ConfigureFailed
  BY <1>3, StillMoves DEF ConfigureFailed
<1>4. CASE Start(c)
  BY <1>4 DEF Start, StartsOver, ScanMoves, Silent
<1>5. CASE LinkLost
  BY <1>5 DEF LinkLost, NoDriver, StartsOver, ScanMoves, Silent
<1> QED
  BY <1>1, <1>2, <1>3, <1>4, <1>5

LEMMA ScanSteps ==
  ASSUME LinkOK, ScanInv, [Next]_vars
  PROVE  ScanMoves
<1> USE DEF linkVars
<1>1. CASE LoadSettings \/ LoadMemory \/ CleanSettings
  BY <1>1, StillMoves DEF LoadSettings, LoadMemory, CleanSettings, Boot
<1>2. CASE Begin
  BY <1>2, StillMoves, ConfigureMoves DEF Begin
<1>3. CASE ProcessWifi \/ Connecting \/ Disconnecting
  BY <1>3, ProcessMoves DEF ProcessWifi, Connecting, Disconnecting
<1>4. CASE Connect \/ Use \/ Reconnect \/ Prepared
  <2>1. ASSUME NEW c, NEW keep, Prepare(c, keep) PROVE ScanMoves
    BY <2>1, SwitchingMoves, StillMoves DEF Prepare
  <2>2. ASSUME NEW c, NEW keep, ConnectTo(c, keep) PROVE ScanMoves
    BY <2>1, <2>2, StillMoves DEF ConnectTo, Refused
  <2>3. Reconnect => ScanMoves
    BY <2>2, StillMoves DEF Reconnect, Refused
  <2> QED
    BY <1>4, <2>1, <2>2, <2>3 DEF Connect, Use, Prepared
<1>5. CASE Configure \/ RememberNow \/ ForgetSlot \/ Clear \/ ProcessMemory
  BY <1>5, StillMoves
  DEF Configure, RememberNow, ForgetSlot, Clear, ProcessMemory, Refused, RememberCurrent
<1>6. CASE TurnOn \/ TurnOff \/ Disconnect \/ Scan \/ TurnOffRefused
  BY <1>6, SwitchingMoves DEF TurnOn, TurnOff, Disconnect, Scan, TurnOffRefused
<1>7. CASE BeginConfiguring \/ ConfigureOff
  BY <1>7, ConfigureMoves DEF BeginConfiguring, ConfigureOff
<1>8. CASE EndConfiguring
  BY <1>8, ConfigureMoves, StillMoves DEF EndConfiguring, ConfigureRefused
<1>9. CASE EventTask \/ World
  BY <1>9, EventMoves, StillMoves DEF EventTask, World, RememberDeadline
<1>10. CASE Reboot
  BY <1>10, ConfigureMoves DEF Reboot
<1>11. CASE UNCHANGED vars
  BY <1>11, StillMoves DEF vars
<1> QED
  BY <1>1, <1>2, <1>3, <1>4, <1>5, <1>6, <1>7, <1>8, <1>9, <1>10, <1>11
  DEF Next, Owner, Command

-----------------------------------------------------------------------------
(* What vouches for a network.  A station that has started has no address  *)
(* but one of the network that is configured: the event that takes an      *)
(* older one away is handled before the event that starts the station,     *)
(* however many events wait.                                               *)

Down == {"disconnected", "stop"}

\* The interface may get an address, or has one.
Live == netif.dhcp \/ netif.answer # NoCred \/ netif.ip # NoCred

\* The interface is not live once the events before k have been handled.
Quenched(s, k, live) ==
    \/ \E d \in 1 .. k - 1 : s[d] \in Down /\ \A j \in d .. k - 1 : s[j] # "connected"
    \/ ~live /\ \A j \in 1 .. k - 1 : s[j] # "connected"

\* A station starts with an interface that is not live.
FreshStarts(s, live) == \A k \in 1 .. Len(s) : s[k] = "start" => Quenched(s, k, live)

Left(s, live) == Quenched(s, Len(s) + 1, live)

Queued == /\ FreshStarts(events, Live)
          /\ driver.phase # "up" => Left(events, Live)

Addressed == \A x \in {netif.answer, netif.ip} \ {NoCred} :
                link.started => x = driver.cred /\ pc # "set_config"

Started == link.state = "connected" => link.started

Vouched == Queued /\ Addressed /\ Started

\* The driver associates only on a radio that is on, and its configuration
\* changes only while it does not.
RadioUsed ==
    /\ link.radio # "on" => driver.phase = "idle"
    /\ link.radio = "on" => driver.on
    /\ link.station \/ driver.phase # "idle" => driver.apsta
    /\ link.radio = "on" /\ pc # "refused" => link.enabled
    /\ pc = "connect" => link.radio = "on" /\ link.station
    /\ pc = "set_config" => driver.phase = "idle" /\ driver.apsta

LEMMA Appended ==
  ASSUME NEW s \in Seq(Events), NEW e \in Events, NEW live \in BOOLEAN
  PROVE  /\ FreshStarts(s, live) /\ (e = "start" => Left(s, live))
              => FreshStarts(Append(s, e), live)
         /\ e # "connected" /\ Left(s, live) => Left(Append(s, e), live)
         /\ e \in Down => Left(Append(s, e), live)
<1> DEFINE t == Append(s, e)
<1>1. /\ Len(s) \in Nat /\ Len(t) = Len(s) + 1 /\ t[Len(s) + 1] = e
      /\ \A k \in 1 .. Len(s) : t[k] = s[k]
  OBVIOUS
<1> HIDE DEF t
<1>2. ASSUME NEW k \in 1 .. Len(s) + 1, Quenched(s, k, live) PROVE Quenched(t, k, live)
  BY <1>1, <1>2 DEF Quenched
<1>3. FreshStarts(s, live) /\ (e = "start" => Left(s, live)) => FreshStarts(t, live)
  BY <1>1, <1>2 DEF FreshStarts, Left
<1>4. e # "connected" /\ Left(s, live) => Left(t, live)
  <2> SUFFICES ASSUME e # "connected", Left(s, live) PROVE Left(t, live)
    OBVIOUS
  <2>1. CASE ~live /\ \A j \in 1 .. Len(s) : s[j] # "connected"
    BY <1>1, <2>1 DEF Left, Quenched
  <2>2. ASSUME NEW d \in 1 .. Len(s), s[d] \in Down, \A j \in d .. Len(s) : s[j] # "connected"
        PROVE  Left(t, live)
    <3>1. \A j \in d .. Len(s) + 1 : t[j] # "connected"
      BY <1>1, <2>2
    <3> QED
      BY <1>1, <2>2, <3>1 DEF Left, Quenched
  <2> QED
    BY <1>1, <2>1, <2>2 DEF Left, Quenched
<1>5. e \in Down => Left(t, live)
  BY <1>1 DEF Left, Quenched, Down
<1> QED
  BY <1>3, <1>4, <1>5 DEF t

LEMMA Joins ==
  ASSUME NEW s \in Seq(Events), NEW t \in Seq(Events), NEW live \in BOOLEAN,
         \A j \in 1 .. Len(t) : t[j] \notin {"start", "connected"}
  PROVE  /\ FreshStarts(s, live) => FreshStarts(s \o t, live)
         /\ Left(s, live) \/ (\E d \in 1 .. Len(t) : t[d] \in Down) => Left(s \o t, live)
<1> DEFINE u == s \o t
<1>1. /\ Len(s) \in Nat /\ Len(t) \in Nat /\ Len(u) = Len(s) + Len(t)
      /\ \A k \in 1 .. Len(s) : u[k] = s[k]
      /\ \A k \in Len(s) + 1 .. Len(u) : k - Len(s) \in 1 .. Len(t) /\ u[k] = t[k - Len(s)]
  OBVIOUS
<1>2. \A d \in 1 .. Len(t) : d + Len(s) \in 1 .. Len(u) /\ u[d + Len(s)] = t[d]
  OBVIOUS
<1> HIDE DEF u
<1>3. \A k \in Len(s) + 1 .. Len(u) : u[k] \notin {"start", "connected"}
  BY <1>1
<1>4. ASSUME NEW k \in 1 .. Len(s), Quenched(s, k, live) PROVE Quenched(u, k, live)
  <2>1. \A j \in 1 .. k - 1 : u[j] = s[j]
    BY <1>1
  <2> QED
    BY <1>4, <2>1 DEF Quenched
<1>5. FreshStarts(s, live) => FreshStarts(u, live)
  BY <1>1, <1>3, <1>4 DEF FreshStarts
<1>6. ASSUME NEW d \in 1 .. Len(t), t[d] \in Down PROVE Left(u, live)
  <2>1. \A j \in d + Len(s) .. Len(u) : u[j] # "connected"
    BY <1>1, <1>3
  <2>2. d + Len(s) \in 1 .. (Len(u) + 1) - 1 /\ u[d + Len(s)] \in Down
    BY <1>1, <1>2, <1>6
  <2>3. (Len(u) + 1) - 1 = Len(u)
    BY <1>1
  <2> QED
    BY <2>1, <2>2, <2>3 DEF Left, Quenched
<1>7. ASSUME Left(s, live) PROVE Left(u, live)
  <2>1. CASE ~live /\ \A j \in 1 .. Len(s) : s[j] # "connected"
    BY <1>1, <1>3, <2>1 DEF Left, Quenched
  <2>2. ASSUME NEW d \in 1 .. Len(s), s[d] \in Down, \A j \in d .. Len(s) : s[j] # "connected"
        PROVE  Left(u, live)
    <3>1. \A j \in d .. Len(u) : u[j] # "connected"
      BY <1>1, <1>3, <2>2
    <3> QED
      BY <1>1, <2>2, <3>1 DEF Left, Quenched
  <2> QED
    BY <1>1, <1>7, <2>1, <2>2 DEF Left, Quenched
<1> QED
  BY <1>5, <1>6, <1>7 DEF u

\* The head of the queue is handled, and the interface changes as it says.
LEMMA Dequeued ==
  ASSUME NEW s \in Seq(Events), s # <<>>, NEW live \in BOOLEAN, NEW then \in BOOLEAN,
         then /\ Head(s) # "connected" => live /\ Head(s) \notin Down
  PROVE  /\ FreshStarts(s, live) => FreshStarts(Tail(s), then)
         /\ Left(s, live) => Left(Tail(s), then)
         /\ Head(s) = "start" /\ FreshStarts(s, live) => ~live
<1> DEFINE t == Tail(s)
<1>1. /\ Len(s) \in Nat \ {0} /\ Head(s) = s[1] /\ Len(t) = Len(s) - 1
      /\ \A k \in 1 .. Len(t) : t[k] = s[k + 1]
  OBVIOUS
<1> HIDE DEF t
<1>2. ASSUME NEW k \in 1 .. Len(t) + 1, Quenched(s, k + 1, live) PROVE Quenched(t, k, then)
  <2>1. ASSUME NEW d \in 2 .. k, s[d] \in Down, \A j \in d .. k : s[j] # "connected"
        PROVE  Quenched(t, k, then)
    <3>1. d - 1 \in 1 .. k - 1 /\ t[d - 1] \in Down
      BY <1>1, <2>1
    <3>2. \A j \in d - 1 .. k - 1 : t[j] # "connected"
      BY <1>1, <2>1
    <3> QED
      BY <3>1, <3>2 DEF Quenched
  <2>2. CASE \A j \in 1 .. k : s[j] # "connected"
    <3>1. \A j \in 1 .. k - 1 : t[j] # "connected"
      BY <1>1, <2>2
    <3>2. s[1] # "connected"
      BY <2>2, <1>1
    <3>3. CASE ~live \/ s[1] \in Down
      BY <1>1, <3>1, <3>2, <3>3 DEF Quenched
    <3>4. CASE live /\ s[1] \notin Down
      <4>1. PICK d \in 1 .. k : s[d] \in Down /\ \A j \in d .. k : s[j] # "connected"
        BY <1>2, <3>4 DEF Quenched
      <4>2. d # 1
        BY <3>4, <4>1
      <4> QED
        BY <2>1, <4>1, <4>2
    <3> QED
      BY <3>3, <3>4
  <2>3. CASE \E j \in 1 .. k : s[j] = "connected"
    <3>1. PICK d \in 1 .. k : s[d] \in Down /\ \A j \in d .. k : s[j] # "connected"
      BY <1>2, <2>3 DEF Quenched
    <3>2. CASE d = 1
      BY <2>3, <3>1, <3>2
    <3>3. CASE d # 1
      BY <2>1, <3>1, <3>3
    <3> QED
      BY <3>2, <3>3
  <2> QED
    BY <2>2, <2>3
<1>3. FreshStarts(s, live) => FreshStarts(t, then)
  <2> SUFFICES ASSUME FreshStarts(s, live), NEW k \in 1 .. Len(t), t[k] = "start"
               PROVE  Quenched(t, k, then)
    BY DEF FreshStarts
  <2>1. k + 1 \in 1 .. Len(s) /\ s[k + 1] = "start"
    BY <1>1
  <2> QED
    BY <1>1, <1>2, <2>1 DEF FreshStarts
<1>4. Left(s, live) => Left(t, then)
  BY <1>1, <1>2 DEF Left
<1>5. Head(s) = "start" /\ FreshStarts(s, live) => ~live
  BY <1>1 DEF FreshStarts, Quenched
<1> QED
  BY <1>3, <1>4, <1>5 DEF t

LEMMA Weakened ==
  ASSUME NEW s, NEW live \in BOOLEAN, NEW then \in BOOLEAN, then => live
  PROVE  /\ FreshStarts(s, live) => FreshStarts(s, then)
         /\ Left(s, live) => Left(s, then)
BY DEF FreshStarts, Left, Quenched

Unrelated(t) == t \in Seq(Events) /\ \A j \in 1 .. Len(t) : t[j] \notin {"start", "connected"}

LEMMA StopSays ==
  ASSUME LinkOK
  PROVE  /\ Unrelated(StopEvents)
         /\ driver.on /\ driver.apsta => \E d \in 1 .. Len(StopEvents) : StopEvents[d] \in Down
<1> DEFINE a == IF driver.scanning THEN <<"scan_done">> ELSE <<>>
           b == IF driver.phase # "idle" THEN <<"disconnected">> ELSE <<>>
           c == <<"stop">>
<1>1. Unrelated(a) /\ Unrelated(b) /\ Unrelated(c) /\ Unrelated(<<>>)
  BY EventsPosted, EventsKnown DEF Unrelated
<1>2. Len(c) = 1 /\ c[1] \in Down
  BY DEF Down
<1>3. StopEvents = IF ~driver.on \/ ~driver.apsta THEN <<>> ELSE a \o b \o c
  BY DEF StopEvents
<1> HIDE DEF a, b, c
<1>4. ASSUME NEW s, NEW t, Unrelated(s), Unrelated(t)
      PROVE  /\ Unrelated(s \o t)
             /\ (\E d \in 1 .. Len(t) : t[d] \in Down)
                   => \E d \in 1 .. Len(s \o t) : (s \o t)[d] \in Down
  <2> DEFINE u == s \o t
  <2>1. /\ u \in Seq(Events) /\ Len(s) \in Nat /\ Len(t) \in Nat /\ Len(u) = Len(s) + Len(t)
        /\ \A k \in 1 .. Len(s) : u[k] = s[k]
        /\ \A k \in Len(s) + 1 .. Len(u) : k - Len(s) \in 1 .. Len(t) /\ u[k] = t[k - Len(s)]
        /\ \A d \in 1 .. Len(t) : d + Len(s) \in 1 .. Len(u) /\ u[d + Len(s)] = t[d]
    BY <1>4 DEF Unrelated
  <2> HIDE DEF u
  <2>2. Unrelated(u)
    <3> SUFFICES ASSUME NEW k \in 1 .. Len(u) PROVE u[k] \notin {"start", "connected"}
      BY <2>1 DEF Unrelated
    <3>1. CASE k \in 1 .. Len(s)
      BY <1>4, <2>1, <3>1 DEF Unrelated
    <3>2. CASE k \in Len(s) + 1 .. Len(u)
      BY <1>4, <2>1, <3>2 DEF Unrelated
    <3> QED
      BY <2>1, <3>1, <3>2
  <2>3. (\E d \in 1 .. Len(t) : t[d] \in Down) => \E d \in 1 .. Len(u) : u[d] \in Down
    BY <2>1
  <2> QED
    BY <2>2, <2>3 DEF u
<1>5. Unrelated((a \o b) \o c)
      /\ \E d \in 1 .. Len((a \o b) \o c) : ((a \o b) \o c)[d] \in Down
  <2>1. Unrelated(a \o b)
    BY <1>1, <1>4
  <2>2. \E d \in 1 .. Len(c) : c[d] \in Down
    BY <1>2
  <2> QED
    BY <1>1, <1>4, <2>1, <2>2
<1> QED
  BY <1>1, <1>3, <1>5

\* What the owner and the driver post, as far as the queue goes.
QueuePosts ==
    \/ events' = events /\ (driver'.phase = "up" \/ driver.phase # "up")
    \/ events' = Append(events, "disconnected")
    \/ events' = Append(events, "scan_done") /\ driver'.phase = driver.phase
    \/ events' = Append(events, "start") /\ driver.phase # "up"
    \/ events' = events \o StopEvents
    \/ events' = events \o StopEvents \o <<"start">> /\ driver'.phase # "up"

LEMMA PostsKeep ==
  ASSUME LinkOK, RadioUsed, Queued, netif' = netif, QueuePosts
  PROVE  Queued'
<1>1. events \in Seq(Events) /\ Live \in BOOLEAN /\ Live' = Live
      /\ FreshStarts(events, Live) /\ (driver.phase # "up" => Left(events, Live))
  BY DEF LinkOK, Netifs, Live, Queued
<1>2. ASSUME FreshStarts(events', Live), driver'.phase # "up" => Left(events', Live)
      PROVE  Queued'
  BY <1>1, <1>2 DEF Queued
<1>3. ASSUME NEW e \in Events, events' = Append(events, e), e # "connected",
             e = "start" => Left(events, Live),
             e \in Down \/ (driver'.phase # "up" => Left(events, Live))
      PROVE  Queued'
  <2>1. FreshStarts(events', Live)
    BY <1>1, <1>3, Appended
  <2>2. driver'.phase # "up" => Left(events', Live)
    BY <1>1, <1>3, Appended
  <2> QED
    BY <1>2, <2>1, <2>2
<1>4. "disconnected" \in Events /\ "scan_done" \in Events /\ "start" \in Events
      /\ "disconnected" \in Down
  BY EventsKnown DEF Down
<1>5. /\ StopEvents \in Seq(Events) /\ events \o StopEvents \in Seq(Events)
      /\ FreshStarts(events \o StopEvents, Live) /\ Left(events \o StopEvents, Live)
  <2>1. driver.phase = "up" => driver.on /\ driver.apsta
    BY DEF RadioUsed
  <2>2. StopEvents \in Seq(Events)
        /\ \A j \in 1 .. Len(StopEvents) : StopEvents[j] \notin {"start", "connected"}
    BY StopSays DEF Unrelated
  <2>3. Left(events, Live) \/ \E d \in 1 .. Len(StopEvents) : StopEvents[d] \in Down
    BY <1>1, <2>1, StopSays
  <2> QED
    BY <1>1, <2>2, <2>3, Joins, EventsPosted
<1>6. (events \o StopEvents) \o <<"start">> = Append(events \o StopEvents, "start")
  BY <1>1, <1>5
<1>7. CASE events' = events /\ (driver'.phase = "up" \/ driver.phase # "up")
  BY <1>1, <1>2, <1>7
<1>8. CASE events' = Append(events, "disconnected")
  BY <1>3, <1>4, <1>8
<1>9. CASE events' = Append(events, "scan_done") /\ driver'.phase = driver.phase
  BY <1>1, <1>3, <1>4, <1>9
<1>10. CASE events' = Append(events, "start") /\ driver.phase # "up"
  BY <1>1, <1>3, <1>4, <1>10
<1>11. CASE events' = events \o StopEvents
  BY <1>2, <1>5, <1>11
<1>12. CASE events' = events \o StopEvents \o <<"start">>
  BY <1>1, <1>2, <1>4, <1>5, <1>6, <1>12, Appended
<1> QED
  BY <1>7, <1>8, <1>9, <1>10, <1>11, <1>12 DEF QueuePosts

LEMMA RadioHeard ==
  ASSUME LinkOK, HandleEvent \/ Environment
  PROVE  /\ UNCHANGED <<link.radio, link.enabled, link.station, driver.on, driver.apsta>>
         /\ driver'.phase = "idle" \/ driver'.phase = driver.phase \/ driver.phase = "trying"
<1>1. ASSUME NEW l \in Links
      PROVE  /\ Retry(l).radio = l.radio /\ Retry(l).enabled = l.enabled
             /\ Retry(l).station = l.station
  BY DEF Retry, Links
<1>2. UNCHANGED <<link.radio, link.enabled, link.station>>
  <2>1. CASE HandleEvent
    BY <1>1, <2>1 DEF HandleEvent, OnStart, OnStop, OnConnected, OnDisconnected, OnGotIp, OnLostIp,
                OnScanDone, LinkOK, Links
  <2>2. CASE Environment
    BY <2>2 DEF Environment, Associate, Dissociate, Answer, Lease, LeaseEnds, AddressLost, ScanEnds,
                BackoffOver, ConnectDeadline, ScanDeadline, LinkOK, Links
  <2> QED
    BY <2>1, <2>2
<1>3. /\ UNCHANGED <<driver.on, driver.apsta>>
      /\ driver'.phase = "idle" \/ driver'.phase = driver.phase \/ driver.phase = "trying"
  <2>1. CASE HandleEvent
    BY <2>1 DEF HandleEvent, OnStart, OnStop, OnConnected, OnDisconnected, OnGotIp, OnLostIp,
                OnScanDone, Handle
  <2>2. CASE Environment
    BY <2>2 DEF Environment, Associate, Dissociate, Answer, Lease, LeaseEnds, AddressLost, ScanEnds,
                BackoffOver, ConnectDeadline, ScanDeadline, LinkOK, Drivers
  <2> QED
    BY <2>1, <2>2
<1> QED
  BY <1>2, <1>3

LEMMA RadioKept ==
  ASSUME LinkOK, RadioUsed, [Next]_vars
  PROVE  RadioUsed'
<1> USE DEF linkVars
<1>1. CASE LoadSettings \/ LoadMemory \/ CleanSettings
  BY <1>1 DEF LoadSettings, LoadMemory, CleanSettings, Boot, RadioUsed
<1>2. CASE Begin
  BY <1>2 DEF Begin, Start, RadioUsed
<1>3. CASE ProcessWifi
  <2>1. /\ UNCHANGED <<link.radio, link.enabled, link.station>>
        /\ UNCHANGED <<driver.on, driver.apsta, driver.phase>>
    BY <1>3 DEF ProcessWifi, BeginAttempt, EndAttempt, ScanTimeout, NothingDue, DriverScanStop,
                Retry, LinkOK, Links, Drivers
  <2>2. pc = "process" /\ pc' \in {"connect", "disconnect", "command"}
        /\ (pc' = "connect" => link.radio = "on" /\ link.station)
    BY <1>3 DEF ProcessWifi, BeginAttempt, ConnectIsDue, StationFree
  <2> QED
    BY <2>1, <2>2 DEF RadioUsed
<1>4. CASE Connecting \/ Disconnecting
  <2>1. /\ UNCHANGED <<link.radio, link.enabled, link.station, driver.on, driver.apsta>>
        /\ pc = "connect" \/ driver'.phase \in {"idle", driver.phase}
        /\ pc \in {"connect", "disconnect"} /\ pc' = "command"
    BY <1>4 DEF Connecting, Disconnecting, CallConnect, CallDisconnect, DriverDisconnect, Retry,
                LinkOK, Links, Drivers
  <2> QED
    BY <2>1 DEF RadioUsed
<1>5. ASSUME NEW ok \in BOOLEAN, Enable(ok), pc \in {"command", "prepare"},
             pc' \in {"configure", "remember"}
      PROVE  RadioUsed'
  <2>1. CASE UNCHANGED linkVars
    BY <1>5, <2>1 DEF RadioUsed
  <2>2. CASE ~UNCHANGED linkVars
    <3>1. link.radio # "on" /\ driver.phase = "idle"
      BY <1>5, <2>2 DEF Enable, RadioUsed
    <3>2. /\ link'.station = link.station /\ driver'.phase = driver.phase
          /\ driver'.apsta = driver.apsta
          /\ \/ link'.radio = "on" /\ link'.enabled /\ driver'.on
             \/ link'.radio # "on"
      BY <1>5, <2>2 DEF Enable, LinkOK, Links, Drivers
    <3> QED
      BY <1>5, <3>1, <3>2 DEF RadioUsed
  <2> QED
    BY <2>1, <2>2
<1>6. CASE Connect \/ Use \/ Reconnect \/ Prepared
  <2>1. ASSUME NEW c, NEW keep, Prepare(c, keep), pc \in {"command", "prepare"} PROVE RadioUsed'
    BY <1>5, <2>1 DEF Prepare, RadioUsed
  <2>2. ASSUME NEW c, NEW keep, ConnectTo(c, keep), pc = "command" PROVE RadioUsed'
    BY <2>1, <2>2 DEF ConnectTo, Refused, RadioUsed
  <2>3. Reconnect => RadioUsed'
    BY <2>2 DEF Reconnect, Execute, Refused, RadioUsed
  <2> QED
    BY <1>6, <2>1, <2>2, <2>3 DEF Connect, Use, Execute, Prepared
<1>7. CASE Configure \/ RememberNow \/ ForgetSlot \/ Clear \/ ProcessMemory
  BY <1>7 DEF Configure, RememberNow, ForgetSlot, Clear, ProcessMemory, Refused, RememberCurrent,
              Execute, RadioUsed
<1>8. CASE TurnOn
  BY <1>5, <1>8 DEF TurnOn, Execute
<1>9. CASE TurnOff /\ Disable
  <2>1. pc = "command" /\ pc' \in {"remember", "refused"}
    BY <1>9 DEF TurnOff, Execute
  <2>2. CASE AlreadyDisabled
    BY <1>9, <2>1, <2>2 DEF Disable, AlreadyDisabled, RadioUsed
  <2>3. CASE ~AlreadyDisabled
    <3>1. /\ link'.radio = "off" /\ link'.station = link.station
          /\ driver'.phase = "idle" /\ driver'.apsta = driver.apsta
      BY <1>9, <2>3 DEF Disable, LinkOK, Links, Drivers
    <3> QED
      BY <2>1, <3>1 DEF RadioUsed
  <2> QED
    BY <2>2, <2>3
<1>10. CASE TurnOff /\ DisableFails /\ pc' = "refused"
  <2>1. /\ UNCHANGED <<link.radio, link.station>>
        /\ UNCHANGED <<driver.on, driver.apsta, driver.phase>>
    BY <1>10 DEF DisableFails, DriverScanStop, LinkOK, Links, Drivers
  <2> QED
    BY <1>10, <2>1 DEF RadioUsed
<1>11. CASE TurnOffRefused
  <2>1. UNCHANGED <<link.radio, link.station, driver>> /\ link'.enabled = TRUE
    BY <1>11 DEF TurnOffRefused, DisableRefused, LinkOK, Links
  <2> QED
    BY <1>11, <2>1 DEF TurnOffRefused, RadioUsed
<1>12. CASE Disconnect
  <2>1. CASE UNCHANGED linkVars
    BY <1>12, <2>1 DEF Disconnect, Execute, RadioUsed
  <2>2. CASE ~UNCHANGED linkVars
    <3>1. /\ link'.radio = link.radio /\ link'.enabled = link.enabled /\ ~link'.station
          /\ (driver' = [driver EXCEPT !.phase = "idle"]) \/ driver' = driver
      BY <1>12, <2>2 DEF Disconnect, DisconnectStation, DriverDisconnect, LinkOK, Links
    <3>2. /\ driver'.on = driver.on /\ driver'.apsta = driver.apsta
          /\ driver'.phase \in {"idle", driver.phase}
      BY <3>1 DEF LinkOK, Drivers
    <3> QED
      BY <1>12, <3>1, <3>2 DEF Disconnect, Execute, RadioUsed
  <2> QED
    BY <2>1, <2>2
<1>13. CASE Scan
  <2>1. link' = link /\ UNCHANGED <<driver.on, driver.apsta, driver.phase>>
    BY <1>13 DEF Scan, RequestScan, LinkOK, Drivers
  <2> QED
    BY <1>13, <2>1 DEF Scan, Execute, RadioUsed
<1>14. CASE BeginConfiguring
  <2>1. /\ link.radio = "on" /\ link.enabled
        /\ link'.radio = "on" /\ link'.enabled /\ ~link'.station
    BY <1>14 DEF BeginConfiguring, BeginConfigure, LinkOK, Links
  <2>2. /\ driver'.on = driver.on
        /\ \/ driver'.phase = "idle" /\ driver'.apsta /\ pc' = "set_config"
           \/ driver'.phase = "idle" /\ pc' = "failed"
           \/ driver' = driver /\ pc' = "failed"
    BY <1>14 DEF BeginConfiguring, BeginConfigure, LinkOK, Drivers
  <2> QED
    BY <2>1, <2>2 DEF RadioUsed
<1>15. CASE ConfigureOff
  <2>1. /\ link.radio = "off" /\ link'.radio = "off" /\ pc' = "remember"
        /\ driver'.phase = driver.phase
        /\ driver'.apsta \/ (driver'.apsta = driver.apsta /\ link' = link)
    BY <1>15 DEF ConfigureOff, ConfigureStopped, LinkOK, Links, Drivers
  <2> QED
    BY <2>1 DEF RadioUsed
<1>16. CASE EndConfiguring
  <2>1. /\ UNCHANGED <<link.radio, link.enabled, driver.on, driver.apsta, driver.phase>>
        /\ link'.station = link.station \/ pc = "set_config"
        /\ pc \in {"configure", "set_config", "failed"} /\ pc' = "remember"
    BY <1>16 DEF EndConfiguring, Configured, EndConfigure, ConfigureFailed, ConfigureRefused,
                LinkOK, Links, Drivers
  <2> QED
    BY <2>1 DEF RadioUsed
<1>17. CASE EventTask \/ World
  <2>1. CASE HandleEvent \/ Environment
    <3>1. pc' = pc
      BY <1>17, <2>1 DEF EventTask, World, RememberDeadline
    <3> QED
      BY <2>1, <3>1, RadioHeard DEF RadioUsed
  <2>2. CASE RememberDeadline
    BY <2>2 DEF RememberDeadline, RadioUsed
  <2> QED
    BY <1>17, <2>1, <2>2 DEF EventTask, World
<1>18. CASE Reboot
  BY <1>18 DEF Reboot, LinkLost, NoLink, NoDriver, RadioUsed
<1>19. CASE UNCHANGED vars
  BY <1>19 DEF vars, RadioUsed
<1> QED
  BY <1>1, <1>2, <1>3, <1>4, <1>6, <1>7, <1>8, <1>9, <1>10, <1>11, <1>12, <1>13, <1>14, <1>15,
     <1>16, <1>17, <1>18, <1>19 DEF Next, Owner, Command, TurnOff

\* Steps that leave the interface and the configuration of the driver alone.
LEMMA Unmoved ==
  ASSUME LinkOK, RadioUsed, Vouched, netif' = netif, driver'.cred = driver.cred, QueuePosts,
         link'.started => link.started /\ (pc' = pc \/ pc' # "set_config"),
         Started'
  PROVE  Vouched'
<1>1. Queued'
  BY PostsKeep DEF Vouched
<1>2. Addressed'
  BY DEF Vouched, Addressed
<1> QED
  BY <1>1, <1>2 DEF Vouched

LEMMA RetryRests ==
  ASSUME NEW l \in Links
  PROVE  /\ Retry(l).started = l.started
         /\ Retry(l).state = "connected" => l.state = "connected"
BY DEF Retry, Links

\* The event task.
LEMMA EventsVouch ==
  ASSUME LinkOK, Vouched, HandleEvent, pc' = pc
  PROVE  Vouched'
<1>1. /\ events \in Seq(Events) /\ events # <<>> /\ events' = Tail(events) /\ driver' = driver
      /\ Live \in BOOLEAN /\ Live' \in BOOLEAN
  BY DEF LinkOK, Netifs, Live, HandleEvent, Handle, OnStart, OnStop, OnConnected,
         OnDisconnected, OnGotIp, OnLostIp, OnScanDone
<1>2. InterfaceDown.dhcp = FALSE /\ InterfaceDown.answer = NoCred /\ InterfaceDown.ip = NoCred
  BY DEF InterfaceDown
<1>3. CASE OnStop \/ OnDisconnected
  <2>1. netif'.dhcp = FALSE /\ netif'.answer = NoCred /\ netif'.ip = NoCred
    BY <1>2, <1>3 DEF OnStop, OnDisconnected
  <2>2. ~Live'
    BY <2>1 DEF Live
  <2>3. Queued'
    BY <1>1, <2>2, Dequeued DEF Vouched, Queued
  <2>4. Addressed'
    BY <2>1 DEF Addressed
  <2>5. Started'
    BY <1>3, RetryRests DEF OnStop, OnDisconnected, Vouched, Started, LinkOK, Links
  <2> QED
    BY <2>3, <2>4, <2>5 DEF Vouched
<1>4. CASE OnConnected
  <2>1. netif'.answer = netif.answer /\ netif'.ip = netif.ip /\ link' = link
        /\ Head(events) = "connected"
    BY <1>4 DEF OnConnected, Handle, LinkOK, Netifs
  <2>2. Queued'
    BY <1>1, <2>1, Dequeued DEF Vouched, Queued
  <2> QED
    BY <1>1, <2>1, <2>2 DEF Vouched, Addressed, Started
<1>5. CASE OnStart
  <2>1. Head(events) = "start" /\ netif' = netif /\ Live' = Live
    BY <1>5 DEF OnStart, Handle, Live
  <2>2. Queued' /\ ~Live
    BY <1>1, <2>1, Dequeued DEF Vouched, Queued, Down
  <2>3. Addressed'
    BY <2>1, <2>2 DEF Addressed, Live
  <2>4. Started'
    BY <1>5 DEF OnStart, Vouched, Started, LinkOK, Links
  <2> QED
    BY <2>2, <2>3, <2>4 DEF Vouched
<1>6. CASE OnGotIp \/ OnLostIp \/ OnScanDone
  <2>1. Head(events) \notin Down /\ Head(events) # "connected" /\ netif' = netif /\ Live' = Live
    BY <1>6 DEF OnGotIp, OnLostIp, OnScanDone, Handle, Live, Down
  <2>2. Queued'
    BY <1>1, <2>1, Dequeued DEF Vouched, Queued
  <2>3. link'.started = link.started /\ Started'
    BY <1>6 DEF OnGotIp, OnLostIp, OnScanDone, Vouched, Started, LinkOK, Links
  <2>4. Addressed'
    BY <1>1, <2>1, <2>3 DEF Vouched, Addressed
  <2> QED
    BY <2>2, <2>3, <2>4 DEF Vouched
<1> QED
  BY <1>3, <1>4, <1>5, <1>6 DEF HandleEvent

\* The driver, the air and the clock.
LEMMA WorldVouches ==
  ASSUME LinkOK, RadioUsed, Vouched, Environment, pc' = pc
  PROVE  Vouched'
<1>1. events \in Seq(Events) /\ Live \in BOOLEAN /\ Live' \in BOOLEAN
  BY DEF LinkOK, Netifs, Live
<1>2. link'.started = link.started /\ link'.state = link.state
  BY DEF Environment, Associate, Dissociate, Answer, Lease, LeaseEnds, AddressLost, ScanEnds,
         BackoffOver, ConnectDeadline, ScanDeadline, LinkOK, Links
<1>3. Started'
  BY <1>2 DEF Vouched, Started
<1>4. driver'.cred = driver.cred
  BY DEF Environment, Associate, Dissociate, Answer, Lease, LeaseEnds, AddressLost, ScanEnds,
         BackoffOver, ConnectDeadline, ScanDeadline, LinkOK, Drivers
<1>5. CASE Associate
  <2>1. driver'.phase = "up" /\ netif' = netif /\ Live' = Live
        /\ events' = Append(events, "connected")
    BY <1>5 DEF Associate, Post, LinkOK, Drivers, Live
  <2>2. Queued'
    BY <1>1, <2>1, Appended, EventsKnown DEF Vouched, Queued
  <2>3. Addressed'
    BY <1>2, <1>4, <2>1 DEF Vouched, Addressed
  <2> QED
    BY <1>3, <2>2, <2>3 DEF Vouched
<1>6. CASE Dissociate \/ ScanEnds \/ BackoffOver \/ ConnectDeadline \/ ScanDeadline
  <2>1. netif' = netif /\ QueuePosts
    BY <1>6 DEF Dissociate, ScanEnds, BackoffOver, ConnectDeadline, ScanDeadline, Post, LinkOK,
                Drivers, QueuePosts
  <2> QED
    BY <1>2, <1>3, <1>4, <2>1, Unmoved
<1>7. CASE Answer
  <2>1. /\ driver.phase = "up" /\ driver' = driver /\ events' = events
        /\ netif'.answer = driver.cred /\ netif'.ip = netif.ip
        /\ netif'.dhcp = netif.dhcp /\ netif.dhcp
    BY <1>7 DEF Answer, LinkOK, Netifs
  <2>2. Live' = Live
    BY <2>1 DEF Live
  <2>3. Queued'
    BY <2>1, <2>2 DEF Vouched, Queued
  <2>4. pc # "set_config"
    BY <2>1 DEF RadioUsed
  <2>5. Addressed'
    BY <1>2, <2>1, <2>4 DEF Vouched, Addressed
  <2> QED
    BY <1>3, <2>3, <2>5 DEF Vouched
<1>8. CASE Lease
  <2>1. /\ driver' = driver /\ events' = Append(events, "got_ip") /\ netif.answer # NoCred
        /\ netif'.answer = NoCred /\ netif'.ip = netif.answer /\ netif'.dhcp = netif.dhcp
    BY <1>8 DEF Lease, Post, LinkOK, Netifs
  <2>2. Live' = Live
    BY <2>1 DEF Live
  <2>3. Queued'
    BY <1>1, <2>1, <2>2, Appended, EventsKnown DEF Vouched, Queued
  <2>4. Addressed'
    BY <1>2, <2>1 DEF Vouched, Addressed
  <2> QED
    BY <1>3, <2>3, <2>4 DEF Vouched
<1>9. CASE LeaseEnds
  <2>1. /\ driver' = driver /\ events' = events /\ netif'.answer = netif.answer
        /\ netif'.ip = NoCred /\ netif'.dhcp = netif.dhcp
    BY <1>9 DEF LeaseEnds, LinkOK, Netifs
  <2>2. Live' => Live
    BY <2>1 DEF Live
  <2>3. Queued'
    BY <1>1, <2>1, <2>2, Weakened DEF Vouched, Queued
  <2>4. Addressed'
    BY <1>2, <2>1 DEF Vouched, Addressed
  <2> QED
    BY <1>3, <2>3, <2>4 DEF Vouched
<1>10. CASE AddressLost
  <2>1. /\ driver' = driver /\ events' \in {events, Append(events, "lost_ip")}
        /\ netif'.answer = netif.answer /\ netif'.ip = netif.ip /\ netif'.dhcp = netif.dhcp
    BY <1>10 DEF AddressLost, Post, LinkOK, Netifs
  <2>2. Live' = Live
    BY <2>1 DEF Live
  <2>3. Queued'
    BY <1>1, <2>1, <2>2, Appended, EventsKnown DEF Vouched, Queued
  <2>4. Addressed'
    BY <1>2, <2>1 DEF Vouched, Addressed
  <2> QED
    BY <1>3, <2>3, <2>4 DEF Vouched
<1> QED
  BY <1>5, <1>6, <1>7, <1>8, <1>9, <1>10 DEF Environment

\* process().
LEMMA ProcessVouches ==
  ASSUME LinkOK, RadioUsed, Vouched, pc' # "set_config",
         \/ BeginAttempt \/ EndAttempt \/ ScanTimeout \/ NothingDue
         \/ CallConnect \/ CallDisconnect
  PROVE  Vouched'
<1>1. netif' = netif /\ driver'.cred = driver.cred
  BY DEF BeginAttempt, EndAttempt, ScanTimeout, NothingDue, CallConnect, CallDisconnect,
         DriverScanStop, DriverDisconnect, LinkOK, Drivers
<1>2. link'.started = link.started /\ (link'.state = "connected" => link.state = "connected")
  BY RetryRests DEF BeginAttempt, EndAttempt, ScanTimeout, NothingDue, CallConnect,
                    CallDisconnect, LinkOK, Links
<1>3. Started'
  BY <1>2 DEF Vouched, Started
<1>4. QueuePosts
  BY DEF BeginAttempt, EndAttempt, ScanTimeout, NothingDue, CallConnect, CallDisconnect,
         DriverScanStop, DriverDisconnect, QueuePosts, LinkOK, Drivers
<1> QED
  BY <1>1, <1>2, <1>3, <1>4, Unmoved

\* The calls that switch the radio, the station and a scan.
LEMMA SwitchingVouches ==
  ASSUME LinkOK, RadioUsed, Vouched, NEW ok \in BOOLEAN, pc' # "set_config",
         \/ DisconnectStation(ok) \/ (Enable(ok) /\ pc # "refused") \/ Disable \/ DisableFails
         \/ DisableRefused \/ RequestScan(ok)
  PROVE  Vouched'
<1>1. CASE UNCHANGED linkVars
  <2>1. UNCHANGED <<link, driver, netif, events>>
    BY <1>1 DEF linkVars
  <2>2. QueuePosts /\ Started'
    BY <2>1 DEF QueuePosts, Vouched, Started
  <2> QED
    BY <2>1, <2>2, Unmoved
<1>2. CASE Enable(ok) /\ pc # "refused" /\ ~UNCHANGED linkVars
  <2>1. driver.phase = "idle"
    BY <1>2 DEF Enable, RadioUsed
  <2>2. /\ netif' = netif /\ driver'.cred = driver.cred /\ driver'.phase = driver.phase
        /\ ~link'.started /\ link'.state # "connected"
        /\ events' \in {events, Append(events, "start")}
    <3> DEFINE Fresh == [link EXCEPT !.enabled = TRUE, !.started = FALSE, !.next = "none",
                                  !.deadline = "none",
                                  !.state = IF link.station THEN "connecting"
                                            ELSE "access_point"]
    <3>1. Fresh \in Links /\ ~Fresh.started /\ Fresh.state # "connected"
      BY DEF LinkOK, Links, LinkStates
    <3> HIDE DEF Fresh
    <3>2. /\ UNCHANGED netif
          /\ \/ link' = [Fresh EXCEPT !.radio = "on"] /\ driver' = [driver EXCEPT !.on = TRUE]
                /\ events' \in {events, Append(events, "start")}
             \/ /\ UNCHANGED <<driver, events>>
                /\ \E retained \in BOOLEAN :
                      link' = [Fresh EXCEPT !.radio = IF retained THEN "attempted" ELSE "off",
                                            !.enabled = retained, !.state = "failed"]
      BY <1>2 DEF Enable, Post, Fresh
    <3>3. driver'.cred = driver.cred /\ driver'.phase = driver.phase
      BY <3>2 DEF LinkOK, Drivers
    <3>4. ~link'.started /\ link'.state # "connected"
      BY <3>1, <3>2 DEF Links
    <3> QED
      BY <3>2, <3>3, <3>4
  <2>3. QueuePosts /\ Started'
    BY <2>1, <2>2 DEF QueuePosts, Started
  <2> QED
    BY <2>2, <2>3, Unmoved
<1>3. CASE Disable /\ ~UNCHANGED linkVars
  <2>1. /\ netif' = netif /\ driver'.cred = driver.cred
        /\ ~link'.started /\ link'.state # "connected" /\ events' = events \o StopEvents
    BY <1>3 DEF Disable, LinkOK, Links, Drivers
  <2>2. QueuePosts /\ Started'
    BY <2>1 DEF QueuePosts, Started
  <2> QED
    BY <2>1, <2>2, Unmoved
<1>4. CASE (DisconnectStation(ok) \/ RequestScan(ok)) /\ ~UNCHANGED linkVars
  <2>1. /\ netif' = netif /\ driver'.cred = driver.cred /\ link'.started = link.started
        /\ link'.state = "connected" => link.state = "connected"
    BY <1>4 DEF DisconnectStation, RequestScan, DriverDisconnect, LinkOK, Links, Drivers
  <2>2. QueuePosts
    BY <1>4 DEF DisconnectStation, RequestScan, DriverDisconnect, QueuePosts, LinkOK, Drivers
  <2>3. Started'
    BY <2>1 DEF Vouched, Started
  <2> QED
    BY <2>1, <2>2, <2>3, Unmoved
<1>5. CASE DisableFails \/ DisableRefused
  <2>1. /\ netif' = netif /\ driver'.cred = driver.cred /\ link'.started = link.started
        /\ link'.state = "connected" => link.state = "connected"
    BY <1>5 DEF DisableFails, DisableRefused, DriverScanStop, LinkOK, Links, Drivers
  <2>2. QueuePosts
    BY <1>5 DEF DisableFails, DisableRefused, DriverScanStop, QueuePosts, LinkOK, Drivers
  <2>3. Started'
    BY <2>1 DEF Vouched, Started
  <2> QED
    BY <2>1, <2>2, <2>3, Unmoved
<1> QED
  BY <1>1, <1>2, <1>3, <1>4, <1>5

\* configure(), start() and the loss of power.
LEMMA ConfigureVouches ==
  ASSUME LinkOK, RadioUsed, Vouched, NEW ok \in BOOLEAN, NEW c
  PROVE  /\ ConfigureStopped(c, ok) /\ pc' # "set_config" => Vouched'
         /\ BeginConfigure(ok) => Vouched'
         /\ EndConfigure(c) /\ pc = "set_config" /\ pc' # "set_config" => Vouched'
         /\ (ConfigureRefused \/ ConfigureFailed) /\ pc' # "set_config" => Vouched'
         /\ Start(c) \/ LinkLost => Vouched'
<1>1. ASSUME ConfigureStopped(c, ok), pc' # "set_config" PROVE Vouched'
  <2>1. netif' = netif /\ events' = events /\ driver'.phase = driver.phase
    BY <1>1 DEF ConfigureStopped, LinkOK, Drivers
  <2>2. Queued'
    BY <2>1 DEF Vouched, Queued, Live
  <2>3. \/ link' = link /\ driver'.cred = driver.cred
        \/ ~link'.started /\ link'.state # "connected"
    BY <1>1 DEF ConfigureStopped, LinkOK, Links, Drivers
  <2>4. Addressed' /\ Started'
    BY <1>1, <2>1, <2>3 DEF Vouched, Addressed, Started
  <2> QED
    BY <2>2, <2>4 DEF Vouched
<1>2. ASSUME BeginConfigure(ok) PROVE Vouched'
  <2>1. /\ netif' = netif /\ driver'.cred = driver.cred
        /\ ~link'.started /\ link'.state # "connected"
    BY <1>2 DEF BeginConfigure, LinkOK, Links, Drivers
  <2>2. QueuePosts
    BY <1>2 DEF BeginConfigure, QueuePosts, LinkOK, Drivers
  <2>3. Started'
    BY <2>1 DEF Started
  <2> QED
    BY <2>1, <2>2, <2>3, Unmoved
<1>3. ASSUME EndConfigure(c), pc = "set_config", pc' # "set_config" PROVE Vouched'
  <2>1. netif' = netif /\ events' = events /\ driver'.phase = driver.phase
        /\ link'.started = link.started /\ link'.state # "connected"
    BY <1>3 DEF EndConfigure, LinkOK, Links, Drivers
  <2>2. Queued'
    BY <2>1 DEF Vouched, Queued, Live
  <2>3. Addressed' /\ Started'
    BY <1>3, <2>1 DEF Vouched, Addressed, Started
  <2> QED
    BY <2>2, <2>3 DEF Vouched
<1>4. ASSUME ConfigureRefused \/ ConfigureFailed, pc' # "set_config" PROVE Vouched'
  <2>1. /\ UNCHANGED <<netif, driver, events>> /\ link'.started = link.started
        /\ link'.state = "connected" => link.state = "connected"
    BY <1>4 DEF ConfigureRefused, ConfigureFailed, linkVars, LinkOK, Links
  <2>2. QueuePosts /\ Started'
    BY <2>1 DEF QueuePosts, Vouched, Started
  <2> QED
    BY <1>4, <2>1, <2>2, Unmoved
<1>5. ASSUME Start(c) \/ LinkLost PROVE Vouched'
  <2>1. /\ netif' = NoNetif /\ events' \in {<<>>, <<"start">>} /\ ~link'.started
        /\ link'.state # "connected"
    BY <1>5 DEF Start, LinkLost, NoLink
  <2>2. ~Live' /\ \A k \in 1 .. Len(events') : events'[k] # "connected"
    BY <2>1 DEF Live, NoNetif
  <2>3. Len(events') \in Nat
    BY <2>1
  <2>4. Queued'
    BY <2>2, <2>3 DEF Queued, FreshStarts, Left, Quenched
  <2> QED
    BY <2>1, <2>4 DEF Vouched, Addressed, Started
<1> QED
  BY <1>1, <1>2, <1>3, <1>4, <1>5

LEMMA VouchSteps ==
  ASSUME LinkOK, RadioUsed, Vouched, [Next]_vars
  PROVE  Vouched'
<1> USE DEF linkVars
<1>1. ASSUME UNCHANGED linkVars, pc' # "set_config" \/ pc' = pc PROVE Vouched'
  <2>1. UNCHANGED <<link, driver, netif, events>>
    BY <1>1
  <2>2. QueuePosts /\ Started'
    BY <2>1 DEF QueuePosts, Vouched, Started
  <2> QED
    BY <1>1, <2>1, <2>2, Unmoved
<1>2. ASSUME UNCHANGED <<link, driver, netif, events>>, pc' # "set_config" PROVE Vouched'
  <2>1. QueuePosts /\ Started'
    BY <1>2 DEF QueuePosts, Vouched, Started
  <2> QED
    BY <1>2, <2>1, Unmoved
<1>3. CASE LoadSettings \/ LoadMemory \/ CleanSettings
  BY <1>2, <1>3 DEF LoadSettings, LoadMemory, CleanSettings, Boot
<1>4. CASE Begin
  BY <1>2, <1>4, ConfigureVouches DEF Begin
<1>5. CASE ProcessWifi \/ Connecting \/ Disconnecting
  BY <1>5, ProcessVouches DEF ProcessWifi, Connecting, Disconnecting
<1>6. CASE Connect \/ Use \/ Reconnect \/ Prepared
  <2>1. ASSUME NEW c, NEW keep, Prepare(c, keep), pc # "refused" PROVE Vouched'
    BY <1>1, <2>1, SwitchingVouches DEF Prepare
  <2>2. ASSUME NEW c, NEW keep, ConnectTo(c, keep), pc # "refused" PROVE Vouched'
    BY <1>1, <2>1, <2>2 DEF ConnectTo, Refused
  <2>3. Reconnect => Vouched'
    BY <1>1, <2>2 DEF Reconnect, Refused, Execute
  <2> QED
    BY <1>6, <2>1, <2>2, <2>3 DEF Connect, Use, Execute, Prepared
<1>7. CASE Configure \/ RememberNow \/ ForgetSlot \/ Clear \/ ProcessMemory
  BY <1>2, <1>7
  DEF Configure, RememberNow, ForgetSlot, Clear, ProcessMemory, Refused, RememberCurrent
<1>8. CASE TurnOn \/ TurnOff \/ Disconnect \/ Scan \/ TurnOffRefused
  BY <1>8, SwitchingVouches DEF TurnOn, TurnOff, Disconnect, Scan, TurnOffRefused, Execute
<1>9. CASE BeginConfiguring \/ ConfigureOff
  BY <1>9, ConfigureVouches DEF BeginConfiguring, ConfigureOff
<1>10. CASE EndConfiguring
  BY <1>10, ConfigureVouches DEF EndConfiguring, Configured
<1>11. CASE EventTask
  BY <1>11, EventsVouch DEF EventTask
<1>12. CASE World
  BY <1>1, <1>12, WorldVouches DEF World, RememberDeadline
<1>13. CASE Reboot
  BY <1>13, ConfigureVouches DEF Reboot
<1>14. CASE UNCHANGED vars
  BY <1>1, <1>14 DEF vars
<1> QED
  BY <1>3, <1>4, <1>5, <1>6, <1>7, <1>8, <1>9, <1>10, <1>11, <1>12, <1>13, <1>14
  DEF Next, Owner, Command

\* An address vouches for the network in use, and for no other.
LEMMA ProvenSteps ==
  ASSUME MInv, Vouched, [Next]_vars
  PROVE  Added \subseteq {netif.ip} \/ pc \in Booting \/ Configure
<1>1. CASE Matches /\ (RememberNow \/ (ProcessMemory /\ remember # "no"))
  <2>1. Added \subseteq {cur}
    BY <1>1, RememberingSteps
  <2>2. link.state = "connected" /\ driver.cred = cur /\ netif.ip # NoCred
    BY <1>1 DEF Matches, ConnectionMatches
  <2>3. link.started
    BY <2>2 DEF Vouched, Started
  <2>4. netif.ip = cur
    BY <2>2, <2>3 DEF Vouched, Addressed
  <2> QED
    BY <2>1, <2>4
<1>2. CASE RememberNow /\ ~Matches
  <2>1. Added = {}
    BY <1>2 DEF RememberNow, IntentEnds, Added, Written
  <2> QED
    BY <2>1
<1>3. CASE ~RememberNow /\ ~(ProcessMemory /\ remember # "no" /\ Matches)
  BY <1>3, NothingAdded
<1> QED
  BY <1>1, <1>2, <1>3

-----------------------------------------------------------------------------
THEOREM Invariance == Spec => []MInv
<1>1. Init => MInv
  BY EmptyKeeps, CredsAssumption, LegacyAssumption, MissingAssumption
  DEF Init, MInv, Table, Records, Fields, BootInOrder, OwedKept, IntentFollowed, Written,
      Phases, Booting, Configuring
<1>2. MInv /\ [Next]_vars => MInv'
  BY RadioSteps, CommandSteps, ConfiguringSteps, BootSteps, SavingSteps
  DEF Next, Owner, Command
<1> QED
  BY <1>1, <1>2, PTL DEF Spec

\* Every variable keeps its shape: the transport, the driver, the queue of events,
\* the memory and its records.
THEOREM TypeCorrect == Spec => []TypeOK
<1>1. Init => LinkOK /\ steps \in Nat
  BY RestLinks, EventsPosted DEF Init, LinkDown, LinkOK
<1>2. MInv /\ LinkOK /\ steps \in Nat /\ [Next]_vars => (LinkOK /\ steps \in Nat)'
  BY LinkSteps, StepsCounted
<1>3. MInv /\ LinkOK /\ steps \in Nat => TypeOK
  BY DEF MInv, Table, Records, Fields, LinkOK, TypeOK, LinkTypeOK, Phases, Booting, Configuring
<1> QED
  BY <1>1, <1>2, <1>3, Invariance, PTL DEF Spec

\* The record in NVS always decodes: no command, failed write or loss of power
\* leaves one that load() refuses, after which the device would not start.
THEOREM RecordDecodes == Spec => []SavedDecodes
<1>1. MInv => SavedDecodes
  BY DEF MInv, Records, SavedDecodes
<1> QED
  BY <1>1, Invariance, PTL

\* The migration of load() loses the older credentials at no moment.
THEOREM MigrationIsSafe == Spec => []MigrationKeeps
<1>1. MInv => MigrationKeeps
  BY DEF MInv, OwedKept, MigrationKeeps, Written
<1> QED
  BY <1>1, Invariance, PTL

\* While the device runs, a restart would find the memory and nothing older.
THEOREM RestartIsFaithful == Spec => []RestartFindsMemory
<1>1. MInv => RestartFindsMemory
  BY DEF MInv, BootInOrder, RestartFindsMemory, Booting
<1> QED
  BY <1>1, Invariance, PTL

\* What is saved without being asked for at once is what was last asked to be
\* remembered and not forgotten since.
THEOREM NothingUnwanted == Spec => RememberedIsWanted
<1>1. MInv /\ [Next]_vars
        => [Added \subseteq {intent} \/ pc \in Booting \/ Configure \/ RememberNow]_vars
  BY WantedSteps
<1> QED
  BY <1>1, Invariance, PTL DEF Spec, RememberedIsWanted

\* No scan is under way in the driver, and no result waits in the queue, while the
\* transport believes that none is in flight, however long the queue.
THEOREM ScansAreSerial == Spec => []OneScanAtATime
<1>1. Init => LinkOK /\ ScanInv
  BY RestLinks, EventsPosted
  DEF Init, LinkDown, LinkOK, ScanInv, Single, Silent, NoDriver, NoScan
<1>2. MInv /\ LinkOK /\ ScanInv /\ [Next]_vars => (LinkOK /\ ScanInv)'
  BY LinkSteps, ScanSteps, MovesKeep
<1>3. ScanInv => OneScanAtATime
  BY DEF ScanInv, Silent, OneScanAtATime
<1> QED
  BY <1>1, <1>2, <1>3, Invariance, PTL DEF Spec

\* However many events wait and whatever fails, a network is saved only with an
\* address that was obtained in it, or by a command that saves unproven.
THEOREM ProvenByItsAddress == Spec => RememberedIsProven
<1> DEFINE Inv == LinkOK /\ RadioUsed /\ Vouched
<1>1. Init => Inv
  BY RestLinks, EventsPosted
  DEF Init, LinkDown, LinkOK, RadioUsed, Vouched, Queued, Addressed, Started, FreshStarts, Left,
      Quenched, Live, NoLink, NoDriver, NoNetif, Booting
<1>2. MInv /\ Inv /\ [Next]_vars => Inv'
  BY LinkSteps, RadioKept, VouchSteps
<1>3. MInv /\ Inv /\ [Next]_vars
        => [Added \subseteq {netif.ip} \/ pc \in Booting \/ Configure]_vars
  BY ProvenSteps
<1> QED
  BY <1>1, <1>2, <1>3, Invariance, PTL DEF Spec, RememberedIsProven
=============================================================================
