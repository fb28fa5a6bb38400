# A TLA+ verification of esp32_idf

The repository holds several ESP32 applications. Two have a concurrent, stateful
core: `src/canopen-esp32c5`, a CANopen-over-CAN-FD slave with a wireless gateway,
and the `connectivity` component of `src/m5_sticks3`, which remembers Wi-Fi networks
across restarts. This directory models them in TLA+, checks the models with TLC on
small instances, and proves the main safety properties with TLAPS for every value
of the constants. Paths below are relative to `src/canopen-esp32c5/components`
unless they begin with `src/` or `docs/` (`src/canopen-esp32c5/docs`), or with `m5:`
(`src/m5_sticks3/components/connectivity`).

Contents: 1 the system, 2 the modules, 3 what each run shows, 4 what is proved,
5 where code and documentation differ, 6 what is not modelled, 7 plan.

## 1. The system

```
 CAN bus <-> EspTwaiTransport <-> EspCanGateway <-> StandardProfile (Node: NMT, heartbeat,
              slots, rx queue      |       ^           SdoServer -> ObjectDictionary <- PdoManager;
              [TwaiTransport]   monitor  ingress       write hooks -> EspNvsParameterStorage)
                                   v       |
                               WirelessModule  <->  TcpServer, BleServer, WifiManager, SettingsStore
 app::Manager starts and stops CanopenModule (gateway, profile, service task) and WirelessModule
```

One task, the service task of `CanopenModule`, owns all CANopen state. It takes
frames from the transport and from wireless clients, lets the node handle them, and
calls `maintenance()` and `process()` at the end of each round. The wireless side has
a service task, a task for TCP, and the BLE and Wi-Fi stacks with theirs. Tasks and
interrupts meet in bounded queues and a few atomics, never in CANopen state.

```
 M5StickS3:  commands (HTTP, BLE, serial, screen) -> queue -> connectivity::Service  [RadioMemory]
                                          process() |  ^ snapshot       | save, load
                                                    v  |                v
             Wi-Fi driver, esp_netif <--------> WifiTransport      NVS "settings", "radio_mem"
                         events -> on_event()   [StationLink]
```

The owner task of the M5Stick calls `Service::process()` again and again: Wi-Fi, at most
one command, then the remembering of what has connected. Events reach `WifiTransport` on
the event task and may be late.

| Component | State | Operations | What is hard | What makes it correct |
|---|---|---|---|---|
| `SdoServer`, `ObjectDictionary` (`canopen/src/sdo_server.cpp`, `object_dictionary.cpp`) | session: state, key, buffer, sizes, offset, toggle, deadline; storage of the entries | `handle` (initiate, segments, abort), `process` (timeout), `reset`, `read`, `write` with write hooks | lost answers, repeated segments, interleaved clients, objects that change under a transfer | snapshot reads, all-or-nothing writes, hooks judge what is stored, transfers end |
| `PdoManager` (`canopen/src/pdo.cpp`) | parameters per channel, runtime mapping cached by revision, SYNC counters, times of transmission | write hooks, `handle` (RPDO, SYNC), `process`, `reset`, `enter_state` | lazy caches, reconfiguration in any order, inhibit against event timer, full queue | valid active mappings, coherent caches, wire follows mapping, channels keep transmitting |
| `Node` (`canopen/src/node.cpp`) | NMT state, next heartbeat | `start`, NMT commands, `process`, SDO underneath | late calls, refused frames, `0x1017` written while a heartbeat is pending | heartbeats keep the grid of their period and go on, network learns the state |
| `StandardProfile` (`canopen/src/standard_profile.cpp`) | the objects, bound to the above | write hooks of `0x2001:01` and `0x1010:01`, refreshed counters | three copies of the node id | only saved ids become active |
| `EspNvsParameterStorage` (`canopen_esp32/src/`) | node ids in use, configured, believed stored | boot, `store_node_id` | power loss, failing NVS calls | belief matches flash, success means persisted |
| `EspTwaiTransport` (`canopen_esp32/src/`) | slot pool, rx queue, `started_`, recovery flag | `initialize`, `start`, `send`, `receive`, `maintenance`, `stop`, three interrupt callbacks | interrupt against task, bus-off, stop during a send | no slot lost or used twice, bus-off recovered, the service task ends when asked to |
| `EspCanGateway`, `CanopenModule` (`canopen_esp32/src/`) | ingress and monitor queue | `inject`, `observe`, `send`, the service loop | overflow, refused frames, order of observation | causes before replies, accepted frames handled in order |
| `app::Manager`, `app::Task` (`app/src/`) | registry, life cycle state; running and stop flags | `register_module`, `initialize_all`, `deinitialize_all`, `start`, `stop` | failures in rollback, retries | never half started, dependencies outlive dependents |
| `TcpServer` (`wireless_esp32/src/tcp_server.cpp`) | client slots with ring, nonces, flags; outbound queue | the `select` round, authentication, `enqueue`, flush, close | slots reused, slow and silent clients, time limits | only key holders are served, nobody is held up |
| `WirelessModule` (`wireless_esp32/src/`) | inbound queue | routing, status, `initialize` | order of replies against monitored frames | routing to the right link |
| `WifiManager`, `SettingsStore` (`wireless_esp32/src/`) | configured and pending flags, state, time of the next attempt; two strings in NVS | boot, events, `process`, `update_station`, `apply_station` | three tasks on the same fields, an event before its flag is set, power loss between two strings | acknowledged pairs survive and are the ones joined, attempts go on |
| `WifiTransport` (`m5:src/wifi_transport.cpp`) | radio, station and scan flags, retry time, deadline | `start`, `process`, `set_enabled`, `configure`, `request_scan`, `disconnect_station`, seven events | late events of an older station, scans that end after they were given up, lost addresses | one scan at a time, a wanted station keeps trying |
| `RadioMemory`, `Service` (`m5:include/radio_memory.hpp`, `m5:src/connectivity_service.cpp`) | remembered networks, the one in use, a pending save; two NVS records, one of older firmware | `load` with migration, Wi-Fi commands, `process_memory` | power loss between records, failed writes, an address that comes after a change of mind | only wanted and proven networks are saved, the record stays readable, restarts find it |
| `BleServer` | connection handle, subscription, encryption flags | GAP events, write, notify | atomics read one by one | nothing to unbonded peers |
| `wireless_protocol` | decoder buffer | `append`, `next` | resynchronisation | the next good packet is found |

The other directories of `src/` (listed in `PROJECT.json`) are separate products,
peripheral demonstrations or vendored code.

## 2. The modules

| Module | Models | Extends / used by |
|---|---|---|
| `SdoTransfer` | abstract: what a client is promised about objects | refined by `SdoServer` |
| `SdoServer` | `SdoServer` with the dictionary | `MCSdoServer` (run `sdo`), `SdoServerProofs`, instance in `CanopenNode` |
| `FrameChannel` | abstract: what happens to the CAN frames that are accepted | refined by `TwaiTransport` and by `CanGateway` |
| `PdoManager` | `PdoManager` | `MCPdoManager` (run `pdo`), `PdoManagerProofs` |
| `NodeIdStore` | the profile's write hooks, NVS storage, boot | runs `node_id`, `node_id_save`; `CanopenModuleProofs` |
| `CanopenNode` | `Node` over an instance of `SdoServer` | run `node`; `CanopenModuleProofs` |
| `TwaiTransport` | transport, start and stop of the module around it | run `twai_transport`; `TwaiTransportProofs` |
| `CanGateway` | gateway queues, service loop, the wireless task's side | run `can_gateway`; `CanGatewayProofs` |
| `TcpServer` | TCP server with peers and the wireless task's side | run `tcp_server`; `TcpServerProofs` |
| `AppLifecycle` | `app::Manager` over failing modules | run `app_lifecycle`; `CanopenModuleProofs` |
| `WifiManager` | Wi-Fi manager, settings store and the credentials message, over an external driver | runs `wireless`, `wireless_boot`; `WifiManagerProofs` |
| `StationLink` | `WifiTransport` of the M5Stick over an external driver, interface and event queue | extended by `RadioMemory` |
| `RadioMemory` | the Wi-Fi half of `connectivity::Service`: memory, records, commands, the owner's loop | `MCRadioMemory` (run `radio_memory`), `RadioMemoryProofs` |

How state and actions correspond to the code:

- **SdoServer.** The variables of the session are the members of the class
  (`state`, `active_key`, `transfer`, `transfer_size`, `offset`, `toggle`); the
  deadline is kept as the time since it was set. One action per kind of request
  (`InitiateUpload`, `ExpeditedDownload`, `InitiateDownload`, `UploadSegment`,
  `DownloadSegment`, `ClientAbort`, an invalid command), plus `Process` (timeout), the
  communication reset and the node's own updates of its objects. `reply` is the
  answer of the step; it may be lost, which is why the client is unconstrained and
  may send anything at any time. A reset keeps the buffer, as the code does.
- **PdoManager.** `cfg` holds the parameters, `rt` the runtime mapping, `fresh`
  whether the cached revision equals `config_revision_`. A mapping word is known by
  the length of its object and the directions it may be mapped in. Configuration
  writes go through the hooks in the code's order (validate, then mark stale); a
  channel looks at the mark when it is used. `wire` is what the latest step put on
  the bus or applied.
- **NodeIdStore.** The four places a node id lives in, the steps of `store_node_id`
  between which power may be lost, and NVS, which may have taken a value although
  the call failed.
- **CanopenNode.** `due` is `next_heartbeat_us_ - now`; the period is read from the
  dictionary entry `0x1017` at each use, as the code does. SDO requests go to the
  instance of `SdoServer`; in "stopped" they are not handed over but time goes on. Three
  histories: `silence` (time since the latest heartbeat), `beat` (time since the schedule
  was started, modulo the period) and `commanded` (the step was an NMT command).
- **TwaiTransport.** The main task (`main`), the service task (`task`) and the
  interrupt act in any order. `send()` is split at each call that leaves the task:
  taking a slot, filling it, handing it to the driver, giving it back. The driver is a
  queue of pointers to slots that completes them in order. As a `FrameChannel`, the frames
  waiting are the payloads in the slots the driver points at, so that writing a slot too
  early would be a step no channel makes; `started_` opens and closes the line.
- **CanGateway.** `pc` is the position of the service task in its loop; each queue
  operation and each call that another task can see is one step. The node
  (`profile_.handle`) replies to a frame or does not; the transport takes a frame or
  refuses it. As a `FrameChannel`, the frames waiting are the client's frame in the hands
  of the task and those in the ingress queue, and a frame is done when the node handles it.
- **TcpServer.** A round is `Drain*`, `Select`, then the slots in turn. The kernel's
  side of a connection (bytes received, peer gone, age) is in the record of the slot.
  The code reads the packets of a client as long as complete ones are there; the model
  allows it to stop after any of them, which is what a packet cut by the 256-byte read
  does. A proof is the nonce it was computed for: a client with the key proves any
  challenge it has read, also an old one, and the proof of another client is 0, which is
  the nonce of no challenge.
- **AppLifecycle.** One step per module visited by the loops of the manager; a module
  that failed to stop stays "half" initialized, one that failed to start may leave parts
  behind, because both real modules ignore the results of their own cleanup.
- **WifiManager.** The main task (`main`) boots and then runs `process()`, the service
  task (`service`) handles one credentials message, the event task takes events from
  `events`. Every access to a field that another task may change is a step of its own.
  A string of NVS is known by the credentials it belongs to, so a torn pair is a pair of
  two different credentials. `staged` holds strings that were set and not committed:
  after a loss of power each of them may or may not be in the flash.
- **StationLink.** `link` is what the members of the class come to (`next` is
  `next_connect_us_`, `deadline` is `connect_deadline_us_`), `scan` the scan's flags.
  Events wait in the order they were posted. The interface gets an address in two steps:
  the network that the station is associated with answers (`Answer`), and the DHCP client
  reads the answer later (`Lease`), by when the station may be in another network. Answer
  and address carry the credentials of the network they come from. Both steps may be taken
  with any events waiting, so the interface may still act on a "connected" that the driver
  has long left behind. Calls of the owner are atomic except around the driver calls during which an event
  can be handled and change the outcome: `configure()`, a refused switching-off, and the
  connect and disconnect of `process()`. `configure()` looks at the radio and the scan once
  more and may refuse (`ConfigureRefused`): after a switching-off that cancelled a scan,
  `connect_wifi()` turns the radio on and finds that scan in flight still.
- **RadioMemory.** `pc` is where the owner is: in `load()` one step for each write, then
  `wifi.process()`, a command, `process_memory()`. A queued command is a value, so it is
  chosen when it is executed. An NVS write is refused, done, or done and reported as
  failed. The two histories: `intent` (credentials some command wants remembered and
  nothing has revoked) and `owed` (credentials of older firmware not yet touched).

Each definition that models code is listed with its lines under `map` in
`PROJECT.json`. A definition whose comment begins with "Mutant" is not part of the
specification: it is a plausible bug, under which the property named with it in
`PROJECT.json` fails.

## 3. What the runs show

| Run | States | Question and properties |
|---|---|---|
| `sdo` | 101,296 | `SessionCoherent`, `ToggleCountsSegments` (a repeated segment is never taken for the next), `HookGuardsStorage`, `TransferEnds`, `ImplementsTransfer` (refinement of `SdoTransfer`) |
| `pdo` | 312,752 | `ActiveMappingValid`, `CacheCoherent`, `WireFollowsMapping`, `EventTimerFires`, `SyncTransmits` |
| `node_id` | 4,020 | `UnsavedNeverActive`, `BeliefTrue` |
| `node` | 84,414 | `Punctual`, `HeartbeatsContinue`, `NetworkLearnsState`, `TransferEnds` |
| `twai_transport` | 17,149 | `SlotsConserved`, `BusCarriesAccepted`, `ServiceEnds` (asked to stop, the service task ends unless the node is freed under it), `ImplementsChannel` (refinement of `FrameChannel`), `BusOffIsRecovered`, `AcceptedAreCompleted` |
| `can_gateway` | 470,484 | `ReplyFollowsCause`, `HandledInOrder`, `ImplementsChannel` (refinement of `FrameChannel`), `AcceptedIsHandled` |
| `tcp_server` | 693,053 | `OnlyKeyHoldersServed`, `LateIsClosed`, `OutboundDrains` |
| `app_lifecycle` | 673 | `RunningIsWhole` |
| `wireless` | 929,122 | `AppliedPairBoots` (acknowledged credentials boot as a pair), `AppliedIsJoined` (and are the ones joined), `AttemptsContinue` |
| `radio_memory` | 1,026,854 | `RestartFindsMemory`, `SavedDecodes`, `MigrationKeeps`, `OneScanAtATime`, `RememberedIsProven` (no late address vouches for another network), `RememberedIsWanted` (forgetting wins over a late address), `Reconnects` (a wanted station keeps trying) |
| `node_id_save`, `wireless_boot` | | each finds one claim of the documentation violated (section 5) |

Type invariants that are proved (section 4) are not checked again by the runs.

Bounds, and why they are enough:

- `sdo`: objects of one, two and five bytes with one-byte expedited answers and
  two-byte segments: an expedited transfer, one segment, three segments with the last not
  full. The toggle bit goes through both values and back. Announced sizes are right,
  wrong and larger than the buffer.
- `pdo`: one transmit and one receive channel; two words fit a frame, three bytes at most,
  so that a mapping can be too long. The guard `OneDirection` lets at most one of the two
  directions be reconfigured at a time: they share only the revision count. Times are 0 to 2
  ticks, with an inhibit time longer than the event timer.
- `node_id`: three ids, so that "believed", "stored" and "configured" can all differ.
- `node`: periods 0, 1 and 2; `process()` at most two ticks late (`MaxLate`), so that it may
  come a whole period late, with either period, and leave heartbeats out.
- `twai_transport`: three slots, five calls of `send()`, two bus-offs: slots are reused
  and the pool runs empty. Deadlock is not checked because the module is taken down for
  good: a gateway whose queues exist refuses to be initialised again.
- `can_gateway`: three wireless frames over an ingress queue of two, one bus frame, replies
  to all of them, a monitor queue of two: ingress and monitor overflow. Overflow of the
  receive queue loses a frame before anything here sees it and is left out by the bound.
- `tcp_server`: two slots, two connections one of which has the key, rings of two, queues
  of one, three packets from clients in all: enough to authenticate and send one request
  while the other client does anything it can with one packet less. Slots are reused.
- `app_lifecycle`: three modules, any order of registration.
- `wireless`: two pairs of credentials, three updates or losses of power, one failing call:
  a pair is replaced, torn, and replaced again. Deadlock is not checked: a station without
  credentials whose access point nobody uses has nothing to do.
- `radio_memory`: two networks and one slot, so that the memory is full with one of them
  and the other is refused or replaces what is current; credentials of older firmware; two
  commands or losses of power, each between any two other steps, one failing call. A network
  is saved and then forgotten or replaced; boot and the first connection cost no step. A
  third command comes only while the radio is off and a cancelled scan is still in flight
  (`ThirdStep` in `MCRadioMemory`): scan, switch off, connect, and `configure()` refuses.
  Deadlock is checked, so the owner goes on after every refusal. `MaxBacklog = 1` says that
  timers run out and the air changes only while at most one event waits; commands,
  `process()` and the DHCP client do so at any backlog. The invariants and the two action
  properties are proved without these bounds. Beyond the run, all but `Reconnects` were also
  checked with a network before and after its password was changed, another one and two
  slots (two commands, 2,617,598 states), and `RememberedIsProven` with `MaxBacklog = 3` and
  four commands for two networks (15,658,317 states, no failing call).

Fairness, and why the code justifies it:

- The service task calls `process()` and `maintenance()` at the end of each round and
  waits for nothing without a time limit: weak fairness of `Process`, `TakeFlag`,
  `Recover`, the steps inside `send()` and the loop of `CanGateway`. This fails when the
  bus delivers frames faster than they are handled, since the loop drains the receive
  queue without a bound; the finite number of arrivals in `CanGateway` excludes it, and
  `MaxLate` in `CanopenNode`.
- Time passes (`Tick`).
- A transmit queue that is asked again and again takes a frame in the end: strong
  fairness of the sends in `PdoManager` and of the heartbeat in `CanopenNode`. It stands
  for a bus that works most of the time; `HeartbeatsContinue`, `NetworkLearnsState`,
  `EventTimerFires` and `SyncTransmits` rest on it. `SyncTransmits` also needs SYNCs to
  keep arriving.
- The CAN controller gives up a frame after `fail_retry_cnt` attempts and ends a
  recovery: weak fairness of `TxDone` and `BusRecovered`.
- The service task of `CanopenModule` comes back to the head of its loop after every call
  and finds `stop_requested_` there, whatever it finds to do in a round: strong fairness of
  `EndTask`, which is possible at the head of the loop only. `ServiceEnds` rests on it.
- The TCP task never waits for a client (`MSG_DONTWAIT`, 10 ms `select`): weak fairness
  of `Server` as a whole. Peers and the wireless task get no fairness.
- The tasks of `WifiManager`, `connectivity::Service` and the event loop wait for nothing
  without a limit, timers run out, a scan of the driver ends, and the interface reports a
  lost address: weak fairness of each. Networks and clients owe nothing: an attempt need
  not succeed, or end. `Reconnects` asks only for the call of the driver, and so does
  `AttemptsContinue`.

## 4. What is proved

All proofs are checked by TLAPS from nothing, for every value of the constants that
satisfies the assumptions in the modules (depths are positive, the dictionary has sizes,
ids are distinct from the markers). Constants that the runs fix to 2 or 3 are arbitrary.

- `SdoServerProofs`: `TypeOK`, `SessionCoherent`, `HookGuardsStorage`,
  `ToggleCountsSegments`. The type invariant
  says that `offset <= transfer_size <= Capacity`: no copy leaves the buffer. It is not
  inductive alone: an upload must know that its size is the size of its entry, which is
  `SessionCoherent`; the invariant is the two together. For the hook, stored bytes change
  only through `Store`, behind `WriteCode = "none"`, or for entries of the node itself.
  For the toggle bit the invariant names the number of accepted segments (`Counted`): a
  transfer goes on only by whole segments, since a shorter one ends it.
- Also there: `Spec => Promise!TSpec`, the refinement of `SdoTransfer`. The abstract job is read
  off the
  buffer: the part behind `offset` for an upload, before it for a download. Each action
  maps to one abstract action or a stutter; the lemmas on `Slice` and `Splice` say that
  segments put together are the value.
- `PdoManagerProofs`: `TypeOK`, `ActiveMappingValid`, `CacheCoherent`,
  `WireFollowsMapping`. The three invariants support each other: a rebuilt cache has the
  right type only because active mappings are valid, and the wire follows the mapping only
  because the cache that is used is rebuilt or coherent.
- `CanopenModuleProofs`, about what `CanopenModule` owns and what owns it. The three models
  share no variable; the module extends all three.
  - `CanopenNode`: `Spec => Server!Spec`, a node is an SDO server. NMT commands, heartbeats
    and late calls do to a transfer nothing that a client, a timeout or a reset could not
    do, so the theorems of `SdoServerProofs` hold of the server inside a node
    (`TransfersOfNode`). `TypeOK` and `Punctual`: `due` is never further ahead than the
    longest period, which uses that `0x1017` is 16 bits wide (the periods have a maximum);
    the time from the latest heartbeat to the next one is positive and no longer than that,
    so none comes twice and none is left out; and the next one is a whole number of periods
    after the start of the schedule, so they do not drift. The last part needs a few lemmas
    about remainders, for periods of any length.
  - `NodeIdStore`: `IdTypeOK`, `UnsavedNeverActive` (strengthened by: whatever is in
    flash, held back by NVS or being written was asked for), `BeliefTrue`,
    `ActiveUntilPowerLoss`.
  - `AppLifecycle`: `AppTypeOK`, `RunningIsWhole`, `LiveIsPrefix`, `ConfiguringIsIdle`.
    The strengthening says what the manager knows at each point of its loops: the live
    modules are those up to its position.
- `CanGatewayProofs`: `TypeOK`, with what each stage of the service loop says of its frame
  (`Stages`); `HandledInOrder`, from the order along the whole path (`Order`: the queues and
  the handled frames rise, and each frame leads those behind it); `ReplyFollowsCause`
  (`Streams`: a reply is in a stream only if its cause was handled, and the reply in hand is
  in neither); and that no accepted frame is lost (`NoneLost`), the safety half of
  `AcceptedIsHandled`.
- Also there: `Spec => Channel!CSpec`, the refinement of `FrameChannel` with room for one
  frame more than the ingress queue, the one in the hands of the task. A new number is
  larger than all that wait and all that are done, by `Order`.
- `TwaiTransportProofs`: `TypeOK`, `SlotsConserved`, `BusCarriesAccepted`,
  with an invariant about the phases of the main task. Slot
  conservation and payload faithfulness are proved together: a payload is not overwritten
  because the slot being filled is not the driver's.
- Also there: `Spec => Channel!CSpec`, the refinement of `FrameChannel`. `Fill` is a stutter
  because the driver does not refer to the slot; `Transmit` finds room because a queue
  without repetitions that leaves out the slot in hand has fewer than `Depth` entries (the
  pigeonhole theorem of the library), which is also why the driver's queue, as deep as the
  pool, never refuses a frame for being full; and a call has a number larger than any
  accepted before (`Numbered`). `CanGateway` uses of the transport no more than this.
- `TcpServerProofs`: `OnlyKeyHoldersServed`. The invariant follows a proof from the peer
  to the server: in no socket without the key is there a proof other than 0, a pending
  challenge is never 0, hence no such client is authenticated; a request in the queue names
  the key holder that sent it, and what a ring holds only for key holders is in no other ring. That
  HMAC cannot be forged is in the model (`Proofs`) and is not proved. `TypeOK`: rings and
  queues stay inside their depths because each packet that is put in one was checked for
  room or closes its client.
- `WifiManagerProofs`: `TypeOK`, `AppliedPairBoots`, `AppliedIsJoined`. The invariant says
  which strings are staged at each point of `update_station()`, that whoever was told 1 has
  both strings in the flash and nothing staged over them, and that the driver's
  configuration is that pair from `configure_station()` on.
- `RadioMemoryProofs`: `TypeOK`, `SavedDecodes`, `MigrationKeeps`, `RestartFindsMemory`,
  `RememberedIsWanted`, `OneScanAtATime`, `RememberedIsProven`. The invariant `MInv` relates
  memory, record and boot position: both
  decode (a network is in at most one slot because `wifi_slot()` finds the old one first);
  older settings are gone once the boot is past their cleaning; the pending save is for
  `cur`, and `cur` is the intent as long as it is pending. That the lowest free slot exists
  is an argument by the well-founded order of finite sets, cited from the library, not an
  induction of its own. The steps of `StationLink` matter only by leaving the memory alone;
  its types are in a section of their own. For the scans the invariant (`ScanInv`) is a
  token: at most one of a scan of the driver, its result in the queue and its result noted,
  and none while the transport believes that no scan is in flight. Every step is one of six
  moves of the token (`ScanMoves`); it holds for a queue of any length, so it needs no
  bound like `MaxBacklog`. For `RememberedIsProven` the invariant (`RadioUsed`, `Vouched`)
  follows an address from the interface to the memory: while `station_started_` is set, an
  address or a DHCP answer is one of the configured network (`Addressed`). It holds because
  the credentials change only while `station_started_` is cleared, and the "start" event
  that sets it again finds an interface that is down: whatever waits in the queue, the
  "stop" or "disconnected" that takes the older address away is in front of that "start",
  with no "connected" between the two (`Queued`). The argument is about the order of the
  queue and not about its length, so it needs no bound either.

Only model-checked: the liveness properties. Liveness under fairness and recursive
definitions are out of the prover's reach. Every invariant and every action property of a
passing run is proved, and so are the three refinements of abstract specifications.
`ActiveUntilPowerLoss`, `LiveIsPrefix`, `ConfiguringIsIdle` and `NoneLost` are proved and
are not among the properties of a run.

What happens after a wait that timed out is not promised by anything: `deinitialize()` goes
on to delete the driver node when `Task::stop` has waited two seconds in vain, and a task
that is still inside `send()` then calls a node that was freed, with an undefined outcome.
The model has this state (`Dangling`) and the steps of the task in it do nothing to the
frames. `ServiceEnds` says that the task ends of itself unless this happens, and the
refinement of `FrameChannel` that nothing is completed once the node is disabled. No call of
the loop takes two seconds in a healthy system.

## 5. Where code and documentation differ

- `node_id_save`: `docs/architecture.md` line 91 promises that a successful answer to
  "save" means the data is in NVS. After a failed store the code still believes the old
  value to be there and answers a repeated save without writing, though NVS may have
  taken the newer value (`esp_nvs_parameter_storage.cpp` line 74).
- `wireless_boot`: `docs/wireless-gateway.md` line 37 describes how a station reconnects.
  After boot it need not connect at all: `initialize()` starts the driver at line 62 of
  `wifi_manager.cpp` and sets `station_configured_` at line 67, and an event task that
  handles STA_START in between ignores it (line 188). Nothing else starts the first
  attempt. The run has no failing call and no loss of power in it.

Met while modelling, without a run of their own:

- `src/m5_sticks3/docs/radio-console.md` line 184 says that `wifi.clear` removes all
  remembered networks. `save_memory()` compares with `memory` and not with what NVS holds.
  Let `wifi.configure` of the first network report an error although NVS has taken the record
  (a failing commit, say): `memory` stays empty; the `wifi.clear` that follows finds the
  empty memory equal to the empty update, writes nothing and answers ok (line 325), and the
  network is back after a restart. The same holds of `wifi.forget all` (line 108).
  `RestartFindsMemory` therefore asks for equality only while no write has failed.
- `docs/object-dictionary.md` line 3 says that a communication reset restores the defaults
  of the table; `0x1017` is in it and is not restored (`node.cpp` line 105).
- `docs/wireless-gateway.md` line 189 says that a failed result is fully flushed before the
  connection closes; the ten-second limit closes the connection with the result still in
  the ring (`tcp_server.cpp` line 147).
- `WifiManager` has no handler for a lost address and no deadline for an attempt, and a
  GOT_IP that was posted before a disconnection of `apply_station` clears the pending flag
  and reports "connected" (line 205). `AttemptsContinue` speaks of a state "connecting" and
  leaves this case out. A connect that the driver refuses in `apply_station` is answered 0
  and may leave nothing pending, and the credentials stay stored: `AppliedPairBoots` and
  `AttemptsContinue` speak of acknowledged ones.

## 6. What is not modelled, and why

- In modelled parts: byte order and layout of values; the signature read through
  `0x1010`; the RTR and frame-format bits of COB-IDs; transmission type 0 in the run;
  object data inside PDOs; statistics and logging; EMCY, which has no caller. In
  `TcpServer`: opening sockets, UDP discovery, a failing `select()` or HMAC library, and
  packets that do not decode. In `TwaiTransport`: `on_error`, which only counts, and errors
  of `twai_node_recover()` other than "invalid state", which it has for an invalid handle.
  In `WifiManager`: the access point, `deinitialize`, the length of the backoff (its
  8-bit count wraps after 256 failures, which shortens one delay). In the M5Stick: BLE,
  HTTP, stopping the transport, RSSI, the delivered list of a scan, the length of the
  backoff, the command queue (a queued command is a value) and its history. What
  `connection_matches()` reads is read at one moment. `esp_wifi_stop()` during a scan is
  taken to post SCAN_DONE, as the comment at `m5:src/wifi_transport.cpp` line 642 says of
  `esp_wifi_scan_stop()`. After a switching-off that failed the state is "failed" and
  nothing retries; `Reconnects` excludes it.
- `BleServer`: mostly the NimBLE host stack. `main.cpp`: no state of its own.
- `wireless_protocol`: sequential code over bytes, with unit tests; planned (section 7).
- Other products of the repository: drivers, signal processing, user interfaces. By far
  the most lines of the repository are vendored graphics and font tables
  (`src/ssd1306_oled_project/components/u8g2`) and display code, about which there is
  nothing to model; the modelled components are a small share of the lines for that reason.

## 7. Plan

The CANopen core (SDO, PDO, NMT, node id), the paths of a frame (transport, gateway, TCP),
the life cycle, and the two Wi-Fi subsystems are done. What would come next:

1. `StreamDecoder` as an operator over bounded streams against a reference definition
   (the packets that a scan for a valid header and checksum finds).
2. `WirelessModule` composed with `CanGateway` and `TcpServer`, whose rings and queues are
   to be shown to implement `FrameChannel` as the transport and the ingress queue do; the
   monitor queue needs one that drops frames.
3. `BleServer` and the BLE half of the M5Stick: their flags against GAP events.
4. Proofs: the safety halves of the liveness properties, as `NoneLost` is one of
   `AcceptedIsHandled` (what keeps a retry pending in `WifiManager` and `StationLink`, a flag
   set as long as the bus is off); what a boot reads in `NodeIdStore` as a refinement of a
   register that survives a loss of power.
