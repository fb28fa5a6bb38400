---------------------------- MODULE CanopenNode ----------------------------
(***************************************************************************)
(* canopen::Node (components/canopen/src/node.cpp): the NMT state machine, *)
(* the heartbeat schedule and the SDO server of one node, driven by the    *)
(* service task, which hands over one frame at a time and calls process()  *)
(* in between.                                                             *)
(*                                                                         *)
(* The SDO server is an instance of SdoServer over two entries of the      *)
(* dictionary: the producer heartbeat time (0x1017), which is the period   *)
(* of the schedule, and a device name long enough for a segmented upload.  *)
(* What a node does with SYNC and PDO frames depends on the NMT state      *)
(* alone and is in PdoManager (EnterState, ResetCommunication).            *)
(*                                                                         *)
(* Time is relative: "due" is next_heartbeat_us_ - now.                    *)
(***************************************************************************)
EXTENDS Integers

CONSTANTS
  Periods,        \* heartbeat times a client writes, in ticks; 0 is off
  DefaultPeriod,  \* producer_heartbeat_ms of the build configuration
  NameBytes,      \* length of the device name
  SegmentBytes,
  Timeout,        \* of an SDO transfer, in ticks
  NotIndicated,   \* an SDO download that announces no size
  MaxLate         \* bound: process() is called at most this late, in ticks

ASSUME NodeConstants ==
  /\ Periods \subseteq Nat /\ {0, 1} \subseteq Periods /\ DefaultPeriod \in Periods
  /\ \E p \in Periods : \A q \in Periods : q <= p   \* 0x1017 is 16 bits wide
  /\ NameBytes \in Nat \ {0, 1} /\ SegmentBytes \in Nat \ {0}
  /\ Timeout \in Nat \ {0} /\ MaxLate \in Nat /\ NotIndicated \notin Nat

VARIABLES
  dict, state, active_key, transfer, transfer_size, offset, toggle, elapsed, reply,
  life,     \* "created", "started", or "abandoned": the boot-up was not sent
  nmt,      \* Node::state_
  due,      \* ticks until the next heartbeat, or NotScheduled
  heard,    \* the state the network heard last from this node
  silence,  \* history: time since the latest heartbeat or start of the schedule
  beat,     \* history: time since the schedule was started, modulo the period
  commanded \* history: the latest step was an NMT command

Heartbeat == "0x1017"
Name == "0x1008"

Sdo == INSTANCE SdoServer WITH
  Objects <- {Heartbeat, Name},
  Unknown <- "unknown",
  NoKey <- "no_key",
  Byte <- Periods,
  Size <- [o \in {Heartbeat, Name} |-> IF o = Name THEN NameBytes ELSE 1],
  Readable <- {Heartbeat, Name},
  Writable <- {Heartbeat},
  Refused <- {},
  Local <- {},
  Capacity <- NameBytes,
  ExpeditedBytes <- 1,
  AnnouncedSizes <- {1, NameBytes}

sdovars ==
  <<dict, state, active_key, transfer, transfer_size, offset, toggle, elapsed, reply>>
nodevars == <<life, nmt, due, heard, silence, beat, commanded>>
vars == <<sdovars, nodevars>>

NotScheduled == -MaxLate - 1   \* next_heartbeat_us_ = 0

period == dict[Heartbeat][1]   \* producer_heartbeat_ms_
Longest == CHOOSE p \in Periods : \A q \in Periods : q <= p

States == {"initializing", "pre_operational", "operational", "stopped"}

-----------------------------------------------------------------------------
\* publish_heartbeat: the transport may refuse the frame.
Publish(s) == heard' \in {s, heard}

\* A schedule starts now, or there is none.
Restart ==
  /\ due' = IF period = 0 THEN NotScheduled ELSE period
  /\ silence' = 0
  /\ beat' = 0

\* enter_state(s, now, announce) as an NMT command calls it.
EnterState(s) ==
  /\ nmt' = s
  /\ Restart
  /\ Publish(s)
  /\ UNCHANGED <<sdovars, life>>

\* reset_communication announces "initializing" (the boot-up message) and
\* enters pre-operational without a heartbeat of its own.
ResetCommunication ==
  /\ Sdo!ResetCommunication
  /\ nmt' = "pre_operational"
  /\ Restart
  /\ Publish("initializing")
  /\ UNCHANGED life

Started == life = "started"

\* Node::start, from CanopenModule::initialize.  When the boot-up message is
\* not sent the module gives the node up, and cannot be started again.
Start ==
  /\ life = "created"
  /\ \/ life' = "started" /\ heard' = "initializing"
     \/ life' = "abandoned" /\ UNCHANGED heard
  /\ nmt' = "pre_operational"
  /\ Restart
  /\ UNCHANGED <<sdovars, commanded>>

\* A frame with id 0 for this node or for all of them.
HandleNmt ==
  /\ Started
  /\ commanded' = TRUE
  /\ \/ EnterState("operational")
     \/ EnterState("stopped")
     \/ EnterState("pre_operational")
     \/ ResetCommunication

\* A write of 0x1017 leaves the pending heartbeat where it is: the new period
\* counts from there.
BeatOfWrite ==
  CASE period' = period -> beat
    [] period' # period /\ (period' = 0 \/ due = NotScheduled) -> 0
    [] OTHER -> (-due) % period'

\* An SDO request; a stopped node does not look at it.
HandleSdo ==
  /\ Started /\ nmt # "stopped"
  /\ Sdo!Handle
  /\ beat' = BeatOfWrite
  /\ commanded' = FALSE
  /\ UNCHANGED <<life, nmt, due, heard, silence>>

\* Mutant: a stopped node does not look after its SDO transfer.
SdoProcessUnlessStopped ==
  IF nmt # "stopped" /\ state # "idle" /\ elapsed >= Timeout
    THEN Sdo!Process ELSE UNCHANGED sdovars

\* sdo_.process, in every NMT state.
SdoProcess ==
  IF state # "idle" /\ elapsed >= Timeout THEN Sdo!Process ELSE UNCHANGED sdovars

\* Mutant: the next heartbeat is counted from the call of process().
AheadOfNow(next) == next = period

\* The next heartbeat keeps the phase of the schedule and lies ahead.
Ahead(next) == next \in 1..period /\ (next - due) % period = 0

HeartbeatOff ==
  /\ period = 0
  /\ due' = NotScheduled
  /\ UNCHANGED <<heard, silence, beat>>

\* Mutant: switching the heartbeat on waits for the next NMT command.
HeartbeatNeverStarts ==
  /\ period # 0 /\ due = NotScheduled
  /\ UNCHANGED <<due, heard, silence, beat>>

HeartbeatStarts ==
  /\ period # 0 /\ due = NotScheduled
  /\ Restart
  /\ UNCHANGED heard

HeartbeatWaits ==
  /\ period # 0 /\ due > 0
  /\ UNCHANGED <<due, heard, silence, beat>>

\* Mutant: a stopped node sends no heartbeat.
HeartbeatDueUnlessStopped ==
  /\ period # 0 /\ due # NotScheduled /\ due <= 0
  /\ \E next \in 1..(2 * period) : Ahead(next) /\ due' = next
  /\ IF nmt = "stopped" THEN UNCHANGED heard ELSE Publish(nmt)
  /\ silence' = 0
  /\ UNCHANGED beat

HeartbeatDue ==
  /\ period # 0 /\ due # NotScheduled /\ due <= 0
  /\ \E next \in 1..(2 * period) : Ahead(next) /\ due' = next
  /\ Publish(nmt)
  /\ silence' = 0
  /\ UNCHANGED beat

Process ==
  /\ Started
  /\ SdoProcess
  /\ HeartbeatOff \/ HeartbeatStarts \/ HeartbeatWaits \/ HeartbeatDue
  /\ commanded' = FALSE
  /\ UNCHANGED <<life, nmt>>

\* Time passes; the service task is never later than MaxLate.
Tick ==
  /\ Started
  /\ due \in {NotScheduled} \cup (1 - MaxLate)..Longest
  /\ due' = IF due = NotScheduled THEN due ELSE due - 1
  /\ silence' = IF due = NotScheduled THEN silence ELSE silence + 1
  /\ beat' = IF period = 0 THEN 0 ELSE (beat + 1) % period
  /\ commanded' = FALSE
  /\ IF state # "idle" /\ elapsed < Timeout THEN Sdo!Tick ELSE UNCHANGED sdovars
  /\ UNCHANGED <<life, nmt, heard>>

Init ==
  /\ Sdo!Init
  /\ dict = [o \in {Heartbeat, Name} |->
               IF o = Name THEN [i \in 1..NameBytes |-> i % 2] ELSE <<DefaultPeriod>>]
  /\ life = "created"
  /\ nmt = "initializing"
  /\ due = NotScheduled
  /\ heard = "nothing"
  /\ silence = 0
  /\ beat = 0
  /\ commanded = FALSE

Next == Start \/ HandleNmt \/ HandleSdo \/ Process \/ Tick

Spec == Init /\ [][Next]_vars

\* The service task keeps calling process(), time passes, and a transmit
\* queue that is offered a heartbeat again and again takes one in the end.
FairSpec ==
  /\ Spec
  /\ WF_vars(Process)
  /\ WF_vars(Tick)
  /\ SF_vars(Process /\ HeartbeatDue /\ heard' = nmt)

-----------------------------------------------------------------------------
(* Properties.                                                             *)

\* Every variable has its type.
TypeOK ==
  /\ Sdo!TypeOK
  /\ life \in {"created", "started", "abandoned"}
  /\ nmt \in States
  /\ due \in {NotScheduled} \cup -MaxLate..Longest
  /\ heard \in States \cup {"nothing"}
  /\ silence \in 0..(Longest + MaxLate)
  /\ beat \in 0..Longest
  /\ commanded \in BOOLEAN

\* However late process() comes and whatever is written to 0x1017, heartbeats
\* neither cease nor bunch up: the next one lies behind the previous one, and
\* no further from it than the longest period.  Nor do they drift: each is due
\* a whole number of periods after the schedule was started.
Punctual ==
  due # NotScheduled =>
    /\ silence + due \in 1..Longest
    /\ period # 0 => (beat + due) % period = 0

\* A node whose heartbeat stays switched on keeps sending, however its NMT
\* state, its SDO traffic and its heartbeat time change.
HeartbeatsContinue == <>[](Started /\ period # 0) => []<>(silence = 0)

\* A network that listens long enough knows the state of the node once no
\* more NMT commands come: silent transitions (after a reset) and lost
\* announcements are made up for.
NetworkLearnsState ==
  \A s \in States :
    <>[](Started /\ period # 0 /\ nmt = s /\ ~commanded) => <>[](heard = s)

\* A transfer ends although a stopped node answers no segment: stopping a
\* node in the middle of a transfer does not block its SDO server.
TransferEnds == state # "idle" ~> state = "idle"
=============================================================================
