--------------------------- MODULE TwaiTransport ---------------------------
(***************************************************************************)
(* EspTwaiTransport (canopen_esp32/src/esp_twai_transport.cpp) and the     *)
(* start and the stop of the CanopenModule around it.  Three parties act:  *)
(* the service task, which sends and does the maintenance; the interrupt,  *)
(* which completes frames and reports changes of the bus; and the main     *)
(* task, which brings the module up and takes it down.  A frame to be sent *)
(* lives in one of a fixed pool of slots: the driver keeps a pointer to    *)
(* the slot until the interrupt reports the frame done.                    *)
(*                                                                         *)
(* A frame is the number of the call of send() that carries it.  The       *)
(* driver of ESP-IDF is external: it queues slots in order, completes them *)
(* in order with success or failure, and reports BUS_OFF.                  *)
(***************************************************************************)
EXTENDS Naturals, Sequences, Functions

CONSTANTS Depth,      \* tx_queue_depth: the slots and the frames the driver queues
          MaxFrames,  \* bound: calls of send()
          MaxBusOff   \* bound: times the controller goes bus-off

ASSUME DepthAssumption == Depth \in Nat \ {0}
ASSUME BoundsAssumption == MaxFrames \in Nat /\ MaxBusOff \in Nat

VARIABLES main,      \* where the main task stands in initialize() / deinitialize()
          task,      \* where the service task stands
          slot,      \* slot_index_value of the send() in progress
          frame,     \* the number of the last call of send()
          free,      \* free_slots_queue_
          payload,   \* tx_slots_[s].payload
          mounted,   \* the driver's queue of pointers to slots (external)
          bus,       \* the driver's error state (external)
          flag,      \* recovery_requested_
          offs,      \* bus-off events so far
          accepted,  \* history: frames send() answered ok for
          completed  \* history: frames the driver reported done

vars == <<main, task, slot, frame, free, payload, mounted, bus, flag, offs,
          accepted, completed>>
sending == <<slot, frame, free, payload, mounted, accepted, completed>>
busVars == <<bus, flag, offs>>

Phases == {"down", "initialized", "up", "stopping", "disabled", "deleted", "stopped"}
Frames == 1 .. MaxFrames
Slots == 0 .. Depth - 1

\* started_: set at the end of start(), cleared at the head of stop().
Started == main \in {"up", "stopping"}
\* node_ is a null pointer before initialize() and at the end of stop().
NodeIsNull == main \in {"down", "stopped"}
\* What node_ points at has been freed, and node_ does not know it yet.
Dangling == main = "deleted"

-----------------------------------------------------------------------------
(* The main task: CanopenModule::initialize() and deinitialize().          *)

\* gateway_.initialize(): every slot goes into the pool.  It refuses once its
\* queues exist, so the transport is initialised at most once.
Initialize ==
    /\ main = "down"
    /\ main' = "initialized"
    /\ free' = [i \in 1 .. Depth |-> i - 1]
    /\ UNCHANGED <<task, slot, frame, payload, mounted, busVars,
                   accepted, completed>>

\* gateway_.start() and task_.start().
Start ==
    /\ main = "initialized"
    /\ main' = "up"
    /\ task' = "loop"
    /\ UNCHANGED <<sending, busVars>>

\* gateway_.start() or profile_.start() failed: initialize() stops the gateway.
StartFailed ==
    /\ main = "initialized"
    /\ main' = "disabled"
    /\ UNCHANGED <<task, sending, busVars>>

\* task_.stop() sets stop_requested_ and polls running().
RequestStop ==
    /\ main = "up"
    /\ main' = "stopping"
    /\ UNCHANGED <<task, sending, busVars>>

\* task_.stop() returns, with the task ended or on its time limit, and
\* deinitialize() goes on in either case: gateway_.stop() clears started_ and
\* disables the node.  No interrupt comes any more, and no slot with it.
Disable ==
    /\ main = "stopping"
    /\ main' = "disabled"
    /\ UNCHANGED <<task, sending, busVars>>

\* twai_node_delete(): the frames the driver still held are gone, and the
\* slots they were in do not go back to the pool.
Delete ==
    /\ main = "disabled"
    /\ main' = "deleted"
    /\ mounted' = <<>>
    /\ UNCHANGED <<task, slot, frame, free, payload, busVars,
                   accepted, completed>>

\* node_ = nullptr.
Forget ==
    /\ main = "deleted"
    /\ main' = "stopped"
    /\ UNCHANGED <<task, sending, busVars>>

-----------------------------------------------------------------------------
(* The service task.                                                       *)

At(here, next) == task = here /\ task' = next

\* send() checks started_ and node_ and then waits for a slot.
Send ==
    /\ frame < MaxFrames
    /\ Started
    /\ At("loop", "take")
    /\ frame' = frame + 1
    /\ UNCHANGED <<main, slot, free, payload, mounted, accepted,
                   completed, busVars>>

\* A slot comes out of the pool ...
Take ==
    /\ free # <<>>
    /\ At("take", "fill")
    /\ slot' = Head(free)
    /\ free' = Tail(free)
    /\ UNCHANGED <<main, frame, payload, mounted, accepted, completed,
                   busVars>>

\* ... or none does in time: queue_full or timeout.
NoSlot ==
    /\ free = <<>>
    /\ At("take", "loop")
    /\ UNCHANGED <<main, sending, busVars>>

\* The descriptor and the payload of the slot are written.
Fill ==
    /\ At("fill", "transmit")
    /\ payload' = [payload EXCEPT ![slot] = frame]
    /\ UNCHANGED <<main, slot, frame, free, mounted, accepted,
                   completed, busVars>>

\* Mutant: the slot is free again as soon as the driver has the frame.
TransmitFreesSlot ==
    /\ Started
    /\ At("transmit", "loop")
    /\ bus # "off"
    /\ mounted' = Append(mounted, slot)
    /\ accepted' = Append(accepted, frame)
    /\ free' = Append(free, slot)
    /\ UNCHANGED <<main, slot, frame, payload, completed, busVars>>

\* The driver takes the pointer.  With a freed node the call is undefined: it
\* may as well report success, and the frame is lost.
Transmit ==
    /\ main \in {"up", "stopping", "deleted"}
    /\ At("transmit", "loop")
    /\ IF Dangling
         THEN UNCHANGED <<mounted, accepted>>
         ELSE /\ bus # "off"
              /\ mounted' = Append(mounted, slot)
              /\ accepted' = Append(accepted, frame)
    /\ UNCHANGED <<main, slot, frame, free, payload, completed, busVars>>

\* The driver refuses: the bus is off, the node is disabled, deleted or null.
TransmitFailed ==
    /\ bus # "active" \/ ~Started
    /\ At("transmit", "giveBack")
    /\ UNCHANGED <<main, sending, busVars>>

\* Mutant: the slot of a frame the driver refused stays with nobody.
GiveBackNothing ==
    /\ At("giveBack", "loop")
    /\ UNCHANGED <<main, sending, busVars>>

GiveBack ==
    /\ At("giveBack", "loop")
    /\ free' = Append(free, slot)
    /\ UNCHANGED <<main, slot, frame, payload, mounted, accepted,
                   completed, busVars>>

\* Mutant: the condition of the early return is inverted.
TakeFlagInverted ==
    /\ ~flag
    /\ At("loop", IF NodeIsNull THEN "loop" ELSE "recover")
    /\ flag' = FALSE
    /\ UNCHANGED <<main, sending, bus, offs>>

\* maintenance(): the flag is exchanged for FALSE ...
TakeFlag ==
    /\ flag
    /\ At("loop", IF NodeIsNull THEN "loop" ELSE "recover")
    /\ flag' = FALSE
    /\ UNCHANGED <<main, sending, bus, offs>>

\* ... and the driver is told to recover; it answers INVALID_STATE, which is
\* ignored, unless the bus is off.  Other errors, after which the request would
\* be lost, the driver has for an invalid handle only.
Recover ==
    /\ At("recover", "loop")
    /\ bus' = IF bus = "off" /\ Started THEN "recovering" ELSE bus
    /\ UNCHANGED <<main, sending, flag, offs>>

\* Mutant: the task waits for the last of its frames before it ends.
EndTaskDrained ==
    /\ main \notin {"down", "initialized", "up"}
    /\ mounted = <<>> /\ Len(free) = Depth
    /\ At("loop", "ended")
    /\ UNCHANGED <<main, sending, busVars>>

\* The loop sees stop_requested_ at its head; Task::entry clears running_.
EndTask ==
    /\ main \notin {"down", "initialized", "up"}
    /\ At("loop", "ended")
    /\ UNCHANGED <<main, sending, busVars>>

-----------------------------------------------------------------------------
(* The interrupt, which runs only while the node is enabled.               *)

\* on_tx_done(): the oldest frame is done, sent or not, and its slot is free.
TxDone ==
    /\ Started
    /\ bus = "active"
    /\ mounted # <<>>
    /\ completed' = Append(completed, payload[Head(mounted)])
    /\ free' = Append(free, Head(mounted))
    /\ mounted' = Tail(mounted)
    /\ UNCHANGED <<main, task, slot, frame, payload, accepted, busVars>>

\* Mutant: only the first bus-off asks for a recovery.
BusOffOnce ==
    /\ Started
    /\ bus = "active"
    /\ mounted # <<>>
    /\ offs < MaxBusOff
    /\ bus' = "off"
    /\ flag' = (offs = 0)
    /\ offs' = offs + 1
    /\ UNCHANGED <<main, task, sending>>

\* on_state_change() with TWAI_ERROR_BUS_OFF: only failing transmissions take
\* the controller there.
BusOff ==
    /\ Started
    /\ bus = "active"
    /\ mounted # <<>>
    /\ offs < MaxBusOff
    /\ bus' = "off"
    /\ flag' = TRUE
    /\ offs' = offs + 1
    /\ UNCHANGED <<main, task, sending>>

\* The recovery sequence ends: on_state_change() with another state.
BusRecovered ==
    /\ Started
    /\ bus = "recovering"
    /\ bus' = "active"
    /\ UNCHANGED <<main, task, sending, flag, offs>>

-----------------------------------------------------------------------------
Init ==
    /\ main = "down"
    /\ task = "none"
    /\ slot = 0
    /\ frame = 0
    /\ free = <<>>
    /\ payload = [s \in Slots |-> 0]
    /\ mounted = <<>>
    /\ bus = "active"
    /\ flag = FALSE
    /\ offs = 0
    /\ accepted = <<>>
    /\ completed = <<>>

Main == Initialize \/ Start \/ StartFailed \/ RequestStop \/ Disable \/ Delete \/ Forget
InSend == Take \/ NoSlot \/ Fill \/ Transmit \/ TransmitFailed \/ GiveBack
Service == Send \/ InSend \/ TakeFlag \/ Recover \/ EndTask
Interrupt == TxDone \/ BusOff \/ BusRecovered

Next == Main \/ Service \/ Interrupt

\* The service task runs on: every call of send() returns, and every round of
\* the loop ends with maintenance() and a look at stop_requested_, whatever the
\* round was busy with.  The controller gives up a frame after fail_retry_cnt
\* attempts and recovers after 128 idle sequences.
Fairness ==
    /\ WF_vars(InSend)
    /\ WF_vars(TakeFlag)
    /\ WF_vars(Recover)
    /\ SF_vars(EndTask)
    /\ WF_vars(TxDone)
    /\ WF_vars(BusRecovered)

Spec == Init /\ [][Next]_vars /\ Fairness

-----------------------------------------------------------------------------
TypeOK ==
    /\ main \in Phases
    /\ task \in {"none", "loop", "take", "fill", "transmit", "giveBack", "recover", "ended"}
    /\ slot \in Slots
    /\ frame \in 0 .. MaxFrames
    /\ free \in Seq(Slots)
    /\ payload \in [Slots -> 0 .. MaxFrames]
    /\ mounted \in Seq(Slots)
    /\ bus \in {"active", "off", "recovering"}
    /\ flag \in BOOLEAN
    /\ offs \in 0 .. MaxBusOff
    /\ accepted \in Seq(Frames)
    /\ completed \in Seq(Frames)

Held == IF task \in {"fill", "transmit", "giveBack"} THEN {slot} ELSE {}

\* A slot is in one place at most: the pool, the send() in progress or the
\* driver.  None is lost while the node exists, so that the pool is full again
\* once the driver and the task have let go of their slots.
SlotsConserved ==
    /\ IsInjective(free) /\ IsInjective(mounted)
    /\ Range(free) \cap Range(mounted) = {}
    /\ Held \cap (Range(free) \cup Range(mounted)) = {}
    /\ main \in {"initialized", "up", "stopping"} =>
           Range(free) \cup Held \cup Range(mounted) = Slots

\* What the bus sees are the frames send() accepted, in order, each once and
\* with the payload it had then: a slot that the driver refers to is never
\* overwritten by a later frame.
BusCarriesAccepted ==
    /\ Len(completed) + Len(mounted) <= Len(accepted)
    /\ \A i \in DOMAIN completed : completed[i] = accepted[i]
    /\ \A i \in DOMAIN mounted :
           payload[mounted[i]] = accepted[Len(completed) + i]

\* For whoever sends, slots, interrupts and error states come to a queue of
\* frames that is never overrun, altered or reordered, and that is silent once
\* stop() has begun to take the node down, even if the service task did not end.
Channel == INSTANCE FrameChannel WITH
  Numbers <- Frames,
  Capacity <- Depth,
  line <- IF main \in {"down", "initialized"} THEN "new"
          ELSE IF Started THEN "open" ELSE "closed",
  waiting <- [i \in DOMAIN mounted |-> payload[mounted[i]]],
  done <- Range(completed)

ImplementsChannel == Channel!CSpec

\* A bus-off is followed by a recovery, however the flag and the events meet,
\* unless the module is taken down.
BusOffIsRecovered == bus = "off" ~> bus # "off" \/ main # "up"

\* A service task that is asked to stop comes to its end by itself, whichever
\* frame it is at and however many slots the disabled node keeps: it waits for
\* nothing that only an interrupt could give.  Nothing is said of a task that
\* outlives the time limit of the stop and meets a node being freed.
ServiceEnds == main = "stopping" ~> task = "ended" \/ Dangling

\* Every accepted frame is reported done, unless the module is taken down.
AcceptedAreCompleted ==
    \A n \in Frames : Len(accepted) >= n ~> Len(completed) >= n \/ main # "up"
=============================================================================
