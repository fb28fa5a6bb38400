----------------------------- MODULE CanGateway -----------------------------
(***************************************************************************)
(* EspCanGateway (canopen_esp32/src/esp_can_gateway.cpp) with the two      *)
(* tasks that meet in it.  The service task of CanopenModule takes frames  *)
(* from the bus and frames injected by wireless clients, passes the latter *)
(* on to the bus, shows each to the monitor and has the node handle it.    *)
(* The task of WirelessModule injects the clients' frames and takes what   *)
(* the monitor has seen to the clients.  Three bounded queues lie between  *)
(* them; a full one drops what comes.                                      *)
(*                                                                         *)
(* The physical transport is TwaiTransport, of which only the promise is   *)
(* used: send() accepts a frame or refuses it, and frames leave in the     *)
(* order accepted.  The node is StandardProfile: it may reply to a frame.  *)
(***************************************************************************)
EXTENDS Naturals, Sequences, SequencesExt

CONSTANTS RxDepth,       \* rx_queue_depth
          IngressDepth,  \* ingress_queue_depth
          MonitorDepth,  \* monitor_queue_depth
          MaxBus,        \* bound: frames that arrive from the bus
          MaxWireless    \* bound: frames that clients send

ASSUME DepthAssumption == {RxDepth, IngressDepth, MonitorDepth} \subseteq Nat \ {0}
ASSUME BoundsAssumption == MaxBus \in Nat /\ MaxWireless \in Nat

VARIABLES pc,        \* where the service task is in its loop
          frame,     \* the frame it works on
          rx,        \* rx_queue_ of the transport
          ingress,   \* ingress_queue_
          monitor,   \* monitor_queue_
          arrived,   \* frames the bus has delivered so far
          submitted, \* frames the clients have sent so far
          accepted,  \* history: client frames for which inject() was TRUE
          bus,       \* history: frames the transport accepted for the bus
          handled,   \* history: frames the node handled
          shown      \* history: frames taken to the clients

vars == <<pc, frame, rx, ingress, monitor, arrived, submitted, accepted, bus,
          handled, shown>>
task == <<pc, frame>>

\* A frame of the bus or of a client, and the reply of the node to a frame.
Frame(origin, n) == [origin |-> origin, cause |-> origin, n |-> n]
Reply(f) == [f EXCEPT !.origin = "local_node"]

BusFrames == {Frame("physical_bus", n) : n \in 1 .. MaxBus}
ClientFrames == {Frame("wireless_client", n) : n \in 1 .. MaxWireless}
Frames == BusFrames \cup ClientFrames \cup {Reply(f) : f \in BusFrames \cup ClientFrames}
NoFrame == Frame("none", 0)

-----------------------------------------------------------------------------
\* Mutant: the queue is filled from the wrong end (xQueueSendToFront).
PushedInFront(queue, depth, f) == IF Len(queue) < depth THEN <<f>> \o queue ELSE queue

\* xQueueSend() with timeout 0: a full queue drops the frame.
Pushed(queue, depth, f) == IF Len(queue) < depth THEN Append(queue, f) ELSE queue

\* Mutant: monitored frames overtake each other.
ObserveInFront(f) == monitor' = PushedInFront(monitor, MonitorDepth, f)

\* observe()
Observe(f) == monitor' = Pushed(monitor, MonitorDepth, f)

\* physical_.send(): accepted for the bus, or refused.
Transmit(f) == bus' \in {Append(bus, f), bus}

-----------------------------------------------------------------------------
(* The service task of CanopenModule.                                      *)

\* receive_from_bus(): the loop over rx_queue_ ends when it is empty.
TakeFromBus ==
    /\ pc = "bus"
    /\ rx # <<>>
    /\ pc' = "observe"
    /\ frame' = Head(rx)
    /\ rx' = Tail(rx)
    /\ UNCHANGED <<ingress, monitor, arrived, submitted, accepted, bus, handled, shown>>

BusEmpty ==
    /\ pc = "bus"
    /\ rx = <<>>
    /\ pc' = "ingress"
    /\ UNCHANGED <<frame, rx, ingress, monitor, arrived, submitted, accepted, bus,
                   handled, shown>>

\* Mutant: the frame stays in the queue (xQueuePeek).
PeekInjected ==
    /\ pc = "ingress"
    /\ ingress # <<>>
    /\ pc' = "forward"
    /\ frame' = Head(ingress)
    /\ UNCHANGED <<rx, ingress, monitor, arrived, submitted, accepted, bus, handled, shown>>

\* receive_injected(), then send_to_bus(), whose answer is ignored.
TakeInjected ==
    /\ pc = "ingress"
    /\ ingress # <<>>
    /\ pc' = "forward"
    /\ frame' = Head(ingress)
    /\ ingress' = Tail(ingress)
    /\ UNCHANGED <<rx, monitor, arrived, submitted, accepted, bus, handled, shown>>

\* Mutant: a client's frame that the bus refuses is given up.
ForwardOrGiveUp ==
    /\ pc = "forward"
    /\ Transmit(frame)
    /\ IF bus' = bus THEN pc' = "ingress" /\ frame' = NoFrame
                     ELSE pc' = "observe" /\ UNCHANGED frame
    /\ UNCHANGED <<rx, ingress, monitor, arrived, submitted, accepted, handled, shown>>

Forward ==
    /\ pc = "forward"
    /\ pc' = "observe"
    /\ Transmit(frame)
    /\ UNCHANGED <<frame, rx, ingress, monitor, arrived, submitted, accepted,
                   handled, shown>>

ObserveTaken ==
    /\ pc = "observe"
    /\ pc' = "handle"
    /\ Observe(frame)
    /\ UNCHANGED <<frame, rx, ingress, arrived, submitted, accepted, bus, handled, shown>>

\* The loop the frame came from goes on.
Back == /\ pc' = IF frame.cause = "physical_bus" THEN "bus" ELSE "ingress"
        /\ frame' = NoFrame

\* profile_.handle(): the node replies to the frame or it does not.
Handle ==
    /\ pc = "handle"
    /\ handled' = Append(handled, frame)
    /\ \/ Back
       \/ pc' = "reply" /\ frame' = Reply(frame)
    /\ UNCHANGED <<rx, ingress, monitor, arrived, submitted, accepted, bus, shown>>

\* EspCanGateway::send(): the frame goes to the bus ...
SendReply ==
    /\ pc = "reply"
    /\ pc' = "observeReply"
    /\ Transmit(frame)
    /\ UNCHANGED <<frame, rx, ingress, monitor, arrived, submitted, accepted,
                   handled, shown>>

\* ... and is shown to the monitor whether the bus took it or not.
ObserveReply ==
    /\ pc = "observeReply"
    /\ Back
    /\ Observe(frame)
    /\ UNCHANGED <<rx, ingress, arrived, submitted, accepted, bus, handled, shown>>

\* maintenance() and profile_.process() end the round.
EndRound ==
    /\ pc = "ingress"
    /\ ingress = <<>>
    /\ pc' = "bus"
    /\ UNCHANGED <<frame, rx, ingress, monitor, arrived, submitted, accepted, bus,
                   handled, shown>>

-----------------------------------------------------------------------------
\* on_rx_done(), in the interrupt.
Arrive ==
    /\ arrived < MaxBus
    /\ arrived' = arrived + 1
    /\ rx' = Pushed(rx, RxDepth, Frame("physical_bus", arrived + 1))
    /\ UNCHANGED <<task, ingress, monitor, submitted, accepted, bus, handled, shown>>

(* The task of WirelessModule.                                             *)

\* Mutant: injected frames overtake each other.
InjectInFront ==
    /\ submitted < MaxWireless
    /\ LET f == Frame("wireless_client", submitted + 1)
       IN  /\ submitted' = submitted + 1
           /\ ingress' = PushedInFront(ingress, IngressDepth, f)
           /\ accepted' = IF ingress' = ingress THEN accepted ELSE accepted \cup {f}
    /\ UNCHANGED <<task, rx, monitor, arrived, bus, handled, shown>>

\* handle_inbound() and inject(): a refusal is reported as "queue full".
Inject ==
    /\ submitted < MaxWireless
    /\ LET f == Frame("wireless_client", submitted + 1)
       IN  /\ submitted' = submitted + 1
           /\ ingress' = Pushed(ingress, IngressDepth, f)
           /\ accepted' = IF ingress' = ingress THEN accepted ELSE accepted \cup {f}
    /\ UNCHANGED <<task, rx, monitor, arrived, bus, handled, shown>>

\* forward_can_frames(): receive_forwarded() and broadcast().
ForwardCanFrame ==
    /\ monitor # <<>>
    /\ shown' = Append(shown, Head(monitor))
    /\ monitor' = Tail(monitor)
    /\ UNCHANGED <<task, rx, ingress, arrived, submitted, accepted, bus, handled>>

-----------------------------------------------------------------------------
Init ==
    /\ pc = "bus" /\ frame = NoFrame
    /\ rx = <<>> /\ ingress = <<>> /\ monitor = <<>>
    /\ arrived = 0 /\ submitted = 0
    /\ accepted = {}
    /\ bus = <<>> /\ handled = <<>> /\ shown = <<>>

Service ==
    \/ TakeFromBus \/ BusEmpty \/ TakeInjected \/ Forward \/ ObserveTaken
    \/ Handle \/ SendReply \/ ObserveReply \/ EndRound

Next == Service \/ Arrive \/ Inject \/ ForwardCanFrame

\* The service task has the highest priority and never blocks longer than the
\* time limits of its calls.  Nothing is assumed of the wireless task.
Fairness == WF_vars(Service)

Spec == Init /\ [][Next]_vars /\ Fairness

-----------------------------------------------------------------------------
TypeOK ==
    /\ pc \in {"bus", "ingress", "forward", "observe", "handle", "reply", "observeReply"}
    /\ frame \in Frames \cup {NoFrame}
    /\ rx \in Seq(BusFrames) /\ Len(rx) <= RxDepth
    /\ ingress \in Seq(ClientFrames) /\ Len(ingress) <= IngressDepth
    /\ monitor \in Seq(Frames) /\ Len(monitor) <= MonitorDepth
    /\ arrived \in 0 .. MaxBus /\ submitted \in 0 .. MaxWireless
    /\ accepted \subseteq ClientFrames
    /\ bus \in Seq(Frames) /\ handled \in Seq(Frames) /\ shown \in Seq(Frames)

\* The monitor never shows a reply of the node before the frame it replies to,
\* also when frames between them were dropped; nor does the bus, for the
\* frames of clients that went out.
ReplyFollowsCause ==
    \A stream \in {shown \o monitor, bus} :
        \A i, j \in DOMAIN stream : stream[j] = Reply(stream[i]) /\ i # j => i < j

\* inject(), receive_injected() and on_rx_done(): frames of one origin are
\* handled in the order they came, each at most once, and of the clients'
\* frames only accepted ones.
HandledInOrder ==
    /\ \A i, j \in DOMAIN handled :
         i < j /\ handled[i].origin = handled[j].origin => handled[i].n < handled[j].n
    /\ \A i \in DOMAIN handled :
         handled[i] \in ClientFrames => handled[i] \in accepted

\* The frames of clients on their way to the node: the one that the service
\* task works on, unless it came from the bus, and those in the queue.
OnTheWay ==
    (IF pc \in {"forward", "observe", "handle"} /\ frame \in ClientFrames
       THEN <<frame>> ELSE <<>>) \o ingress

\* For a client, queues, service task and bus come to a channel to the node in
\* which an accepted frame is neither lost nor overtaken nor handled twice,
\* whatever the bus and the monitor refuse.
Channel == INSTANCE FrameChannel WITH
    Numbers <- 1 .. MaxWireless,
    Capacity <- IngressDepth + 1,
    line <- "open",
    waiting <- [i \in DOMAIN OnTheWay |-> OnTheWay[i].n],
    done <- {f.n : f \in Range(handled) \cap ClientFrames}

ImplementsChannel == Channel!CSpec

\* wireless-gateway.md:212: an accepted frame of a client is handled by the
\* node in the end, whatever the bus does with it.
AcceptedIsHandled ==
    \A f \in ClientFrames : f \in accepted ~> f \in Range(handled)
=============================================================================
