-------------------------- MODULE CanGatewayProofs --------------------------
(***************************************************************************)
(* The order of frames through the gateway, for queues of any depth and    *)
(* any number of frames from the bus and from clients: frames of one       *)
(* origin are handled in the order they came, neither the monitor nor the  *)
(* bus shows a reply before its cause, and what lies between a client and  *)
(* the node is a channel that loses nothing it accepted.                   *)
(***************************************************************************)
EXTENDS CanGateway, SequenceTheorems, TLAPS

-----------------------------------------------------------------------------
(* Frames.                                                                 *)

Inputs == BusFrames \cup ClientFrames

LEMMA InputFields ==
  ASSUME NEW f \in Inputs
  PROVE  /\ f.origin \in {"physical_bus", "wireless_client"} /\ f.cause = f.origin
         /\ f.n \in Nat /\ f = Frame(f.origin, f.n)
         /\ f \in BusFrames <=> f.origin = "physical_bus"
         /\ f \in ClientFrames <=> f.origin = "wireless_client"
         /\ f # NoFrame
<1>1. CASE f \in BusFrames
  <2>1. PICK n \in 1 .. MaxBus : f = Frame("physical_bus", n)
    BY <1>1 DEF BusFrames
  <2>2. f \notin ClientFrames
    BY <2>1 DEF ClientFrames, Frame
  <2> QED
    BY <1>1, <2>1, <2>2, BoundsAssumption DEF Frame, NoFrame
<1>2. CASE f \in ClientFrames
  <2>1. PICK n \in 1 .. MaxWireless : f = Frame("wireless_client", n)
    BY <1>2 DEF ClientFrames
  <2>2. f \notin BusFrames
    BY <2>1 DEF BusFrames, Frame
  <2> QED
    BY <1>2, <2>1, <2>2, BoundsAssumption DEF Frame, NoFrame
<1> QED
  BY <1>1, <1>2 DEF Inputs

LEMMA ReplyFields ==
  ASSUME NEW f \in Inputs
  PROVE  /\ Reply(f) \in Frames /\ Reply(f).origin = "local_node"
         /\ Reply(f).cause = f.cause /\ Reply(f).n = f.n
         /\ Reply(Reply(f)) = Reply(f)
         /\ \A g \in Inputs : Reply(f) = Reply(g) => f = g
<1>1. f = [origin |-> f.origin, cause |-> f.cause, n |-> f.n]
  BY InputFields DEF Frame
<1>2. Reply(f) = [origin |-> "local_node", cause |-> f.cause, n |-> f.n]
  BY <1>1 DEF Reply
<1>3. Reply(f) \in Frames
  BY DEF Frames, Inputs
<1>4. Reply(Reply(f)) = Reply(f)
  BY <1>2 DEF Reply
<1>5. ASSUME NEW g \in Inputs, Reply(f) = Reply(g) PROVE f = g
  <2>1. g = [origin |-> g.origin, cause |-> g.cause, n |-> g.n]
    BY InputFields DEF Frame
  <2>2. Reply(g).cause = g.cause /\ Reply(g).n = g.n
    BY <2>1 DEF Reply
  <2>3. f.cause = g.cause /\ f.n = g.n
    BY <1>2, <1>5, <2>2
  <2> QED
    BY <2>3, InputFields
<1> QED
  BY <1>2, <1>3, <1>4, <1>5

\* A frame that is not a reply is an input; two replies to the same are one.
LEMMA FrameKinds ==
  ASSUME NEW f \in Frames
  PROVE  /\ f \in Inputs \/ \E g \in Inputs : f = Reply(g)
         /\ f.origin # "local_node" <=> f \in Inputs
         /\ Reply(f).origin = "local_node"
         /\ f.origin = "local_node" => Reply(f) = f
<1>1. f \in Inputs \/ \E g \in Inputs : f = Reply(g)
  BY DEF Frames, Inputs
<1>2. CASE f \in Inputs
  BY <1>2, InputFields, ReplyFields
<1>3. ASSUME NEW g \in Inputs, f = Reply(g)
      PROVE  /\ f.origin = "local_node" /\ f \notin Inputs
             /\ Reply(f).origin = "local_node" /\ Reply(f) = f
  BY <1>3, ReplyFields, InputFields
<1> QED
  BY <1>1, <1>2, <1>3

-----------------------------------------------------------------------------
(* Sequences of frames.                                                    *)

LEMMA Appended ==
  ASSUME NEW S, NEW s \in Seq(S), NEW e \in S
  PROVE  /\ Append(s, e) \in Seq(S) /\ Append(s, e) # <<>>
         /\ Len(s) \in Nat /\ DOMAIN s = 1 .. Len(s)
         /\ Len(Append(s, e)) = Len(s) + 1
         /\ DOMAIN Append(s, e) = 1 .. Len(s) + 1
         /\ \A k \in DOMAIN s : Append(s, e)[k] = s[k]
         /\ Append(s, e)[Len(s) + 1] = e
OBVIOUS

LEMMA Shortened ==
  ASSUME NEW S, NEW s \in Seq(S), s # <<>>
  PROVE  /\ Head(s) \in S /\ Tail(s) \in Seq(S)
         /\ Len(s) \in Nat \ {0} /\ DOMAIN s = 1 .. Len(s)
         /\ Head(s) = s[1] /\ Len(Tail(s)) = Len(s) - 1
         /\ DOMAIN Tail(s) = 1 .. Len(s) - 1
         /\ \A k \in DOMAIN Tail(s) : k + 1 \in DOMAIN s /\ Tail(s)[k] = s[k + 1]
OBVIOUS

LEMMA QueuePushed ==
  ASSUME NEW S, NEW s \in Seq(S), NEW e \in S, NEW depth \in Nat, Len(s) <= depth
  PROVE  /\ Pushed(s, depth, e) \in Seq(S) /\ Len(Pushed(s, depth, e)) <= depth
         /\ Pushed(s, depth, e) \in {s, Append(s, e)}
BY Appended DEF Pushed

\* What a sequence holds: its head and what follows; what is put behind it.
LEMMA TakenOrLeft ==
  ASSUME NEW S, NEW s \in Seq(S), s # <<>>, NEW k \in DOMAIN s
  PROVE  \/ s[k] = Head(s)
         \/ \E j \in DOMAIN Tail(s) : Tail(s)[j] = s[k]
<1>1. CASE k = 1
  BY <1>1
<1>2. CASE k # 1
  <2>1. k - 1 \in DOMAIN Tail(s)
    BY <1>2, Shortened
  <2>2. Tail(s)[k - 1] = s[(k - 1) + 1]
    BY <2>1, Shortened
  <2> QED
    BY <2>1, <2>2
<1> QED
  BY <1>1, <1>2

LEMMA StaysAndAdded ==
  ASSUME NEW S, NEW s \in Seq(S), NEW e \in S
  PROVE  /\ \A k \in DOMAIN s : k \in DOMAIN Append(s, e) /\ Append(s, e)[k] = s[k]
         /\ \E k \in DOMAIN Append(s, e) : Append(s, e)[k] = e
<1>1. Len(s) + 1 \in DOMAIN Append(s, e)
  BY Appended
<1> QED
  BY <1>1, Appended

\* What waits in front of a queue and what was taken from it make one stream.
LEMMA StreamAppends ==
  ASSUME NEW S, NEW s \in Seq(S), NEW t \in Seq(S), NEW e \in S
  PROVE  s \o Append(t, e) = Append(s \o t, e)
OBVIOUS

LEMMA StreamMoves ==
  ASSUME NEW S, NEW s \in Seq(S), NEW t \in Seq(S), t # <<>>
  PROVE  Append(s, Head(t)) \o Tail(t) = s \o t
OBVIOUS

-----------------------------------------------------------------------------
(* Types, and what the stage of the service task says of its frame.        *)

\* The task works on a frame that the node has not handled yet, or on the
\* reply to the one it handled last.
Working == pc \in {"forward", "observe", "handle"}
Replying == pc \in {"reply", "observeReply"}

Stages ==
    /\ pc = "forward" => frame \in ClientFrames
    /\ Working => frame \in Inputs
    /\ handled \in Seq(Inputs)
    /\ Replying => handled # <<>> /\ frame = Reply(handled[Len(handled)])

Typed == TypeOK /\ Stages

LEMMA InitTyped == Init => Typed
  BY DepthAssumption, BoundsAssumption
  DEF Init, Typed, TypeOK, Stages, Working, Replying

\* Transmit() and observe() keep the types of what they write.
LEMMA Transmitted ==
  ASSUME TypeOK, NEW f \in Frames, Transmit(f)
  PROVE  bus' \in Seq(Frames) /\ bus' \in {bus, Append(bus, f)}
<1>1. Append(bus, f) \in Seq(Frames)
  BY Appended DEF TypeOK
<1> QED
  BY <1>1 DEF TypeOK, Transmit

LEMMA Observed ==
  ASSUME TypeOK, NEW f \in Frames, Observe(f)
  PROVE  /\ monitor' \in Seq(Frames) /\ Len(monitor') <= MonitorDepth
         /\ monitor' \in {monitor, Append(monitor, f)}
BY QueuePushed, DepthAssumption DEF TypeOK, Observe

LEMMA InputsAreFrames == Inputs \subseteq Frames /\ ClientFrames \subseteq Inputs /\ BusFrames \subseteq Inputs
BY DEF Inputs, Frames

LEMMA TypedKept ==
  Typed /\ [Next]_vars => Typed'
<1> SUFFICES ASSUME TypeOK, Stages, [Next]_vars PROVE TypeOK' /\ Stages'
  BY DEF Typed
<1> USE InputsAreFrames
<1>1. CASE TakeFromBus
  <2>1. Head(rx) \in BusFrames /\ Tail(rx) \in Seq(BusFrames) /\ Len(Tail(rx)) <= RxDepth
    BY <1>1, Shortened, DepthAssumption DEF TakeFromBus, TypeOK
  <2> QED
    BY <1>1, <2>1 DEF TakeFromBus, TypeOK, Stages, Working, Replying
<1>2. CASE BusEmpty
  BY <1>2 DEF BusEmpty, TypeOK, Stages, Working, Replying
<1>3. CASE TakeInjected
  <2>1. /\ Head(ingress) \in ClientFrames /\ Tail(ingress) \in Seq(ClientFrames)
        /\ Len(Tail(ingress)) <= IngressDepth
    BY <1>3, Shortened, DepthAssumption DEF TakeInjected, TypeOK
  <2> QED
    BY <1>3, <2>1 DEF TakeInjected, TypeOK, Stages, Working, Replying
<1>4. CASE Forward
  <2>1. bus' \in Seq(Frames)
    BY <1>4, Transmitted DEF Forward, Stages
  <2> QED
    BY <1>4, <2>1 DEF Forward, TypeOK, Stages, Working, Replying
<1>5. CASE ObserveTaken
  <2>1. frame \in Frames
    BY <1>5 DEF ObserveTaken, Stages, Working
  <2>2. monitor' \in Seq(Frames) /\ Len(monitor') <= MonitorDepth
    BY <1>5, <2>1, Observed DEF ObserveTaken
  <2> QED
    BY <1>5, <2>2 DEF ObserveTaken, TypeOK, Stages, Working, Replying
<1>6. CASE Handle
  <2>1. frame \in Inputs
    BY <1>6 DEF Handle, Stages, Working
  <2>2. /\ handled' \in Seq(Inputs) /\ handled' \in Seq(Frames) /\ handled' # <<>>
        /\ handled'[Len(handled')] = frame
    BY <1>6, <2>1, Appended DEF Handle, Stages, TypeOK
  <2>3. Reply(frame) \in Frames
    BY <2>1, ReplyFields
  <2>4. CASE Back
    BY <1>6, <2>2, <2>4 DEF Handle, Back, TypeOK, Stages, Working, Replying
  <2>5. CASE pc' = "reply" /\ frame' = Reply(frame)
    BY <1>6, <2>2, <2>3, <2>5 DEF Handle, TypeOK, Stages, Working, Replying
  <2> QED
    BY <1>6, <2>4, <2>5 DEF Handle
<1>7. CASE SendReply
  <2>1. handled[Len(handled)] \in Inputs
    BY <1>7 DEF SendReply, Stages, Replying
  <2>2. frame \in Frames
    BY <1>7, <2>1, ReplyFields DEF SendReply, Stages, Replying
  <2>3. bus' \in Seq(Frames)
    BY <1>7, <2>2, Transmitted DEF SendReply
  <2> QED
    BY <1>7, <2>3 DEF SendReply, TypeOK, Stages, Working, Replying
<1>8. CASE ObserveReply
  <2>1. handled[Len(handled)] \in Inputs
    BY <1>8 DEF ObserveReply, Stages, Replying
  <2>2. frame \in Frames
    BY <1>8, <2>1, ReplyFields DEF ObserveReply, Stages, Replying
  <2>3. monitor' \in Seq(Frames) /\ Len(monitor') <= MonitorDepth
    BY <1>8, <2>2, Observed DEF ObserveReply
  <2> QED
    BY <1>8, <2>3 DEF ObserveReply, Back, TypeOK, Stages, Working, Replying
<1>9. CASE EndRound
  BY <1>9 DEF EndRound, TypeOK, Stages, Working, Replying
<1>10. CASE Arrive
  <2>1. arrived + 1 \in 1 .. MaxBus
    BY <1>10, BoundsAssumption DEF Arrive, TypeOK
  <2>2. Frame("physical_bus", arrived + 1) \in BusFrames
    BY <2>1 DEF BusFrames
  <2>3. rx' \in Seq(BusFrames) /\ Len(rx') <= RxDepth
    BY <1>10, <2>2, QueuePushed, DepthAssumption DEF Arrive, TypeOK
  <2> QED
    BY <1>10, <2>1, <2>3, BoundsAssumption DEF Arrive, task, TypeOK, Stages, Working, Replying
<1>11. CASE Inject
  <2> DEFINE f == Frame("wireless_client", submitted + 1)
  <2>1. submitted + 1 \in 1 .. MaxWireless
    BY <1>11, BoundsAssumption DEF Inject, TypeOK
  <2>2. f \in ClientFrames
    BY <2>1 DEF ClientFrames
  <2>3. ingress' = Pushed(ingress, IngressDepth, f) /\ accepted' \subseteq accepted \cup {f}
    BY <1>11 DEF Inject
  <2> HIDE DEF f
  <2>4. ingress' \in Seq(ClientFrames) /\ Len(ingress') <= IngressDepth
    BY <2>2, <2>3, QueuePushed, DepthAssumption DEF TypeOK
  <2>5. submitted' \in 0 .. MaxWireless
    BY <1>11, <2>1, BoundsAssumption DEF Inject
  <2> QED
    BY <1>11, <2>2, <2>3, <2>4, <2>5
    DEF Inject, task, TypeOK, Stages, Working, Replying
<1>12. CASE ForwardCanFrame
  <2>1. /\ Head(monitor) \in Frames /\ Tail(monitor) \in Seq(Frames)
        /\ Len(Tail(monitor)) <= MonitorDepth
    BY <1>12, Shortened, DepthAssumption DEF ForwardCanFrame, TypeOK
  <2>2. shown' \in Seq(Frames)
    BY <1>12, <2>1, Appended DEF ForwardCanFrame, TypeOK
  <2> QED
    BY <1>12, <2>1, <2>2 DEF ForwardCanFrame, task, TypeOK, Stages, Working, Replying
<1>13. CASE UNCHANGED vars
  BY <1>13 DEF vars, TypeOK, Stages, Working, Replying
<1> QED
  BY <1>1, <1>2, <1>3, <1>4, <1>5, <1>6, <1>7, <1>8, <1>9, <1>10, <1>11, <1>12, <1>13
  DEF Next, Service

\* Every queue keeps within its depth and every frame is one of the bus, of a
\* client, or a reply to one.
THEOREM TypeCorrect == Spec => []TypeOK
<1>1. Spec => []Typed
  BY InitTyped, TypedKept, PTL DEF Spec
<1>2. Typed => TypeOK
  BY DEF Typed
<1> QED
  BY <1>1, <1>2, PTL

-----------------------------------------------------------------------------
(* The order of frames of one origin, through the queues and the node.     *)

Rising(s) ==
    \A j, k \in DOMAIN s : j < k /\ s[j].origin = s[k].origin => s[j].n < s[k].n
After(f, s) == \A k \in DOMAIN s : s[k].origin = f.origin => s[k].n < f.n
Before(f, s) == \A k \in DOMAIN s : f.origin = s[k].origin => f.n < s[k].n

LEMMA RisingAppended ==
  ASSUME NEW S, NEW s \in Seq(S), NEW e \in S, Rising(s), After(e, s)
  PROVE  Rising(Append(s, e))
BY Appended DEF Rising, After

LEMMA RisingShortened ==
  ASSUME NEW S, NEW s \in Seq(S), s # <<>>, Rising(s)
  PROVE  Rising(Tail(s)) /\ Before(Head(s), Tail(s))
<1>1. Rising(Tail(s))
  BY Shortened DEF Rising
<1>2. Before(Head(s), Tail(s))
  BY Shortened DEF Rising, Before
<1> QED
  BY <1>1, <1>2

LEMMA BeforeAppended ==
  ASSUME NEW S, NEW s \in Seq(S), NEW e \in S, NEW f,
         Before(f, s), f.origin = e.origin => f.n < e.n
  PROVE  Before(f, Append(s, e))
BY Appended DEF Before

LEMMA BeforeShortened ==
  ASSUME NEW S, NEW s \in Seq(S), s # <<>>, NEW f, Before(f, s)
  PROVE  Before(f, Tail(s)) /\ (f.origin = Head(s).origin => f.n < Head(s).n)
<1>1. Before(f, Tail(s))
  BY Shortened DEF Before
<1>2. f.origin = Head(s).origin => f.n < Head(s).n
  BY Shortened DEF Before
<1> QED
  BY <1>1, <1>2

\* A new frame joins a queue at its end, or is dropped: all that is in the
\* queue, and all that came before, is older.
LEMMA Joined ==
  ASSUME NEW q \in Seq(Inputs), NEW depth, NEW f \in Inputs, Rising(q), After(f, q)
  PROVE  /\ Rising(Pushed(q, depth, f))
         /\ \A k \in DOMAIN Pushed(q, depth, f) :
              \/ k \in DOMAIN q /\ Pushed(q, depth, f)[k] = q[k]
              \/ Pushed(q, depth, f)[k] = f
         /\ \A g : Before(g, q) /\ (g.origin = f.origin => g.n < f.n)
                     => Before(g, Pushed(q, depth, f))
<1>1. Rising(Append(q, f))
  BY RisingAppended
<1>2. \A g : Before(g, q) /\ (g.origin = f.origin => g.n < f.n)
              => Before(g, Append(q, f))
  BY BeforeAppended
<1>3. \A k \in DOMAIN Append(q, f) : \/ k \in DOMAIN q /\ Append(q, f)[k] = q[k]
                                     \/ Append(q, f)[k] = f
  BY Appended
<1> QED
  BY <1>1, <1>2, <1>3 DEF Pushed

\* Frames of the bus and of the clients do not compete.
LEMMA OriginsApart ==
  /\ \A f \in BusFrames, t \in Seq(ClientFrames) : Before(f, t)
  /\ \A f \in ClientFrames, t \in Seq(BusFrames) : Before(f, t)
<1>1. /\ \A f \in BusFrames : f.origin = "physical_bus"
      /\ \A f \in ClientFrames : f.origin = "wireless_client"
  BY InputFields, InputsAreFrames
<1>2. ASSUME NEW f \in BusFrames, NEW t \in Seq(ClientFrames) PROVE Before(f, t)
  <2>1. \A k \in DOMAIN t : t[k] \in ClientFrames
    OBVIOUS
  <2> QED
    BY <1>1, <2>1 DEF Before
<1>3. ASSUME NEW f \in ClientFrames, NEW t \in Seq(BusFrames) PROVE Before(f, t)
  <2>1. \A k \in DOMAIN t : t[k] \in BusFrames
    OBVIOUS
  <2> QED
    BY <1>1, <2>1 DEF Before
<1> QED
  BY <1>2, <1>3

\* A frame that came, and one that came before whatever waits.
Came(f) ==
    /\ f.origin = "physical_bus" => f.n <= arrived
    /\ f.origin = "wireless_client" => f.n <= submitted /\ f \in accepted
Leads(f) == Before(f, rx) /\ Before(f, ingress)

Order ==
    /\ Rising(rx) /\ Rising(ingress) /\ Rising(handled)
    /\ \A k \in DOMAIN rx : Came(rx[k])
    /\ \A k \in DOMAIN ingress : Came(ingress[k])
    /\ \A k \in DOMAIN handled : Came(handled[k]) /\ Leads(handled[k])
    /\ Working => Came(frame) /\ Leads(frame) /\ After(frame, handled)

LEMMA InitOrder == Init => Order
  BY DEF Init, Order, Rising, Working

\* Steps that neither fill nor empty a queue and take no new frame in hand.
LEMMA OrderStays ==
  ASSUME Order, UNCHANGED <<rx, ingress, handled, arrived, submitted, accepted>>,
         Working' => Working /\ frame' = frame
  PROVE  Order'
BY DEF Order, Working, Rising, Came, Leads, Before, After

\* What has come stays so while the counters and the accepted frames grow.
LEMMA OrderKept ==
  Typed /\ Order /\ [Next]_vars => Order'
<1> SUFFICES ASSUME TypeOK, Stages, Order, [Next]_vars PROVE Order'
  BY DEF Typed
<1> USE InputsAreFrames
<1>1. CASE TakeFromBus
  <2>1. /\ Head(rx) \in BusFrames /\ Came(Head(rx)) /\ Rising(Tail(rx))
        /\ Before(Head(rx), Tail(rx))
        /\ \A k \in DOMAIN Tail(rx) : Came(Tail(rx)[k])
    BY <1>1, Shortened, RisingShortened DEF TakeFromBus, TypeOK, Order
  <2>2. \A k \in DOMAIN handled : /\ Before(handled[k], Tail(rx))
                                  /\ handled[k].origin = Head(rx).origin
                                       => handled[k].n < Head(rx).n
    BY <1>1, BeforeShortened DEF TakeFromBus, TypeOK, Order, Leads
  <2>3. Before(Head(rx), ingress)
    BY <2>1, OriginsApart DEF TypeOK
  <2>4. After(Head(rx), handled)
    BY <2>2 DEF After
  <2> QED
    BY <1>1, <2>1, <2>2, <2>3, <2>4 DEF TakeFromBus, Order, Came, Leads
<1>2. CASE TakeInjected
  <2>1. /\ Head(ingress) \in ClientFrames /\ Came(Head(ingress)) /\ Rising(Tail(ingress))
        /\ Before(Head(ingress), Tail(ingress))
        /\ \A k \in DOMAIN Tail(ingress) : Came(Tail(ingress)[k])
    BY <1>2, Shortened, RisingShortened DEF TakeInjected, TypeOK, Order
  <2>2. \A k \in DOMAIN handled : /\ Before(handled[k], Tail(ingress))
                                  /\ handled[k].origin = Head(ingress).origin
                                       => handled[k].n < Head(ingress).n
    BY <1>2, BeforeShortened DEF TakeInjected, TypeOK, Order, Leads
  <2>3. Before(Head(ingress), rx)
    BY <2>1, OriginsApart DEF TypeOK
  <2>4. After(Head(ingress), handled)
    BY <2>2 DEF After
  <2> QED
    BY <1>2, <2>1, <2>2, <2>3, <2>4 DEF TakeInjected, Order, Came, Leads
<1>3. CASE Handle
  <2>1. /\ frame \in Inputs /\ Came(frame) /\ Leads(frame) /\ After(frame, handled)
    BY <1>3 DEF Handle, Stages, Working, Order
  <2>2. Rising(handled')
    BY <1>3, <2>1, RisingAppended DEF Handle, Stages, Order
  <2>3. \A k \in DOMAIN handled' : Came(handled'[k]) /\ Leads(handled'[k])
    BY <1>3, <2>1, Appended DEF Handle, Stages, Order
  <2>4. ~Working'
    BY <1>3 DEF Handle, Back, Working
  <2> QED
    BY <1>3, <2>2, <2>3, <2>4 DEF Handle, Order, Came, Leads
<1>4. CASE Arrive
  <2>1. PICK f : /\ f = Frame("physical_bus", arrived + 1)
                 /\ rx' = Pushed(rx, RxDepth, f) /\ arrived' = arrived + 1
    BY <1>4 DEF Arrive
  <2>2. arrived \in Nat /\ arrived + 1 \in 1 .. MaxBus
    BY <1>4, BoundsAssumption DEF Arrive, TypeOK
  <2>3. f \in BusFrames /\ f.origin = "physical_bus" /\ f.n = arrived + 1
    BY <2>1, <2>2 DEF BusFrames, Frame
  <2>4. \A g : Came(g) => (g.origin = f.origin => g.n <= arrived)
    BY <2>3 DEF Came
  <2>5. /\ Rising(rx')
        /\ \A k \in DOMAIN rx' : (k \in DOMAIN rx /\ rx'[k] = rx[k]) \/ rx'[k] = f
        /\ \A g \in Inputs : Before(g, rx) /\ Came(g) => Before(g, rx')
    <3>1. rx \in Seq(Inputs) /\ f \in Inputs
      BY <2>3 DEF TypeOK
    <3>2. Rising(rx) /\ After(f, rx)
      BY <2>2, <2>3, <2>4, <3>1, InputFields DEF Order, After
    <3>3. \A g \in Inputs : Came(g) => (g.origin = f.origin => g.n < f.n)
      BY <2>2, <2>3, <2>4, InputFields
    <3> QED
      BY <2>1, <3>1, <3>2, <3>3, Joined
  <2>6. \A g \in Inputs : Came(g) => Came(g)'
    BY <1>4, <2>1, <2>2, InputFields DEF Came, Arrive
  <2>7. Came(f)'
    BY <2>1, <2>2, <2>3 DEF Came
  <2>8. /\ \A k \in DOMAIN rx : rx[k] \in Inputs
        /\ \A k \in DOMAIN ingress : ingress[k] \in Inputs
        /\ \A k \in DOMAIN handled : handled[k] \in Inputs
    BY DEF TypeOK, Stages
  <2>9. \A k \in DOMAIN rx' : Came(rx[k])'
    BY <2>5, <2>6, <2>7, <2>8 DEF Order, Came
  <2>10. \A g \in Inputs : Came(g) /\ Leads(g) => Leads(g)'
    BY <1>4, <2>5 DEF Leads, Arrive
  <2>11. UNCHANGED <<pc, frame, ingress, handled>>
    BY <1>4 DEF Arrive, task
  <2>12. Working' => Came(frame)' /\ Leads(frame)' /\ After(frame, handled)'
    BY <2>6, <2>10, <2>11 DEF Order, Working, Stages
  <2> QED
    BY <2>5, <2>6, <2>8, <2>9, <2>10, <2>11, <2>12 DEF Order, Came, Leads
<1>5. CASE Inject
  <2>1. PICK f :
        /\ f = Frame("wireless_client", submitted + 1)
        /\ ingress' = Pushed(ingress, IngressDepth, f) /\ submitted' = submitted + 1
        /\ accepted' = IF ingress' = ingress THEN accepted ELSE accepted \cup {f}
    BY <1>5 DEF Inject
  <2>2. submitted \in Nat /\ submitted + 1 \in 1 .. MaxWireless
    BY <1>5, BoundsAssumption DEF Inject, TypeOK
  <2>3. f \in ClientFrames /\ f.origin = "wireless_client" /\ f.n = submitted + 1
    BY <2>1, <2>2 DEF ClientFrames, Frame
  <2>4. \A g : Came(g) => (g.origin = f.origin => g.n <= submitted)
    BY <2>3 DEF Came
  <2>5. /\ Rising(ingress')
        /\ \A k \in DOMAIN ingress' :
             (k \in DOMAIN ingress /\ ingress'[k] = ingress[k]) \/ ingress'[k] = f
        /\ \A g \in Inputs : Before(g, ingress) /\ Came(g) => Before(g, ingress')
    <3>1. ingress \in Seq(Inputs) /\ f \in Inputs
      BY <2>3 DEF TypeOK
    <3>2. Rising(ingress) /\ After(f, ingress)
      BY <2>2, <2>3, <2>4, <3>1, InputFields DEF Order, After
    <3>3. \A g \in Inputs : Came(g) => (g.origin = f.origin => g.n < f.n)
      BY <2>2, <2>3, <2>4, InputFields
    <3> QED
      BY <2>1, <3>1, <3>2, <3>3, Joined
  <2>6. \A g \in Inputs : Came(g) => Came(g)'
    BY <1>5, <2>1, <2>2, InputFields DEF Came, Inject
  <2>7. ingress' # ingress => Came(f)'
    BY <2>1, <2>2, <2>3 DEF Came
  <2>8. /\ \A k \in DOMAIN rx : rx[k] \in Inputs
        /\ \A k \in DOMAIN ingress : ingress[k] \in Inputs
        /\ \A k \in DOMAIN handled : handled[k] \in Inputs
    BY DEF TypeOK, Stages
  <2>9. \A k \in DOMAIN ingress' : Came(ingress[k])'
    BY <2>5, <2>6, <2>7, <2>8 DEF Order, Came
  <2>10. \A g \in Inputs : Came(g) /\ Leads(g) => Leads(g)'
    BY <1>5, <2>5 DEF Leads, Inject
  <2>11. UNCHANGED <<pc, frame, rx, handled>>
    BY <1>5 DEF Inject, task
  <2>12. Working' => Came(frame)' /\ Leads(frame)' /\ After(frame, handled)'
    BY <2>6, <2>10, <2>11 DEF Order, Working, Stages
  <2> QED
    BY <2>5, <2>6, <2>8, <2>9, <2>10, <2>11, <2>12 DEF Order, Came, Leads
<1>6. CASE BusEmpty \/ Forward \/ ObserveTaken \/ SendReply \/ EndRound
  BY <1>6, OrderStays
  DEF BusEmpty, Forward, ObserveTaken, SendReply, EndRound, Working
<1>7. CASE ObserveReply \/ ForwardCanFrame \/ UNCHANGED vars
  BY <1>7, OrderStays
  DEF ObserveReply, Back, ForwardCanFrame, task, vars, Working
<1> QED
  BY <1>1, <1>2, <1>3, <1>4, <1>5, <1>6, <1>7 DEF Next, Service

\* Frames of one origin are handled in the order they came, each at most
\* once; of the clients' frames only those inject() accepted.
THEOREM InOrder == Spec => []HandledInOrder
<1>1. Spec => [](Typed /\ Order)
  BY InitTyped, InitOrder, TypedKept, OrderKept, PTL DEF Spec
<1>2. ASSUME Typed, Order PROVE HandledInOrder
  <2>1. \A k \in DOMAIN handled : handled[k] \in ClientFrames
          => handled[k].origin = "wireless_client"
    BY InputFields, InputsAreFrames
  <2> QED
    BY <1>2, <2>1 DEF Order, Rising, Came, HandledInOrder
<1> QED
  BY <1>1, <1>2, PTL

-----------------------------------------------------------------------------
(* What the monitor and the bus show.                                      *)

\* What was taken to the clients and what waits for them: one stream.
Stream == shown \o monitor

\* Every reply in a stream is to a frame the node handled.
Answered(s) ==
    \A k \in DOMAIN s : s[k].origin = "local_node" =>
        \E i \in DOMAIN handled : s[k] = Reply(handled[i])
Unheard(f, s) == \A k \in DOMAIN s : s[k] # f
Follows(s) == \A i, j \in DOMAIN s : s[j] = Reply(s[i]) /\ i # j => i < j

Streams ==
    /\ Answered(Stream) /\ Answered(bus)
    /\ Follows(Stream) /\ Follows(bus)
    /\ Replying => Unheard(frame, Stream)
    /\ pc = "reply" => Unheard(frame, bus)

LEMMA FollowsAppended ==
  ASSUME NEW S, NEW s \in Seq(S), NEW f \in S, Follows(s), Unheard(Reply(f), s)
  PROVE  Follows(Append(s, f))
BY Appended DEF Follows, Unheard

LEMMA UnheardAppended ==
  ASSUME NEW S, NEW s \in Seq(S), NEW f \in S, NEW g, g # f, Unheard(g, s)
  PROVE  Unheard(g, Append(s, f))
BY Appended DEF Unheard

LEMMA AnsweredAppended ==
  ASSUME NEW S, NEW s \in Seq(S), NEW f \in S, Answered(s),
         f.origin = "local_node" => \E i \in DOMAIN handled : f = Reply(handled[i])
  PROVE  Answered(Append(s, f))
BY Appended DEF Answered

\* The reply to a frame that is not handled yet is in no stream.
LEMMA NotAnsweredYet ==
  ASSUME NEW s \in Seq(Frames), Answered(s), handled \in Seq(Inputs),
         NEW f \in Inputs, After(f, handled)
  PROVE  Unheard(Reply(f), s)
<1> SUFFICES ASSUME NEW k \in DOMAIN s, s[k] = Reply(f) PROVE FALSE
  BY DEF Unheard
<1>1. PICK i \in DOMAIN handled : Reply(f) = Reply(handled[i])
  BY ReplyFields DEF Answered
<1>2. handled[i] \in Inputs
  OBVIOUS
<1>3. handled[i] = f
  BY <1>1, <1>2, ReplyFields
<1> QED
  BY <1>3, InputFields DEF After

LEMMA StreamType == TypeOK => Stream \in Seq(Frames)
  BY DEF TypeOK, Stream

\* observe() adds the frame to the stream or leaves the stream as it was.
LEMMA StreamObserved ==
  ASSUME TypeOK, NEW f \in Frames, Observe(f), UNCHANGED shown
  PROVE  Stream' \in {Stream, Append(Stream, f)}
<1>1. monitor' \in {monitor, Append(monitor, f)}
  BY Observed
<1>2. shown \o Append(monitor, f) = Append(shown \o monitor, f)
  BY StreamAppends DEF TypeOK
<1> QED
  BY <1>1, <1>2 DEF Stream

LEMMA InitStreams == Init => Streams
  BY DEF Init, Streams, Stream, Answered, Follows, Replying

LEMMA StreamsKept ==
  Typed /\ Order /\ Streams /\ [Next]_vars => Streams'
<1> SUFFICES ASSUME TypeOK, Stages, Order, Streams, [Next]_vars PROVE Streams'
  BY DEF Typed
<1> USE InputsAreFrames, StreamType
<1>1. CASE Forward
  <2>1. frame \in Inputs /\ After(frame, handled) /\ frame.origin # "local_node"
    BY <1>1, InputFields DEF Forward, Stages, Order, Working
  <2>2. Unheard(Reply(frame), bus)
    BY <2>1, NotAnsweredYet DEF TypeOK, Stages, Streams
  <2>3. Follows(Append(bus, frame)) /\ Answered(Append(bus, frame))
    BY <2>1, <2>2, FollowsAppended, AnsweredAppended DEF TypeOK, Streams
  <2>4. bus' \in {bus, Append(bus, frame)}
    BY <1>1, <2>1, Transmitted DEF Forward
  <2>5. Follows(bus)' /\ Answered(bus)'
    BY <1>1, <2>3, <2>4 DEF Forward, Streams, Answered
  <2> QED
    BY <1>1, <2>5 DEF Forward, Streams, Stream, Answered, Replying
<1>2. CASE ObserveTaken
  <2>1. frame \in Inputs /\ After(frame, handled) /\ frame.origin # "local_node"
    BY <1>2, InputFields DEF ObserveTaken, Stages, Order, Working
  <2>2. Unheard(Reply(frame), Stream)
    BY <2>1, NotAnsweredYet DEF TypeOK, Stages, Streams
  <2>3. Follows(Append(Stream, frame)) /\ Answered(Append(Stream, frame))
    BY <2>1, <2>2, FollowsAppended, AnsweredAppended DEF Streams
  <2>4. Stream' \in {Stream, Append(Stream, frame)}
    BY <1>2, <2>1, StreamObserved DEF ObserveTaken
  <2>5. Follows(Stream)' /\ Answered(Stream)'
    BY <1>2, <2>3, <2>4 DEF ObserveTaken, Streams, Answered
  <2> QED
    BY <1>2, <2>5 DEF ObserveTaken, Streams, Answered, Replying
<1>3. CASE Handle
  <2>1. frame \in Inputs /\ After(frame, handled)
    BY <1>3 DEF Handle, Stages, Order, Working
  <2>2. Unheard(Reply(frame), Stream) /\ Unheard(Reply(frame), bus)
    BY <2>1, NotAnsweredYet DEF TypeOK, Stages, Streams
  <2>3. \A i \in DOMAIN handled : i \in DOMAIN handled' /\ handled'[i] = handled[i]
    BY <1>3, <2>1, Appended DEF Handle, Stages
  <2>4. UNCHANGED <<Stream, bus>>
    BY <1>3 DEF Handle, Stream
  <2>5. Answered(Stream)' /\ Answered(bus)'
    BY <2>3, <2>4 DEF Streams, Answered
  <2>6. Replying' => frame' = Reply(frame)
    BY <1>3 DEF Handle, Back, Replying
  <2> QED
    BY <2>2, <2>4, <2>5, <2>6 DEF Streams, Replying
<1>4. CASE SendReply
  <2> DEFINE h == handled[Len(handled)]
  <2>1. Len(handled) \in DOMAIN handled /\ h \in Inputs /\ frame = Reply(h)
    BY <1>4 DEF SendReply, Stages, Replying
  <2>2. frame \in Frames /\ Reply(frame) = frame
    BY <2>1, ReplyFields
  <2>3. Follows(Append(bus, frame)) /\ Answered(Append(bus, frame))
    BY <1>4, <2>1, <2>2, FollowsAppended, AnsweredAppended DEF SendReply, TypeOK, Streams
  <2>4. bus' \in {bus, Append(bus, frame)}
    BY <1>4, <2>2, Transmitted DEF SendReply
  <2>5. Follows(bus)' /\ Answered(bus)'
    BY <1>4, <2>3, <2>4 DEF SendReply, Streams, Answered
  <2> QED
    BY <1>4, <2>5 DEF SendReply, Streams, Stream, Answered, Replying
<1>5. CASE ObserveReply
  <2> DEFINE h == handled[Len(handled)]
  <2>1. Len(handled) \in DOMAIN handled /\ h \in Inputs /\ frame = Reply(h)
    BY <1>5 DEF ObserveReply, Stages, Replying
  <2>2. frame \in Frames /\ Reply(frame) = frame
    BY <2>1, ReplyFields
  <2>3. Follows(Append(Stream, frame)) /\ Answered(Append(Stream, frame))
    BY <1>5, <2>1, <2>2, FollowsAppended, AnsweredAppended DEF ObserveReply, Streams, Replying
  <2>4. Stream' \in {Stream, Append(Stream, frame)}
    BY <1>5, <2>2, StreamObserved DEF ObserveReply
  <2>5. Follows(Stream)' /\ Answered(Stream)'
    BY <1>5, <2>3, <2>4 DEF ObserveReply, Streams, Answered
  <2> QED
    BY <1>5, <2>5 DEF ObserveReply, Back, Streams, Answered, Replying
<1>6. CASE ForwardCanFrame
  <2>1. UNCHANGED <<Stream, bus, handled, pc, frame>>
    BY <1>6, StreamMoves DEF ForwardCanFrame, task, Stream, TypeOK
  <2> QED
    BY <2>1 DEF Streams, Answered, Replying
<1>7. CASE \/ TakeFromBus \/ BusEmpty \/ TakeInjected \/ EndRound \/ Arrive \/ Inject
            \/ UNCHANGED vars
  <2>1. UNCHANGED <<Stream, bus, handled>>
    BY <1>7 DEF TakeFromBus, BusEmpty, TakeInjected, EndRound, Arrive, Inject, Stream, vars
  <2>2. /\ Replying' => Replying /\ frame' = frame
        /\ pc' = "reply" => pc = "reply" /\ frame' = frame
    BY <1>7 DEF TakeFromBus, BusEmpty, TakeInjected, EndRound, Arrive, Inject, task, vars, Replying
  <2> QED
    BY <2>1, <2>2 DEF Streams, Answered
<1> QED
  BY <1>1, <1>2, <1>3, <1>4, <1>5, <1>6, <1>7 DEF Next, Service

\* Neither the monitor nor the bus shows a reply of the node before the frame
\* it replies to.
THEOREM RepliesFollow == Spec => []ReplyFollowsCause
<1>1. Spec => [](Typed /\ Order /\ Streams)
  BY InitTyped, InitOrder, InitStreams, TypedKept, OrderKept, StreamsKept, PTL DEF Spec
<1>2. Streams => ReplyFollowsCause
  BY DEF Streams, Stream, Follows, ReplyFollowsCause
<1> QED
  BY <1>1, <1>2, PTL

-----------------------------------------------------------------------------
(* What inject() accepted.                                                 *)

\* A client's frame is still queued, is in the hands of the service task, or
\* was handled.
Held(f) ==
    \/ \E k \in DOMAIN ingress : ingress[k] = f
    \/ Working /\ frame = f
    \/ \E k \in DOMAIN handled : handled[k] = f
NoneLost == \A f \in accepted : Held(f)

LEMMA InitNoneLost == Init => NoneLost
  BY DEF Init, NoneLost

LEMMA NoneLostKept ==
  Typed /\ NoneLost /\ [Next]_vars => NoneLost'
<1> SUFFICES ASSUME TypeOK, Stages, NoneLost, [Next]_vars PROVE NoneLost'
  BY DEF Typed
<1>1. CASE TakeInjected
  <2>1. \A k \in DOMAIN ingress :
          \/ ingress[k] = Head(ingress)
          \/ \E j \in DOMAIN Tail(ingress) : Tail(ingress)[j] = ingress[k]
    BY <1>1, TakenOrLeft DEF TakeInjected, TypeOK
  <2> QED
    BY <1>1, <2>1 DEF TakeInjected, NoneLost, Held, Working
<1>2. CASE Handle
  <2>1. /\ \A k \in DOMAIN handled : k \in DOMAIN handled' /\ handled'[k] = handled[k]
        /\ \E k \in DOMAIN handled' : handled'[k] = frame
    BY <1>2, StaysAndAdded DEF Handle, Stages, Working
  <2>2. ASSUME NEW f, Held(f) PROVE Held(f)'
    <3>1. CASE \E k \in DOMAIN ingress : ingress[k] = f
      BY <1>2, <3>1 DEF Handle, Held
    <3>2. CASE \E k \in DOMAIN handled : handled[k] = f
      BY <2>1, <3>2 DEF Held
    <3>3. CASE frame = f
      BY <2>1, <3>3 DEF Held
    <3> QED
      BY <2>2, <3>1, <3>2, <3>3 DEF Held
  <2> QED
    BY <1>2, <2>2 DEF Handle, NoneLost
<1>3. CASE Inject
  <2>1. PICK f : /\ f = Frame("wireless_client", submitted + 1)
                 /\ ingress' = Pushed(ingress, IngressDepth, f)
                 /\ accepted' = IF ingress' = ingress THEN accepted ELSE accepted \cup {f}
    BY <1>3 DEF Inject
  <2>2. f \in ClientFrames
    <3>1. submitted + 1 \in 1 .. MaxWireless
      BY <1>3, BoundsAssumption DEF Inject, TypeOK
    <3> QED
      BY <2>1, <3>1 DEF ClientFrames
  <2>3. CASE ingress' = ingress
    BY <1>3, <2>1, <2>3 DEF Inject, task, NoneLost, Held, Working
  <2>4. CASE ingress' = Append(ingress, f)
    <3>1. /\ \A k \in DOMAIN ingress : k \in DOMAIN ingress' /\ ingress'[k] = ingress[k]
          /\ \E k \in DOMAIN ingress' : ingress'[k] = f
      <4>1. ingress \in Seq(ClientFrames)
        BY DEF TypeOK
      <4>2. /\ \A k \in DOMAIN ingress : /\ k \in DOMAIN Append(ingress, f)
                                         /\ Append(ingress, f)[k] = ingress[k]
            /\ \E k \in DOMAIN Append(ingress, f) : Append(ingress, f)[k] = f
        BY <2>2, <4>1, StaysAndAdded
      <4> QED
        BY <2>4, <4>2
    <3>2. ASSUME NEW g, Held(g) PROVE Held(g)'
      <4>1. CASE \E k \in DOMAIN ingress : ingress[k] = g
        BY <3>1, <4>1 DEF Held
      <4>2. CASE ~ \E k \in DOMAIN ingress : ingress[k] = g
        BY <1>3, <3>2, <4>2 DEF Inject, task, Held, Working
      <4> QED
        BY <4>1, <4>2
    <3>3. Held(f)'
      BY <3>1 DEF Held
    <3>4. accepted' \subseteq accepted \cup {f}
      BY <2>1
    <3> QED
      BY <3>2, <3>3, <3>4 DEF NoneLost
  <2> QED
    BY <2>1, <2>3, <2>4 DEF Pushed
<1>4. CASE TakeFromBus \/ BusEmpty \/ Forward \/ ObserveTaken \/ SendReply \/ EndRound
  BY <1>4
  DEF TakeFromBus, BusEmpty, Forward, ObserveTaken, SendReply, EndRound, NoneLost, Held,
      Working
<1>5. CASE ObserveReply \/ Arrive \/ ForwardCanFrame \/ UNCHANGED vars
  BY <1>5
  DEF ObserveReply, Back, Arrive, ForwardCanFrame, task, vars, NoneLost, Held, Working
<1> QED
  BY <1>1, <1>2, <1>3, <1>4, <1>5 DEF Next, Service

\* No frame that inject() accepted is dropped on its way to the node, whatever
\* the bus and the full queues do: the safety half of AcceptedIsHandled.
THEOREM AcceptedIsNotLost == Spec => []NoneLost
<1>1. Spec => [](Typed /\ NoneLost)
  BY InitTyped, InitNoneLost, TypedKept, NoneLostKept, PTL DEF Spec
<1> QED
  BY <1>1, PTL
-----------------------------------------------------------------------------
(* From a client to the node: a channel.                                   *)

\* The client's frame that the service task works on, if it is one.
Current == IF Working /\ frame \in ClientFrames THEN <<frame>> ELSE <<>>

\* The numbers of the frames in a queue, and of a client's among those handled.
NumbersOf(q) == [i \in DOMAIN q |-> q[i].n]
ClientNumbers(S) == {f.n : f \in S \cap ClientFrames}

LEMMA OnTheWayIs == OnTheWay = Current \o ingress
BY DEF OnTheWay, Current, Working

LEMMA NumbersType ==
  ASSUME NEW q \in Seq(ClientFrames)
  PROVE  /\ NumbersOf(q) \in Seq(Nat) /\ Len(NumbersOf(q)) = Len(q)
         /\ DOMAIN NumbersOf(q) = 1 .. Len(q)
         /\ \A i \in 1 .. Len(q) : NumbersOf(q)[i] = q[i].n
<1>1. /\ Len(q) \in Nat /\ DOMAIN q = 1 .. Len(q)
      /\ \A i \in 1 .. Len(q) : q[i] \in ClientFrames
  OBVIOUS
<1>2. \A i \in 1 .. Len(q) : q[i].n \in Nat
  BY <1>1, InputFields, InputsAreFrames
<1>3. NumbersOf(q) \in [1 .. Len(q) -> Nat]
  BY <1>1, <1>2 DEF NumbersOf
<1>4. NumbersOf(q) \in Seq(Nat)
  <2>1. NumbersOf(q) \in UNION {[1 .. n -> Nat] : n \in Nat}
    BY <1>1, <1>3
  <2> QED
    BY <2>1, SeqDef, Zenon
<1>5. DOMAIN NumbersOf(q) = 1 .. Len(q)
  BY <1>3
<1> QED
  BY <1>1, <1>4, <1>5 DEF NumbersOf

LEMMA NumbersAppend ==
  ASSUME NEW q \in Seq(ClientFrames), NEW f \in ClientFrames
  PROVE  NumbersOf(Append(q, f)) = Append(NumbersOf(q), f.n)
<1> DEFINE r == Append(q, f)
           c == NumbersOf(q)
           d == NumbersOf(r)
<1>1. /\ r \in Seq(ClientFrames) /\ Len(r) = Len(q) + 1 /\ Len(q) \in Nat
      /\ r[Len(q) + 1] = f /\ \A i \in 1 .. Len(q) : r[i] = q[i]
  OBVIOUS
<1> HIDE DEF r
<1>2. /\ c \in Seq(Nat) /\ Len(c) = Len(q) /\ \A i \in 1 .. Len(q) : c[i] = q[i].n
  BY NumbersType
<1>3. /\ d \in Seq(Nat) /\ Len(d) = Len(q) + 1
      /\ \A i \in 1 .. Len(q) + 1 : d[i] = r[i].n
  BY <1>1, NumbersType
<1>4. f.n \in Nat
  BY InputFields, InputsAreFrames
<1> HIDE DEF c, d
<1>5. Append(c, f.n) \in Seq(Nat) /\ Len(Append(c, f.n)) = Len(q) + 1
  BY <1>2, <1>4
<1>6. ASSUME NEW i \in 1 .. Len(q) + 1 PROVE d[i] = Append(c, f.n)[i]
  BY <1>1, <1>2, <1>3
<1>7. d = Append(c, f.n)
  BY <1>3, <1>5, <1>6, SeqEqual
<1> QED
  BY <1>7 DEF c, d, r

\* A queue behind one more frame.
LEMMA NumbersLed ==
  ASSUME NEW q \in Seq(ClientFrames), NEW f \in ClientFrames
  PROVE  /\ NumbersOf(<<f>> \o q) # <<>> /\ Head(NumbersOf(<<f>> \o q)) = f.n
         /\ Tail(NumbersOf(<<f>> \o q)) = NumbersOf(q)
<1> DEFINE r == <<f>> \o q
           c == NumbersOf(q)
           d == NumbersOf(r)
<1>1. /\ r \in Seq(ClientFrames) /\ Len(r) = Len(q) + 1 /\ Len(q) \in Nat
      /\ r[1] = f /\ \A i \in 1 .. Len(q) : r[i + 1] = q[i]
  OBVIOUS
<1> HIDE DEF r
<1>2. /\ c \in Seq(Nat) /\ Len(c) = Len(q) /\ \A i \in 1 .. Len(q) : c[i] = q[i].n
  BY NumbersType
<1>3. /\ d \in Seq(Nat) /\ Len(d) = Len(q) + 1
      /\ \A i \in 1 .. Len(q) + 1 : d[i] = r[i].n
  BY <1>1, NumbersType
<1> HIDE DEF c, d
<1>4. d # <<>> /\ Head(d) = f.n
  BY <1>1, <1>3
<1>5. /\ Tail(d) \in Seq(Nat) /\ Len(Tail(d)) = Len(q)
      /\ \A i \in 1 .. Len(q) : Tail(d)[i] = d[i + 1]
  BY <1>1, <1>3, <1>4
<1>6. ASSUME NEW i \in 1 .. Len(q) PROVE Tail(d)[i] = c[i]
  <2>1. i + 1 \in 1 .. Len(q) + 1 /\ d[i + 1] = r[i + 1].n
    BY <1>1, <1>3
  <2>2. r[i + 1] = q[i] /\ c[i] = q[i].n /\ Tail(d)[i] = d[i + 1]
    BY <1>1, <1>2, <1>5
  <2> QED
    BY <2>1, <2>2
<1>7. Tail(d) = c
  BY <1>2, <1>5, <1>6, SeqEqual
<1> QED
  BY <1>4, <1>7 DEF c, d, r

LEMMA RangeAppended ==
  ASSUME NEW S, NEW q \in Seq(S), NEW e \in S
  PROVE  Range(Append(q, e)) = Range(q) \cup {e}
<1> DEFINE r == Append(q, e)
<1>1. /\ DOMAIN r = 1 .. Len(q) + 1 /\ DOMAIN q = 1 .. Len(q) /\ Len(q) \in Nat
      /\ \A i \in 1 .. Len(q) : r[i] = q[i]
      /\ r[Len(q) + 1] = e
  OBVIOUS
<1> HIDE DEF r
<1>2. ASSUME NEW y \in Range(r) PROVE y \in Range(q) \cup {e}
  BY <1>1, <1>2 DEF Range
<1>3. ASSUME NEW y \in Range(q) \cup {e} PROVE y \in Range(r)
  <2>1. Len(q) + 1 \in DOMAIN r /\ DOMAIN q \subseteq DOMAIN r
    BY <1>1
  <2> QED
    BY <1>1, <1>3, <2>1 DEF Range
<1>4. Range(r) = Range(q) \cup {e}
  BY <1>2, <1>3
<1> QED
  BY <1>4 DEF r

-----------------------------------------------------------------------------
(* Each step is one of Channel's, or none.                                 *)

Waiting == NumbersOf(OnTheWay)
Done == ClientNumbers(Range(handled))

LEMMA ChannelUnchanged ==
  Waiting' = Waiting /\ Done' = Done => UNCHANGED Channel!cvars
BY DEF Waiting, Done, NumbersOf, ClientNumbers, Channel!cvars

LEMMA CurrentStays ==
  ASSUME UNCHANGED <<ingress, handled>>, Current' = Current
  PROVE  UNCHANGED Channel!cvars
<1>1. OnTheWay' = OnTheWay
  BY DEF OnTheWay, Current, Working
<1> QED
  BY <1>1, ChannelUnchanged DEF Waiting, Done

\* The task takes a frame in hand: it was on its way and still is.
LEMMA TakingUnseen ==
  ASSUME TypeOK, TakeInjected
  PROVE  UNCHANGED Channel!cvars
<1>1. /\ ingress \in Seq(ClientFrames) /\ ingress # <<>>
      /\ Head(ingress) \in ClientFrames
      /\ ingress' = Tail(ingress) /\ handled' = handled
      /\ Current = <<>> /\ Current' = <<Head(ingress)>>
  BY DEF TypeOK, TakeInjected, Current, Working
<1>2. OnTheWay = ingress /\ OnTheWay' = <<Head(ingress)>> \o Tail(ingress)
  <2>1. <<>> \o ingress = ingress
    BY <1>1
  <2> QED
    BY <1>1, <2>1 DEF OnTheWay, Current, Working
<1>3. <<Head(ingress)>> \o Tail(ingress) = ingress
  BY <1>1
<1> QED
  BY <1>1, <1>2, <1>3, ChannelUnchanged DEF Waiting, Done

\* What the node handles is the client's frame that has waited longest.
LEMMA HandlingFinishes ==
  ASSUME TypeOK, Stages, Handle
  PROVE  Channel!Finish \/ UNCHANGED Channel!cvars
<1>1. /\ pc = "handle" /\ pc' \in {"bus", "ingress", "reply"}
      /\ handled' = Append(handled, frame) /\ ingress' = ingress
      /\ frame \in Inputs /\ handled \in Seq(Inputs) /\ ingress \in Seq(ClientFrames)
  BY DEF Handle, Back, Stages, Working, TypeOK
<1>2. OnTheWay' = ingress
  <2>1. <<>> \o ingress = ingress
    BY <1>1
  <2>2. OnTheWay' = <<>> \o ingress
    BY <1>1 DEF OnTheWay
  <2> QED
    BY <2>1, <2>2
<1>3. Range(handled') = Range(handled) \cup {frame}
  BY <1>1, RangeAppended
<1>4. CASE frame \in ClientFrames
  <2>1. OnTheWay = <<frame>> \o ingress
    BY <1>4 DEF OnTheWay, Handle
  <2>2. Waiting # <<>> /\ Head(Waiting) = frame.n /\ Waiting' = Tail(Waiting)
    BY <1>1, <1>2, <1>4, <2>1, NumbersLed DEF Waiting
  <2>3. Done' = Done \cup {frame.n}
    BY <1>3, <1>4 DEF Done, ClientNumbers
  <2> QED
    BY <2>2, <2>3 DEF Channel!Finish, Waiting, Done, NumbersOf, ClientNumbers
<1>5. CASE frame \notin ClientFrames
  <2>1. OnTheWay = ingress
    <3>1. <<>> \o ingress = ingress
      BY <1>1
    <3> QED
      BY <1>5, <3>1 DEF OnTheWay
  <2>2. Done' = Done
    BY <1>3, <1>5 DEF Done, ClientNumbers
  <2> QED
    BY <1>2, <2>1, <2>2, ChannelUnchanged DEF Waiting
<1> QED
  BY <1>4, <1>5

\* A frame that inject() accepts is new, finds room, and goes to the end.
LEMMA InjectionAccepts ==
  ASSUME TypeOK, Stages, Order, Inject
  PROVE  (\E n \in 1 .. MaxWireless : Channel!Accept(n)) \/ UNCHANGED Channel!cvars
<1>1. PICK f : /\ f = Frame("wireless_client", submitted + 1)
               /\ ingress' = Pushed(ingress, IngressDepth, f)
               /\ UNCHANGED <<task, handled>>
  BY DEF Inject
<1>2. /\ f \in ClientFrames /\ f.n = submitted + 1 /\ f.n \in 1 .. MaxWireless
      /\ submitted \in Nat
  <2>1. submitted + 1 \in 1 .. MaxWireless /\ submitted \in Nat
    BY BoundsAssumption DEF Inject, TypeOK
  <2> QED
    BY <1>1, <2>1 DEF ClientFrames, Frame
<1>3. Current' = Current
  BY <1>1 DEF Current, Working, task
<1>4. CASE ingress' = ingress
  BY <1>1, <1>3, <1>4, CurrentStays
<1>5. CASE Len(ingress) < IngressDepth /\ ingress' = Append(ingress, f)
  <2>1. /\ ingress \in Seq(ClientFrames) /\ Current \in Seq(ClientFrames)
        /\ Len(Current) <= 1 /\ Len(Current) \in Nat
        /\ \A i \in DOMAIN Current : Working /\ Current[i] = frame
    BY DEF TypeOK, Current
  <2>2. /\ OnTheWay \in Seq(ClientFrames) /\ Len(OnTheWay) = Len(Current) + Len(ingress)
        /\ OnTheWay' = Append(OnTheWay, f)
    <3>1. Current \o Append(ingress, f) = Append(Current \o ingress, f)
      BY <1>2, <2>1
    <3>2. OnTheWay' = Current' \o ingress'
      BY DEF OnTheWay, Current, Working
    <3> QED
      BY <1>3, <1>5, <2>1, <3>1, <3>2, OnTheWayIs
  <2>3. Waiting' = Append(Waiting, f.n)
    BY <1>2, <2>2, NumbersAppend DEF Waiting
  <2>4. Len(Waiting) < IngressDepth + 1
    <3>1. Len(Waiting) = Len(Current) + Len(ingress)
      BY <2>2, NumbersType DEF Waiting
    <3>2. IngressDepth \in Nat /\ Len(ingress) \in Nat
      BY <2>1, DepthAssumption
    <3> QED
      BY <1>5, <2>1, <3>1, <3>2
  <2>5. ASSUME NEW g \in ClientFrames, Came(g) PROVE g.n < f.n
    <3>1. g.origin = "wireless_client" /\ g.n \in Nat
      BY InputFields, InputsAreFrames
    <3> QED
      BY <1>2, <2>5, <3>1 DEF Came
  <2>6. ASSUME NEW i \in DOMAIN Waiting PROVE Waiting[i] < f.n
    <3>1. i \in 1 .. Len(OnTheWay) /\ Waiting[i] = OnTheWay[i].n /\ OnTheWay[i] \in ClientFrames
      BY <2>2, <2>6, NumbersType DEF Waiting
    <3>2. Came(OnTheWay[i])
      <4>1. CASE i \in DOMAIN Current
        <5>1. OnTheWay[i] = Current[i]
          BY <2>1, <4>1, OnTheWayIs
        <5> QED
          BY <2>1, <4>1, <5>1 DEF Order
      <4>2. CASE i \notin DOMAIN Current
        <5>1. i - Len(Current) \in DOMAIN ingress
              /\ OnTheWay[i] = ingress[i - Len(Current)]
          BY <2>1, <2>2, <3>1, <4>2, OnTheWayIs
        <5> QED
          BY <5>1 DEF Order
      <4> QED
        BY <4>1, <4>2
    <3> QED
      BY <2>5, <3>1, <3>2
  <2>7. ASSUME NEW m \in Done PROVE m < f.n
    <3>1. PICK g \in Range(handled) \cap ClientFrames : m = g.n
      BY <2>7 DEF Done, ClientNumbers
    <3>2. PICK k \in DOMAIN handled : g = handled[k]
      BY <3>1 DEF Range
    <3> QED
      BY <2>5, <3>1, <3>2 DEF Order
  <2>8. Done' = Done
    BY <1>1 DEF Done
  <2> QED
    BY <1>2, <2>3, <2>4, <2>6, <2>7, <2>8
       DEF Channel!Accept, Waiting, Done, NumbersOf, ClientNumbers
<1> QED
  BY <1>1, <1>4, <1>5 DEF Pushed

\* The other steps leave the way from a client to the node alone.
LEMMA OthersUnseen ==
  ASSUME TypeOK,
         \/ TakeFromBus \/ BusEmpty \/ Forward \/ ObserveTaken \/ SendReply \/ ObserveReply
         \/ EndRound \/ Arrive \/ ForwardCanFrame \/ UNCHANGED vars
  PROVE  UNCHANGED Channel!cvars
<1>1. CASE TakeFromBus
  <2>1. Head(rx) \in BusFrames
    BY <1>1, Shortened DEF TakeFromBus, TypeOK
  <2>2. Head(rx) \notin ClientFrames
    BY <2>1, InputFields, InputsAreFrames
  <2>3. Current = <<>> /\ Current' = <<>>
    BY <1>1, <2>2 DEF TakeFromBus, Current, Working
  <2> QED
    BY <1>1, <2>3, CurrentStays DEF TakeFromBus
<1>2. CASE BusEmpty \/ EndRound \/ SendReply
  BY <1>2, CurrentStays DEF BusEmpty, EndRound, SendReply, Current, Working
<1>3. CASE Forward \/ ObserveTaken
  BY <1>3, CurrentStays DEF Forward, ObserveTaken, Current, Working
<1>4. CASE ObserveReply
  BY <1>4, CurrentStays DEF ObserveReply, Back, Current, Working
<1>5. CASE Arrive \/ ForwardCanFrame \/ UNCHANGED vars
  BY <1>5, CurrentStays DEF Arrive, ForwardCanFrame, vars, task, Current, Working
<1> QED
  BY <1>1, <1>2, <1>3, <1>4, <1>5

LEMMA ChannelSteps ==
  Typed /\ Order /\ [Next]_vars => [Channel!CNext]_(Channel!cvars)
<1> SUFFICES ASSUME TypeOK, Stages, Order, [Next]_vars
             PROVE  Channel!CNext \/ UNCHANGED Channel!cvars
  BY DEF Typed
<1> QED
  BY TakingUnseen, HandlingFinishes, InjectionAccepts, OthersUnseen
     DEF Next, Service, Channel!CNext

LEMMA ChannelStarts == Init => Channel!CInit
<1> SUFFICES ASSUME Init PROVE Channel!CInit
  OBVIOUS
<1>1. OnTheWay = <<>>
  BY DEF Init, OnTheWay
<1>2. [i \in DOMAIN OnTheWay |-> OnTheWay[i].n] = <<>>
  BY <1>1
<1>3. Range(handled) = {}
  BY DEF Init, Range
<1> QED
  BY <1>2, <1>3 DEF Channel!CInit

\* inject(), receive_injected() and the loop of the service task: for a client
\* they are a channel to the node that accepts IngressDepth + 1 frames at a time
\* and hands over each of them once, in order, whatever the bus, the monitor and
\* the frames of the bus do in between.
THEOREM Implements == Spec => ImplementsChannel
<1>1. Spec => [](Typed /\ Order)
  BY InitTyped, InitOrder, TypedKept, OrderKept, PTL DEF Spec
<1>2. Typed /\ Order /\ [Next]_vars => [Channel!CNext]_(Channel!cvars)
  BY ChannelSteps
<1> QED
  BY <1>1, <1>2, ChannelStarts, PTL DEF Spec, ImplementsChannel, Channel!CSpec
=============================================================================
