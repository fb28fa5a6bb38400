------------------------ MODULE TwaiTransportProofs ------------------------
(***************************************************************************)
(* Theorems about TwaiTransport, for any number of slots, frames and       *)
(* bus-offs: no slot is lost or handed out twice, the bus carries what was *)
(* accepted, and all of it together is the queue of frames FrameChannel.   *)
(***************************************************************************)
EXTENDS TwaiTransport, FiniteSetTheorems, SequenceTheorems, TLAPS

\* What the phases of the main task say about the rest.  The driver has as
\* many frames as were accepted and not completed until it is deleted; the
\* slot of the send() in progress holds its frame once it is filled.
PhaseInv ==
    /\ main = "down" => free = <<>>
    /\ main \in {"down", "deleted", "stopped"} => mounted = <<>>
    /\ main \in {"down", "initialized"} => task = "none"
    /\ main \notin {"deleted", "stopped"} => Len(accepted) = Len(completed) + Len(mounted)
    /\ task \in {"take", "fill", "transmit"} => frame \in Frames
    /\ task = "transmit" => payload[slot] = frame

IInv == TypeOK /\ PhaseInv /\ SlotsConserved /\ BusCarriesAccepted

-----------------------------------------------------------------------------
(* Queues without repetitions.                                             *)

\* Adding a new element at the end of an injective queue.
LEMMA AddSlot ==
  ASSUME NEW S, NEW q \in Seq(S), NEW x \in S, IsInjective(q), x \notin Range(q)
  PROVE  /\ Append(q, x) \in Seq(S)
         /\ IsInjective(Append(q, x))
         /\ Range(Append(q, x)) = Range(q) \cup {x}
<1> DEFINE r == Append(q, x)
<1>1. /\ r \in Seq(S) /\ Len(r) = Len(q) + 1
      /\ DOMAIN r = 1 .. Len(q) + 1 /\ DOMAIN q = 1 .. Len(q)
      /\ \A i \in 1 .. Len(q) : r[i] = q[i]
      /\ r[Len(q) + 1] = x
      /\ Len(q) \in Nat
  OBVIOUS
<1> HIDE DEF r
<1>2. IsInjective(r)
  BY <1>1 DEF IsInjective, Range
<1>3. ASSUME NEW y \in Range(r) PROVE y \in Range(q) \cup {x}
  BY <1>1, <1>3 DEF Range
<1>4. ASSUME NEW y \in Range(q) \cup {x} PROVE y \in Range(r)
  <2>1. Len(q) + 1 \in DOMAIN r /\ DOMAIN q \subseteq DOMAIN r
    BY <1>1
  <2> QED
    BY <1>1, <1>4, <2>1 DEF Range
<1> QED
  BY <1>1, <1>2, <1>3, <1>4 DEF r

\* Taking the first element off an injective queue.
LEMMA RemoveSlot ==
  ASSUME NEW S, NEW q \in Seq(S), q # <<>>, IsInjective(q)
  PROVE  /\ Head(q) \in S /\ Head(q) \in Range(q)
         /\ Tail(q) \in Seq(S)
         /\ IsInjective(Tail(q))
         /\ Range(Tail(q)) = Range(q) \ {Head(q)}
<1> DEFINE r == Tail(q)
<1>1. /\ r \in Seq(S) /\ Len(q) \in Nat \ {0}
      /\ DOMAIN r = 1 .. Len(q) - 1 /\ DOMAIN q = 1 .. Len(q)
      /\ \A i \in 1 .. Len(q) - 1 : r[i] = q[i + 1]
      /\ q[1] = Head(q) /\ Head(q) \in S
  OBVIOUS
<1> HIDE DEF r
<1>2. IsInjective(r)
  <2>1. ASSUME NEW i \in DOMAIN r, NEW j \in DOMAIN r, r[i] = r[j] PROVE i = j
    <3>1. i \in Nat /\ j \in Nat /\ i + 1 \in DOMAIN q /\ j + 1 \in DOMAIN q
      BY <1>1, <2>1
    <3>2. q[i + 1] = q[j + 1]
      BY <1>1, <2>1
    <3> QED
      BY <3>1, <3>2 DEF IsInjective
  <2> QED
    BY <2>1 DEF IsInjective
<1>3. ASSUME NEW y \in Range(r) PROVE y \in Range(q) \ {Head(q)}
  <2>1. PICK i \in 1 .. Len(q) - 1 : y = q[i + 1]
    BY <1>1, <1>3 DEF Range
  <2>2. i + 1 \in DOMAIN q /\ 1 \in DOMAIN q /\ i + 1 # 1
    BY <1>1
  <2> QED
    BY <1>1, <2>1, <2>2 DEF Range, IsInjective
<1>4. ASSUME NEW y \in Range(q), y # Head(q) PROVE y \in Range(r)
  <2>1. PICK i \in 1 .. Len(q) : y = q[i]
    BY <1>1, <1>4 DEF Range
  <2>2. i - 1 \in DOMAIN r /\ r[i - 1] = q[i]
    BY <1>1, <1>4, <2>1
  <2> QED
    BY <2>1, <2>2 DEF Range
<1>5. Head(q) \in Range(q)
  BY <1>1 DEF Range
<1> QED
  BY <1>1, <1>2, <1>3, <1>4, <1>5 DEF r

-----------------------------------------------------------------------------
\* The invariant holds in the initial state.
LEMMA InitIInv == Init => IInv
<1> SUFFICES ASSUME Init PROVE IInv
  OBVIOUS
<1> USE DepthAssumption, BoundsAssumption DEF Init
<1>1. TypeOK
  <2>1. 0 \in Slots /\ 0 \in 0 .. MaxFrames /\ 0 \in 0 .. MaxBusOff
    BY DEF Slots
  <2>2. payload \in [Slots -> 0 .. MaxFrames]
    BY <2>1
  <2>3. free \in Seq(Slots) /\ mounted \in Seq(Slots)
        /\ accepted \in Seq(Frames) /\ completed \in Seq(Frames)
    OBVIOUS
  <2> QED
    BY <2>1, <2>2, <2>3 DEF TypeOK, Phases
<1>2. PhaseInv
  BY DEF PhaseInv
<1>3. SlotsConserved
  BY DEF SlotsConserved, IsInjective, Range, Held
<1>4. BusCarriesAccepted
  BY DEF BusCarriesAccepted
<1> QED
  BY <1>1, <1>2, <1>3, <1>4 DEF IInv

\* Initialisation puts each slot into the pool once.
LEMMA InitializeKeeps == IInv /\ Initialize => IInv'
<1> SUFFICES ASSUME IInv, Initialize PROVE IInv'
  OBVIOUS
<1> USE DepthAssumption, BoundsAssumption DEF IInv, Initialize
<1>1. /\ DOMAIN free' = 1 .. Depth
      /\ \A i \in 1 .. Depth : free'[i] = i - 1
      /\ free' \in Seq(Slots)
  BY DEF Slots
<1>2. IsInjective(free')
  BY <1>1 DEF IsInjective
<1>3. Range(free') = Slots
  <2>1. ASSUME NEW n \in Slots PROVE n \in Range(free')
    <3>1. n + 1 \in 1 .. Depth /\ free'[n + 1] = n
      BY <1>1, <2>1 DEF Slots
    <3> QED
      BY <1>1, <3>1 DEF Range
  <2>2. ASSUME NEW n \in Range(free') PROVE n \in Slots
    BY <1>1, <2>2 DEF Range, Slots
  <2> QED
    BY <2>1, <2>2
<1>4. TypeOK'
  BY <1>1 DEF TypeOK, Phases, busVars
<1>5. PhaseInv'
  BY DEF PhaseInv, busVars
<1>6. SlotsConserved'
  BY <1>2, <1>3 DEF SlotsConserved, PhaseInv, Held, IsInjective, Range
<1>7. BusCarriesAccepted'
  BY DEF BusCarriesAccepted
<1> QED
  BY <1>4, <1>5, <1>6, <1>7

\* The other steps of the main task move no slot but those the driver loses.
LEMMA MainKeeps ==
  IInv /\ (Start \/ StartFailed \/ RequestStop \/ Disable \/ Delete \/ Forget) => IInv'
<1> SUFFICES ASSUME IInv, Start \/ StartFailed \/ RequestStop \/ Disable \/ Delete \/ Forget
             PROVE  IInv'
  OBVIOUS
<1> USE DEF IInv
<1>1. CASE Start \/ StartFailed \/ RequestStop \/ Disable \/ Forget
  <2> USE <1>1 DEF Start, StartFailed, RequestStop, Disable, Forget, sending, busVars
  <2>1. TypeOK'
    BY DEF TypeOK, Phases
  <2>2. PhaseInv'
    BY DEF PhaseInv, TypeOK, Phases
  <2>3. SlotsConserved'
    BY DEF SlotsConserved, PhaseInv, Held
  <2>4. BusCarriesAccepted'
    BY DEF BusCarriesAccepted
  <2> QED
    BY <2>1, <2>2, <2>3, <2>4
<1>2. CASE Delete
  <2> USE <1>2 DEF Delete, busVars
  <2>1. TypeOK'
    BY DEF TypeOK, Phases
  <2>2. PhaseInv'
    BY DEF PhaseInv
  <2>3. SlotsConserved'
    BY DEF SlotsConserved, Held, IsInjective, Range
  <2>4. BusCarriesAccepted'
    BY DEF BusCarriesAccepted, TypeOK
  <2> QED
    BY <2>1, <2>2, <2>3, <2>4
<1> QED
  BY <1>1, <1>2

\* A slot leaves the pool for the send() in progress, and comes back to it.
LEMMA TakeKeeps == IInv /\ Take => IInv'
<1> SUFFICES ASSUME IInv, Take PROVE IInv'
  OBVIOUS
<1> USE DEF IInv, Take, At, busVars
<1>1. /\ slot' \in Slots /\ slot' \in Range(free)
      /\ free' \in Seq(Slots) /\ IsInjective(free')
      /\ Range(free') = Range(free) \ {slot'}
  BY RemoveSlot DEF TypeOK, SlotsConserved
<1>2. TypeOK'
  BY <1>1 DEF TypeOK
<1>3. PhaseInv'
  BY DEF PhaseInv
<1>4. SlotsConserved'
  <2>1. Held = {} /\ Held' = {slot'} /\ mounted' = mounted /\ main' = main
    BY DEF Held
  <2>2. slot' \notin Range(mounted)
    BY <1>1 DEF SlotsConserved
  <2> QED
    BY <1>1, <2>1, <2>2 DEF SlotsConserved
<1>5. BusCarriesAccepted'
  BY DEF BusCarriesAccepted
<1> QED
  BY <1>2, <1>3, <1>4, <1>5

LEMMA GiveBackKeeps == IInv /\ GiveBack => IInv'
<1> SUFFICES ASSUME IInv, GiveBack PROVE IInv'
  OBVIOUS
<1> USE DEF IInv, GiveBack, At, busVars
<1>1. /\ free' \in Seq(Slots) /\ IsInjective(free')
      /\ Range(free') = Range(free) \cup {slot}
  BY AddSlot DEF TypeOK, SlotsConserved, Held
<1>2. TypeOK'
  BY <1>1 DEF TypeOK
<1>3. PhaseInv'
  BY DEF PhaseInv
<1>4. SlotsConserved'
  <2>1. Held = {slot} /\ Held' = {} /\ mounted' = mounted /\ main' = main
    BY DEF Held
  <2>2. slot \notin Range(mounted)
    BY <2>1 DEF SlotsConserved
  <2> QED
    BY <1>1, <2>1, <2>2 DEF SlotsConserved
<1>5. BusCarriesAccepted'
  BY DEF BusCarriesAccepted
<1> QED
  BY <1>2, <1>3, <1>4, <1>5

\* The slot that is written is not one the driver refers to.
LEMMA FillKeeps == IInv /\ Fill => IInv'
<1> SUFFICES ASSUME IInv, Fill PROVE IInv'
  OBVIOUS
<1> USE DEF IInv, Fill, At, busVars
<1>1. TypeOK'
  BY DEF TypeOK
<1>2. PhaseInv'
  BY DEF PhaseInv, TypeOK
<1>3. SlotsConserved'
  BY DEF SlotsConserved, Held
<1>4. \A i \in DOMAIN mounted : payload'[mounted[i]] = payload[mounted[i]]
  BY DEF SlotsConserved, Held, Range, TypeOK
<1>5. BusCarriesAccepted'
  BY <1>4 DEF BusCarriesAccepted
<1> QED
  BY <1>1, <1>2, <1>3, <1>5

\* The driver takes over the slot and its frame is the next accepted one.
LEMMA TransmitKeeps == IInv /\ Transmit => IInv'
<1> SUFFICES ASSUME IInv, Transmit PROVE IInv'
  OBVIOUS
<1> USE DEF IInv, At, busVars
<1>1. CASE Dangling
  <2> USE <1>1 DEF Transmit, Dangling
  <2>1. TypeOK'
    BY DEF TypeOK
  <2>2. PhaseInv'
    BY DEF PhaseInv
  <2>3. SlotsConserved'
    BY DEF SlotsConserved, Held, Range
  <2>4. BusCarriesAccepted'
    BY DEF BusCarriesAccepted
  <2> QED
    BY <2>1, <2>2, <2>3, <2>4
<1>2. CASE ~Dangling
  <2>1. /\ main \in {"up", "stopping"}
        /\ task = "transmit" /\ task' = "loop"
        /\ mounted' = Append(mounted, slot)
        /\ accepted' = Append(accepted, frame)
        /\ UNCHANGED <<main, slot, frame, free, payload, completed, bus, flag, offs>>
    BY <1>2 DEF Transmit, Dangling
  <2>2. /\ frame \in Frames /\ payload[slot] = frame
        /\ Len(accepted) = Len(completed) + Len(mounted)
    BY <2>1 DEF PhaseInv
  <2>3. /\ mounted' \in Seq(Slots) /\ IsInjective(mounted')
        /\ Range(mounted') = Range(mounted) \cup {slot}
    BY <2>1, AddSlot DEF TypeOK, SlotsConserved, Held
  <2>4. TypeOK'
    BY <2>1, <2>2, <2>3 DEF TypeOK
  <2>5. /\ Len(mounted') = Len(mounted) + 1 /\ Len(accepted') = Len(accepted) + 1
        /\ Len(mounted) \in Nat /\ Len(completed) \in Nat
        /\ DOMAIN mounted' = 1 .. Len(mounted) + 1 /\ DOMAIN mounted = 1 .. Len(mounted)
        /\ DOMAIN completed = 1 .. Len(completed)
        /\ \A i \in 1 .. Len(mounted) : mounted'[i] = mounted[i]
        /\ mounted'[Len(mounted) + 1] = slot
        /\ \A i \in 1 .. Len(accepted) : accepted'[i] = accepted[i]
        /\ accepted'[Len(accepted) + 1] = frame
    BY <2>1 DEF TypeOK
  <2>6. PhaseInv'
    BY <2>1, <2>2, <2>5 DEF PhaseInv
  <2>7. SlotsConserved'
    BY <2>1, <2>3 DEF SlotsConserved, Held
  <2>8. BusCarriesAccepted'
    <3>1. \A i \in DOMAIN completed' : completed'[i] = accepted'[i]
      BY <2>1, <2>2, <2>5 DEF BusCarriesAccepted
    <3>2. ASSUME NEW i \in DOMAIN mounted'
          PROVE  payload'[mounted'[i]] = accepted'[Len(completed') + i]
      <4>1. CASE i \in 1 .. Len(mounted)
        <5>1. Len(completed) + i \in 1 .. Len(accepted)
          BY <2>2, <2>5, <4>1
        <5>2. payload[mounted[i]] = accepted[Len(completed) + i]
          BY <2>5, <4>1 DEF BusCarriesAccepted
        <5> QED
          BY <2>1, <2>5, <4>1, <5>1, <5>2
      <4>2. CASE i = Len(mounted) + 1
        BY <2>1, <2>2, <2>5, <4>2
      <4> QED
        BY <2>5, <3>2, <4>1, <4>2
    <3> QED
      BY <2>1, <2>2, <2>5, <3>1, <3>2 DEF BusCarriesAccepted
  <2> QED
    BY <2>4, <2>6, <2>7, <2>8
<1> QED
  BY <1>1, <1>2

\* The oldest frame of the driver is the next one the bus sees.
LEMMA TxDoneKeeps == IInv /\ TxDone => IInv'
<1> SUFFICES ASSUME IInv, TxDone PROVE IInv'
  OBVIOUS
<1> DEFINE s == Head(mounted)
<1>1. /\ main \in {"up", "stopping"} /\ mounted # <<>>
      /\ completed' = Append(completed, payload[s])
      /\ free' = Append(free, s)
      /\ mounted' = Tail(mounted)
      /\ UNCHANGED <<main, task, slot, frame, payload, accepted, bus, flag, offs>>
  BY DEF TxDone, Started, busVars
<1> USE DEF IInv
<1>2. /\ s \in Slots /\ s \in Range(mounted)
      /\ mounted' \in Seq(Slots) /\ IsInjective(mounted')
      /\ Range(mounted') = Range(mounted) \ {s}
  BY <1>1, RemoveSlot DEF TypeOK, SlotsConserved
<1>3. s \notin Range(free)
  BY <1>2 DEF SlotsConserved
<1>4. /\ free' \in Seq(Slots) /\ IsInjective(free')
      /\ Range(free') = Range(free) \cup {s}
  BY <1>1, <1>2, <1>3, AddSlot DEF TypeOK, SlotsConserved
<1>5. /\ Len(mounted) \in Nat \ {0} /\ Len(mounted') = Len(mounted) - 1
      /\ s = mounted[1]
      /\ DOMAIN mounted = 1 .. Len(mounted) /\ DOMAIN mounted' = 1 .. Len(mounted) - 1
      /\ \A i \in 1 .. Len(mounted) - 1 : mounted'[i] = mounted[i + 1]
      /\ Len(completed) \in Nat /\ Len(completed') = Len(completed) + 1
      /\ DOMAIN completed = 1 .. Len(completed) /\ DOMAIN completed' = 1 .. Len(completed) + 1
      /\ \A i \in 1 .. Len(completed) : completed'[i] = completed[i]
      /\ completed'[Len(completed) + 1] = payload[s]
      /\ Len(accepted) \in Nat
  BY <1>1 DEF TypeOK
<1>6. /\ Len(completed) + Len(mounted) = Len(accepted)
      /\ payload[s] = accepted[Len(completed) + 1]
  BY <1>1, <1>5 DEF PhaseInv, BusCarriesAccepted
<1>7. payload[s] \in Frames
  <2>1. Len(completed) + 1 \in 1 .. Len(accepted)
    BY <1>5, <1>6
  <2> QED
    BY <1>6, <2>1 DEF TypeOK
<1> HIDE DEF s
<1>8. TypeOK'
  <2>1. completed' \in Seq(Frames)
    BY <1>1, <1>7 DEF TypeOK
  <2> QED
    BY <1>1, <1>2, <1>4, <2>1 DEF TypeOK
<1>9. PhaseInv'
  BY <1>1, <1>5, <1>6 DEF PhaseInv
<1>10. SlotsConserved'
  BY <1>1, <1>2, <1>4 DEF SlotsConserved, Held
<1>11. BusCarriesAccepted'
  <2>1. ASSUME NEW i \in DOMAIN completed' PROVE completed'[i] = accepted'[i]
    BY <1>1, <1>5, <1>6, <2>1 DEF BusCarriesAccepted
  <2>2. ASSUME NEW i \in DOMAIN mounted'
        PROVE  payload'[mounted'[i]] = accepted'[Len(completed') + i]
    <3>1. i \in 1 .. Len(mounted) - 1
      BY <1>5, <2>2
    <3>2. /\ i + 1 \in DOMAIN mounted
          /\ Len(completed') + i = Len(completed) + (i + 1)
      <4>1. /\ Len(mounted) \in Nat /\ DOMAIN mounted = 1 .. Len(mounted)
            /\ Len(completed) \in Nat /\ Len(completed') = Len(completed) + 1
        BY <1>5
      <4> QED
        BY <3>1, <4>1
    <3>3. mounted'[i] = mounted[i + 1]
      BY <1>5, <3>1
    <3> QED
      BY <1>1, <3>2, <3>3 DEF BusCarriesAccepted
  <2> QED
    BY <1>1, <1>5, <1>6, <2>1, <2>2 DEF BusCarriesAccepted
<1> QED
  BY <1>8, <1>9, <1>10, <1>11

\* The remaining steps of the task and of the interrupt move no slot.
LEMMA OthersKeep ==
  IInv /\ (Send \/ NoSlot \/ TransmitFailed \/ TakeFlag \/ Recover \/ EndTask
             \/ BusOff \/ BusRecovered) => IInv'
<1> SUFFICES ASSUME IInv, Send \/ NoSlot \/ TransmitFailed \/ TakeFlag \/ Recover
                            \/ EndTask \/ BusOff \/ BusRecovered
             PROVE  IInv'
  OBVIOUS
<1>1. UNCHANGED <<slot, free, payload, mounted, accepted, completed>>
  BY DEF Send, NoSlot, TransmitFailed, TakeFlag, Recover, EndTask, BusOff,
         BusRecovered, sending
<1>2. main' = main /\ Held' = Held
  BY DEF Send, NoSlot, TransmitFailed, TakeFlag, Recover, EndTask, BusOff,
         BusRecovered, sending, At, Held
<1>3. TypeOK' /\ PhaseInv'
  <2> USE DepthAssumption, BoundsAssumption DEF IInv, At, busVars, sending
  <2>1. CASE Send
    <3>1. frame' \in Frames /\ main \in {"up", "stopping"} /\ task' = "take"
      BY <2>1 DEF Send, Started, Frames, TypeOK
    <3> QED
      BY <2>1, <3>1 DEF Send, TypeOK, PhaseInv, Frames
  <2>2. CASE NoSlot \/ TransmitFailed \/ EndTask
    BY <2>2 DEF NoSlot, TransmitFailed, EndTask, TypeOK, PhaseInv
  <2>3. CASE TakeFlag \/ Recover
    BY <2>3 DEF TakeFlag, Recover, TypeOK, PhaseInv
  <2>4. CASE BusOff
    <3>1. offs' \in 0 .. MaxBusOff
      BY <2>4 DEF BusOff, TypeOK
    <3> QED
      BY <2>4, <3>1 DEF BusOff, TypeOK, PhaseInv
  <2>5. CASE BusRecovered
    BY <2>5 DEF BusRecovered, TypeOK, PhaseInv
  <2> QED
    BY <2>1, <2>2, <2>3, <2>4, <2>5
<1>4. SlotsConserved' /\ BusCarriesAccepted'
  BY <1>1, <1>2 DEF IInv, SlotsConserved, BusCarriesAccepted
<1> QED
  BY <1>3, <1>4 DEF IInv

\* Every step keeps the invariant.
LEMMA NextIInv == IInv /\ [Next]_vars => IInv'
<1> SUFFICES ASSUME IInv, [Next]_vars PROVE IInv'
  OBVIOUS
<1>1. CASE Main
  BY <1>1, InitializeKeeps, MainKeeps DEF Main
<1>2. CASE Service
  BY <1>2, TakeKeeps, GiveBackKeeps, FillKeeps, TransmitKeeps, OthersKeep
     DEF Service, InSend
<1>3. CASE Interrupt
  BY <1>3, TxDoneKeeps, OthersKeep DEF Interrupt
<1>4. CASE UNCHANGED vars
  BY <1>4 DEF IInv, TypeOK, PhaseInv, SlotsConserved, BusCarriesAccepted, Held, vars
<1> QED
  BY <1>1, <1>2, <1>3, <1>4 DEF Next

LEMMA Invariant == Spec => []IInv
  BY InitIInv, NextIInv, PTL DEF Spec

-----------------------------------------------------------------------------
\* Every variable of the transport has its type in every reachable state.
THEOREM TypeCorrect == Spec => []TypeOK
<1>1. IInv => TypeOK
  BY DEF IInv
<1> QED
  BY <1>1, Invariant, PTL

\* esp_twai_transport.cpp:153-184, 219-238: no transmit slot is lost while the
\* node exists, and none is ever in two hands.
THEOREM NoSlotLost == Spec => []SlotsConserved
<1>1. IInv => SlotsConserved
  BY DEF IInv
<1> QED
  BY <1>1, Invariant, PTL

\* The bus carries exactly the accepted frames, in order and unaltered: a slot
\* is never reused while the driver refers to it (architecture.md:58, 130).
THEOREM BusIsFaithful == Spec => []BusCarriesAccepted
<1>1. IInv => BusCarriesAccepted
  BY DEF IInv
<1> QED
  BY <1>1, Invariant, PTL

-----------------------------------------------------------------------------
(* The transport as a queue of frames.                                     *)

\* The line and the frames waiting, as Channel sees them.
Line == IF main \in {"down", "initialized"} THEN "new"
        ELSE IF Started THEN "open" ELSE "closed"
Contents(q, p) == [i \in DOMAIN q |-> p[q[i]]]
Waiting == Contents(mounted, payload)

\* A send() in progress carries a frame that no earlier call carried.
Numbered ==
    \A i \in DOMAIN accepted :
        /\ accepted[i] <= frame
        /\ task \in {"take", "fill", "transmit"} => accepted[i] < frame

ChannelInv == IInv /\ Numbered

\* The driver's queue has room for every slot: it never holds all of them while
\* a send() holds one.
LEMMA RoomForSlot ==
  ASSUME NEW q \in Seq(Slots), NEW s \in Slots, IsInjective(q), s \notin Range(q)
  PROVE  Len(q) < Depth
<1> DEFINE r == Append(q, s)
<1>1. r \in Seq(Slots) /\ IsInjective(r) /\ Len(r) = Len(q) + 1 /\ Len(q) \in Nat
  BY AddSlot
<1> HIDE DEF r
<1>2. r \in Injection(1 .. Len(q) + 1, Slots)
  BY <1>1 DEF Injection
<1>3. IsFiniteSet(Slots) /\ Cardinality(Slots) = Depth
  <2>1. 0 \in Int /\ Depth - 1 \in Int /\ ~(0 > Depth - 1) /\ Depth - 1 - 0 + 1 = Depth
    BY DepthAssumption
  <2> QED
    BY <2>1, FS_Interval DEF Slots
<1>4. Cardinality(1 .. Len(q) + 1) = Len(q) + 1
  <2>1. 1 \in Int /\ Len(q) + 1 \in Int /\ ~(1 > Len(q) + 1)
        /\ Len(q) + 1 - 1 + 1 = Len(q) + 1
    BY <1>1
  <2> QED
    BY <2>1, FS_Interval
<1>5. Cardinality(1 .. Len(q) + 1) <= Cardinality(Slots)
  BY <1>2, <1>3, FS_Injection
<1> QED
  BY <1>1, <1>3, <1>4, <1>5, DepthAssumption

\* The frames in a queue of slots.
LEMMA ContentsType ==
  ASSUME NEW q \in Seq(Slots), NEW p \in [Slots -> 0 .. MaxFrames]
  PROVE  /\ Contents(q, p) \in Seq(0 .. MaxFrames) /\ Len(Contents(q, p)) = Len(q)
         /\ \A i \in 1 .. Len(q) : Contents(q, p)[i] = p[q[i]]
<1>1. Len(q) \in Nat /\ DOMAIN q = 1 .. Len(q) /\ \A i \in 1 .. Len(q) : q[i] \in Slots
  OBVIOUS
<1>2. Contents(q, p) \in [1 .. Len(q) -> 0 .. MaxFrames]
  BY <1>1 DEF Contents
<1>3. Contents(q, p) \in Seq(0 .. MaxFrames)
  <2>1. Contents(q, p) \in UNION {[1 .. n -> 0 .. MaxFrames] : n \in Nat}
    BY <1>1, <1>2
  <2> QED
    BY <2>1, SeqDef, Zenon
<1>4. DOMAIN Contents(q, p) = 1 .. Len(q)
  BY <1>2
<1>5. Len(Contents(q, p)) = Len(q)
  BY <1>1, <1>3, <1>4
<1> QED
  BY <1>1, <1>3, <1>5 DEF Contents

LEMMA ContentsAppend ==
  ASSUME NEW q \in Seq(Slots), NEW p \in [Slots -> 0 .. MaxFrames], NEW s \in Slots
  PROVE  Contents(Append(q, s), p) = Append(Contents(q, p), p[s])
<1> DEFINE r == Append(q, s)
           c == Contents(q, p)
           d == Contents(r, p)
<1>1. /\ r \in Seq(Slots) /\ Len(r) = Len(q) + 1 /\ Len(q) \in Nat /\ r[Len(q) + 1] = s
      /\ \A i \in 1 .. Len(q) : r[i] = q[i]
  OBVIOUS
<1> HIDE DEF r
<1>2. /\ c \in Seq(0 .. MaxFrames) /\ Len(c) = Len(q)
      /\ \A i \in 1 .. Len(q) : c[i] = p[q[i]]
  BY ContentsType
<1>3. /\ d \in Seq(0 .. MaxFrames) /\ Len(d) = Len(q) + 1
      /\ \A i \in 1 .. Len(q) + 1 : d[i] = p[r[i]]
  BY <1>1, ContentsType
<1> HIDE DEF c, d
<1>4. Append(c, p[s]) \in Seq(0 .. MaxFrames) /\ Len(Append(c, p[s])) = Len(q) + 1
  BY <1>2
<1>5. ASSUME NEW i \in 1 .. Len(q) + 1 PROVE d[i] = Append(c, p[s])[i]
  BY <1>1, <1>2, <1>3
<1>6. d = Append(c, p[s])
  BY <1>3, <1>4, <1>5, SeqEqual
<1> QED
  BY <1>6 DEF c, d, r

LEMMA ContentsTail ==
  ASSUME NEW q \in Seq(Slots), NEW p \in [Slots -> 0 .. MaxFrames], q # <<>>
  PROVE  /\ Contents(q, p) # <<>> /\ Head(Contents(q, p)) = p[Head(q)]
         /\ Contents(Tail(q), p) = Tail(Contents(q, p))
<1> DEFINE r == Tail(q)
           c == Contents(q, p)
           d == Contents(r, p)
<1>1. /\ r \in Seq(Slots) /\ Len(r) = Len(q) - 1 /\ Len(q) \in Nat \ {0} /\ Head(q) = q[1]
      /\ \A i \in 1 .. Len(q) - 1 : r[i] = q[i + 1]
  OBVIOUS
<1> HIDE DEF r
<1>2. /\ c \in Seq(0 .. MaxFrames) /\ Len(c) = Len(q)
      /\ \A i \in 1 .. Len(q) : c[i] = p[q[i]]
  BY ContentsType
<1>3. /\ d \in Seq(0 .. MaxFrames) /\ Len(d) = Len(q) - 1
      /\ \A i \in 1 .. Len(q) - 1 : d[i] = p[r[i]]
  BY <1>1, ContentsType
<1> HIDE DEF c, d
<1>4. c # <<>> /\ Head(c) = p[Head(q)]
  BY <1>1, <1>2
<1>5. /\ Tail(c) \in Seq(0 .. MaxFrames) /\ Len(Tail(c)) = Len(q) - 1
      /\ \A i \in 1 .. Len(q) - 1 : Tail(c)[i] = c[i + 1]
  BY <1>1, <1>2, <1>4
<1>6. ASSUME NEW i \in 1 .. Len(q) - 1 PROVE d[i] = Tail(c)[i]
  <2>1. i + 1 \in 1 .. Len(q)
    BY <1>1
  <2>2. d[i] = p[r[i]] /\ r[i] = q[i + 1]
    BY <1>1, <1>3
  <2>3. Tail(c)[i] = c[i + 1] /\ c[i + 1] = p[q[i + 1]]
    BY <1>2, <1>5, <2>1
  <2> QED
    BY <2>2, <2>3
<1>7. d = Tail(c)
  BY <1>3, <1>5, <1>6, SeqEqual
<1> QED
  BY <1>4, <1>7 DEF c, d, r

LEMMA RangeAppend ==
  ASSUME NEW S, NEW q \in Seq(S), NEW x \in S
  PROVE  Range(Append(q, x)) = Range(q) \cup {x}
<1> DEFINE r == Append(q, x)
<1>1. /\ DOMAIN r = 1 .. Len(q) + 1 /\ DOMAIN q = 1 .. Len(q) /\ Len(q) \in Nat
      /\ \A i \in 1 .. Len(q) : r[i] = q[i]
      /\ r[Len(q) + 1] = x
  OBVIOUS
<1> HIDE DEF r
<1>2. ASSUME NEW y \in Range(r) PROVE y \in Range(q) \cup {x}
  BY <1>1, <1>2 DEF Range
<1>3. ASSUME NEW y \in Range(q) \cup {x} PROVE y \in Range(r)
  <2>1. Len(q) + 1 \in DOMAIN r /\ DOMAIN q \subseteq DOMAIN r
    BY <1>1
  <2> QED
    BY <1>1, <1>3, <2>1 DEF Range
<1>4. Range(r) = Range(q) \cup {x}
  BY <1>2, <1>3
<1> QED
  BY <1>4 DEF r

LEMMA NumberedKept == IInv /\ Numbered /\ [Next]_vars => Numbered'
<1> SUFFICES ASSUME IInv, Numbered, [Next]_vars PROVE Numbered'
  OBVIOUS
<1>1. /\ frame \in Nat /\ accepted \in Seq(Frames)
      /\ \A i \in DOMAIN accepted : accepted[i] \in Nat
  BY BoundsAssumption DEF IInv, TypeOK, Frames
<1>2. CASE UNCHANGED <<accepted, frame>> /\ (task' \in {"take", "fill", "transmit"} =>
                                              task \in {"take", "fill", "transmit"})
  BY <1>2 DEF Numbered
<1>3. CASE Send
  BY <1>1, <1>3 DEF Send, Numbered, At
<1>4. CASE Transmit /\ accepted' = Append(accepted, frame)
  <2>1. /\ DOMAIN accepted = 1 .. Len(accepted) /\ Len(accepted) \in Nat
        /\ DOMAIN accepted' = 1 .. Len(accepted) + 1
        /\ \A i \in 1 .. Len(accepted) : accepted'[i] = accepted[i]
        /\ accepted'[Len(accepted) + 1] = frame
    BY <1>1, <1>4
  <2>2. frame' = frame /\ task' = "loop"
    BY <1>4 DEF Transmit, At
  <2> QED
    BY <1>1, <2>1, <2>2 DEF Numbered
<1>5. CASE Transmit /\ accepted' # Append(accepted, frame)
  BY <1>2, <1>5 DEF Transmit, At
<1>6. CASE Main \/ Interrupt \/ UNCHANGED vars
  BY <1>2, <1>6 DEF Main, Initialize, Start, StartFailed, RequestStop, Disable, Delete,
     Forget, Interrupt, TxDone, BusOff, BusRecovered, sending, vars
<1>7. CASE Take \/ NoSlot \/ Fill \/ TransmitFailed \/ GiveBack \/ TakeFlag \/ Recover \/ EndTask
  BY <1>2, <1>7 DEF Take, NoSlot, Fill, TransmitFailed, GiveBack, TakeFlag, Recover,
     EndTask, At, sending
<1> QED
  BY <1>3, <1>4, <1>5, <1>6, <1>7 DEF Next, Service, InSend

LEMMA InitChannelInv == Init => ChannelInv
<1> SUFFICES ASSUME Init PROVE Numbered
  BY InitIInv DEF ChannelInv
<1> QED
  BY DEF Init, Numbered

LEMMA NextChannelInv == ChannelInv /\ [Next]_vars => ChannelInv'
BY NextIInv, NumberedKept DEF ChannelInv

LEMMA ChannelInvariance == Spec => []ChannelInv
BY InitChannelInv, NextChannelInv, PTL DEF Spec

-----------------------------------------------------------------------------
(* Each step is one of Channel's, or none.                                 *)

Unseen == UNCHANGED <<Line, Waiting, completed>>

\* Steps that touch neither the driver's queue nor the histories.
LEMMA SilentSteps ==
  ASSUME UNCHANGED <<main, payload, mounted, accepted, completed>>
  PROVE  Unseen
BY DEF Unseen, Line, Started, Waiting, Contents

\* The main task opens and closes the line; only Delete loses frames.
LEMMA MainSteps ==
  ASSUME Main
  PROVE  Unseen \/ Channel!Open \/ Channel!Close \/ Channel!Abandon
<1> USE DEF Unseen, Line, Waiting, Contents, Started, sending, Channel!Open, Channel!Close,
        Channel!Abandon
<1>1. CASE Delete
  <2>1. Waiting' = <<>>
    BY <1>1 DEF Delete
  <2> QED
    BY <1>1, <2>1 DEF Delete
<1>2. CASE Initialize
  BY <1>2 DEF Initialize
<1>3. CASE Start
  BY <1>3 DEF Start
<1>4. CASE StartFailed
  BY <1>4 DEF StartFailed
<1>5. CASE RequestStop
  BY <1>5 DEF RequestStop
<1>6. CASE Disable
  BY <1>6 DEF Disable
<1>7. CASE Forget
  BY <1>7 DEF Forget
<1> QED
  BY <1>1, <1>2, <1>3, <1>4, <1>5, <1>6, <1>7 DEF Main

\* Writing a slot is not seen: the driver does not refer to it.
LEMMA FillUnseen ==
  ASSUME IInv, Fill
  PROVE  Unseen
<1>1. \A i \in DOMAIN mounted : payload'[mounted[i]] = payload[mounted[i]]
  BY DEF IInv, SlotsConserved, Held, Range, TypeOK, Fill, At
<1>2. Waiting' = Waiting
  BY <1>1 DEF Fill, Waiting, Contents
<1> QED
  BY <1>2 DEF Fill, Unseen, Line, Started

\* A frame the driver takes is new, finds room, and goes to the end.
LEMMA TransmitAccepts ==
  ASSUME ChannelInv, Transmit, ~Dangling
  PROVE  \E n \in Frames : Channel!Accept(n)
<1>1. /\ main \in {"up", "stopping"} /\ main' = main
      /\ task = "transmit"
      /\ mounted' = Append(mounted, slot) /\ accepted' = Append(accepted, frame)
      /\ payload' = payload /\ completed' = completed
  BY DEF Transmit, At, Dangling
<1>2. /\ frame \in Frames /\ payload[slot] = frame
      /\ slot \in Slots /\ mounted \in Seq(Slots) /\ IsInjective(mounted)
      /\ slot \notin Range(mounted)
      /\ payload \in [Slots -> 0 .. MaxFrames]
  BY <1>1 DEF ChannelInv, IInv, PhaseInv, SlotsConserved, Held, TypeOK
<1>3. Waiting' = Append(Waiting, frame)
  BY <1>1, <1>2, ContentsAppend DEF Waiting
<1>4. Len(Waiting) < Depth
  BY <1>2, RoomForSlot, ContentsType DEF Waiting
<1>5. \A i \in DOMAIN accepted : accepted[i] < frame
  BY <1>1 DEF ChannelInv, Numbered
<1>6. /\ DOMAIN accepted = 1 .. Len(accepted) /\ DOMAIN completed = 1 .. Len(completed)
      /\ Len(mounted) \in Nat /\ Len(completed) \in Nat /\ Len(accepted) \in Nat
      /\ Len(completed) + Len(mounted) <= Len(accepted)
      /\ \A i \in DOMAIN completed : completed[i] = accepted[i]
      /\ \A i \in DOMAIN mounted : payload[mounted[i]] = accepted[Len(completed) + i]
  BY DEF ChannelInv, IInv, TypeOK, BusCarriesAccepted
<1>7. ASSUME NEW i \in DOMAIN Waiting PROVE Waiting[i] < frame
  <2>1. i \in DOMAIN mounted /\ i \in 1 .. Len(mounted) /\ Waiting[i] = payload[mounted[i]]
    BY <1>2, <1>7 DEF Waiting, Contents
  <2>2. Len(completed) + i \in DOMAIN accepted
    BY <1>6, <2>1
  <2> QED
    BY <1>5, <1>6, <2>1, <2>2
<1>8. ASSUME NEW m \in Range(completed) PROVE m < frame
  <2>1. PICK i \in DOMAIN completed : m = completed[i]
    BY <1>8 DEF Range
  <2>2. i \in DOMAIN accepted
    BY <1>6, <2>1
  <2> QED
    BY <1>5, <1>6, <2>1, <2>2
<1>9. Line = "open" /\ Line' = "open"
  BY <1>1 DEF Line, Started
<1> QED
  BY <1>1, <1>2, <1>3, <1>4, <1>7, <1>8, <1>9 DEF Channel!Accept, Line, Waiting, Contents

\* What is done is the frame that has waited longest.
LEMMA TxDoneFinishes ==
  ASSUME TypeOK, TxDone
  PROVE  Channel!Finish
<1>1. /\ Started /\ main' = main /\ mounted # <<>>
      /\ mounted' = Tail(mounted) /\ completed' = Append(completed, payload[Head(mounted)])
      /\ payload' = payload /\ accepted' = accepted
  BY DEF TxDone
<1>2. mounted \in Seq(Slots) /\ payload \in [Slots -> 0 .. MaxFrames]
  BY DEF TypeOK
<1>3. /\ Waiting # <<>> /\ Head(Waiting) = payload[Head(mounted)]
      /\ Waiting' = Tail(Waiting)
  BY <1>1, <1>2, ContentsTail DEF Waiting
<1>4. Line = "open" /\ Line' = "open"
  BY <1>1 DEF Line, Started
<1>5. Range(completed') = Range(completed) \cup {payload[Head(mounted)]}
  <2>1. Head(mounted) \in Slots /\ payload[Head(mounted)] \in 0 .. MaxFrames
    BY <1>1, <1>2
  <2>2. completed \in Seq(0 .. MaxFrames)
    <3>1. Frames \subseteq 0 .. MaxFrames /\ completed \in Seq(Frames)
      BY DEF TypeOK, Frames
    <3> QED
      BY <3>1, SeqMonotonic
  <2>3. \A n \in 0 .. MaxFrames : Range(Append(completed, n)) = Range(completed) \cup {n}
    BY <2>2, RangeAppend
  <2> QED
    BY <1>1, <2>1, <2>3
<1> QED
  BY <1>1, <1>3, <1>4, <1>5 DEF Channel!Finish, Line, Waiting, Contents

LEMMA ChannelSteps == ChannelInv /\ [Next]_vars => [Channel!CNext]_(Channel!cvars)
<1> SUFFICES ASSUME ChannelInv, [Next]_vars
             PROVE  Channel!CNext \/ UNCHANGED Channel!cvars
  OBVIOUS
<1>1. Unseen => UNCHANGED Channel!cvars
  BY DEF Unseen, Channel!cvars, Line, Waiting, Contents
<1>2. CASE Main
  BY <1>1, <1>2, MainSteps DEF Channel!CNext
<1>3. CASE Transmit /\ ~Dangling
  BY <1>3, TransmitAccepts DEF Channel!CNext
<1>4. CASE Transmit /\ Dangling
  BY <1>1, <1>4, SilentSteps DEF Transmit
<1>5. CASE Fill
  BY <1>1, <1>5, FillUnseen DEF ChannelInv
<1>6. CASE TxDone
  BY <1>6, TxDoneFinishes DEF ChannelInv, IInv, Channel!CNext
<1>7. CASE \/ Send \/ Take \/ NoSlot \/ TransmitFailed \/ GiveBack \/ TakeFlag \/ Recover
           \/ EndTask \/ BusOff \/ BusRecovered \/ UNCHANGED vars
  BY <1>1, <1>7, SilentSteps DEF Send, Take, NoSlot, TransmitFailed, GiveBack, TakeFlag,
     Recover, EndTask, BusOff, BusRecovered, sending, vars
<1> QED
  BY <1>2, <1>3, <1>4, <1>5, <1>6, <1>7 DEF Next, Service, InSend, Interrupt

LEMMA ChannelStarts == Init => Channel!CInit
<1> SUFFICES ASSUME Init PROVE Channel!CInit
  OBVIOUS
<1>1. [i \in DOMAIN mounted |-> payload[mounted[i]]] = <<>>
  BY DEF Init
<1>2. Range(completed) = {}
  BY DEF Init, Range
<1> QED
  BY <1>1, <1>2 DEF Init, Channel!CInit

\* esp_twai_transport.cpp:138-238: slots that the task, the driver and the
\* interrupt hand around are, for the callers of send(), a queue of Depth frames
\* that is never overrun, altered or reordered, loses frames only when it is
\* taken down, and is silent from then on.
THEOREM Implements == Spec => ImplementsChannel
<1>1. ChannelInv /\ [Next]_vars => [Channel!CNext]_(Channel!cvars)
  BY ChannelSteps
<1> QED
  BY <1>1, ChannelInvariance, ChannelStarts, PTL DEF Spec, ImplementsChannel, Channel!CSpec
=============================================================================
