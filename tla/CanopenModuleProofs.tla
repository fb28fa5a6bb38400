------------------------- MODULE CanopenModuleProofs -------------------------
(***************************************************************************)
(* Theorems about what CanopenModule (canopen_module.cpp) owns and what    *)
(* owns it: the node it drives (CanopenNode), the node id it starts the    *)
(* node with (NodeIdStore), and the manager that initializes it            *)
(* (AppLifecycle).  The three share no variable.                           *)
(*                                                                         *)
(* The node: each of its steps is one of its SDO server or leaves the      *)
(* server alone, so that the theorems of SdoServerProofs hold of it; a     *)
(* heartbeat that is due is at most Longest away from the one before.      *)
(* The id: what reaches the flash was asked for, and between two stores    *)
(* what the code believes of the flash is true.  The manager: the live     *)
(* modules are those in places 1 .. top for some top, and its loops know   *)
(* where top is.                                                           *)
(***************************************************************************)
EXTENDS CanopenNode, NodeIdStore, AppLifecycle, TLAPS

-----------------------------------------------------------------------------
(* The SDO server of the node.                                             *)

\* The node's server with the theorems about it.
Server == INSTANCE SdoServerProofs WITH
  Objects <- {Heartbeat, Name},
  Unknown <- "unknown",
  NoKey <- "no_key",
  Byte <- Periods,
  Size <- [o \in {Heartbeat, Name} |-> IF o = Name THEN NameBytes ELSE 1],
  Readable <- {Heartbeat, Name},
  Writable <- {Heartbeat},
  Refused <- {},
  Local <- {},
  Capacity <- NameBytes,
  ExpeditedBytes <- 1,
  AnnouncedSizes <- {1, NameBytes}

\* The dictionary of the node is one the server can serve.
LEMMA ServerConstants == Server!SdoConstants
BY NodeConstants DEF Server!SdoConstants, Heartbeat, Name

\* Sdo, which the node is built from, and Server are the same.
LEMMA SameServer ==
  /\ Sdo!Init <=> Server!Init
  /\ Sdo!Next <=> Server!Next
  /\ Sdo!TypeOK <=> Server!TypeOK
<1>1. Sdo!Init <=> Server!Init
  BY DEF Sdo!Init, Sdo!Values, Sdo!Block, Sdo!NoReply, Server!Init, Server!Values,
         Server!Block, Server!NoReply
<1>2. Sdo!Next <=> Server!Next
  BY DEF Sdo!session, Sdo!Keys, Sdo!Block, Sdo!Values, Sdo!Slice, Sdo!NoReply, Sdo!Abort,
         Sdo!Ack, Sdo!DataReply, Sdo!ReadCode, Sdo!WriteCode, Sdo!Store, Sdo!Load, Sdo!Reset,
         Sdo!Begin, Sdo!Continue, Sdo!Fail, Sdo!Refuse, Sdo!ClientAbort, Sdo!InitiateUpload,
         Sdo!ExpeditedDownload, Sdo!InitiateDownload, Sdo!UploadSegment, Sdo!Filled,
         Sdo!DownloadCode, Sdo!DownloadSegment, Sdo!InvalidCommand, Sdo!Handle, Sdo!Process,
         Sdo!ResetCommunication, Sdo!NodeUpdate, Sdo!Tick, Sdo!Next,
         Server!session, Server!Keys, Server!Block, Server!Values, Server!Slice,
         Server!NoReply, Server!Abort, Server!Ack, Server!DataReply, Server!ReadCode,
         Server!WriteCode, Server!Store, Server!Load, Server!Reset, Server!Begin,
         Server!Continue, Server!Fail, Server!Refuse, Server!ClientAbort,
         Server!InitiateUpload, Server!ExpeditedDownload, Server!InitiateDownload,
         Server!UploadSegment, Server!Filled, Server!DownloadCode, Server!DownloadSegment,
         Server!InvalidCommand, Server!Handle, Server!Process, Server!ResetCommunication,
         Server!NodeUpdate, Server!Tick, Server!Next
<1>3. Sdo!TypeOK <=> Server!TypeOK
  BY DEF Sdo!Keys, Sdo!Block, Sdo!Values, Sdo!States, Sdo!NoReply, Sdo!Ack, Sdo!Replies,
         Sdo!TypeOK, Server!Keys, Server!Block, Server!Values, Server!States,
         Server!NoReply, Server!Ack, Server!Replies, Server!TypeOK
<1> QED
  BY <1>1, <1>2, <1>3

\* Whatever the node does, its server makes a step of its own or none.
LEMMA ServerSteps == [Next]_vars => [Server!Next]_(Server!sdovars)
<1> SUFFICES ASSUME [Next]_vars PROVE Sdo!Next \/ UNCHANGED Sdo!sdovars
  <2>1. UNCHANGED Sdo!sdovars => UNCHANGED Server!sdovars
    BY DEF Sdo!sdovars, Sdo!session, Server!sdovars, Server!session
  <2> QED
    BY <2>1, SameServer
<1> USE DEF sdovars, Sdo!sdovars, Sdo!session
<1>1. CASE Start
  BY <1>1 DEF Start
<1>2. CASE HandleNmt
  BY <1>2 DEF HandleNmt, EnterState, ResetCommunication, Sdo!Next
<1>3. CASE HandleSdo
  BY <1>3 DEF HandleSdo, Sdo!Next
<1>4. CASE Process
  BY <1>4 DEF Process, SdoProcess, Sdo!Next
<1>5. CASE Tick
  BY <1>5 DEF Tick, Sdo!Next
<1>6. CASE UNCHANGED vars
  BY <1>6 DEF vars
<1> QED
  BY <1>1, <1>2, <1>3, <1>4, <1>5, <1>6 DEF Next

LEMMA ServerStarts == Init => Server!Init
BY SameServer DEF Init

\* A node is an SDO server: NMT commands, heartbeats, late calls of process()
\* and the lack of them do nothing to a transfer that a client, a timeout or a
\* reset could not do.
THEOREM ServesSdo == Spec => Server!Spec
<1>1. [Next]_vars => [Server!Next]_(Server!sdovars)
  BY ServerSteps
<1> QED
  BY <1>1, ServerStarts, PTL DEF Spec, Server!Spec

\* What is proved of the server holds of the node's: the coherence of the
\* session, the toggle bit, and the promise of whole transfers.
THEOREM TransfersOfNode ==
  Spec => []Server!SessionCoherent /\ []Server!ToggleCountsSegments /\ Server!ImplementsTransfer
<1>1. Server!Spec => []Server!SessionCoherent
  BY ServerConstants, Server!SessionsAreCoherent
<1>2. Server!Spec => []Server!ToggleCountsSegments
  BY ServerConstants, Server!TogglesCount
<1>3. Server!Spec => Server!ImplementsTransfer
  BY ServerConstants, Server!Implements
<1> QED
  BY <1>1, <1>2, <1>3, ServesSdo

-----------------------------------------------------------------------------
(* Remainders, for the phase of the heartbeat schedule.                    *)

\* What % means: a quotient and a remainder exist, and they are the only ones.
LEMMA Quotient ==
  ASSUME NEW p \in Nat \ {0}, NEW a \in Int
  PROVE  \E k \in Int, r \in 0..(p - 1) : r = a % p /\ a = p * k + r
<1>1. /\ a \div p \in Int
      /\ a % p \in 0..(p - 1)
      /\ a = p * (a \div p) + (a % p)
  OBVIOUS
<1> WITNESS a \div p \in Int, a % p \in 0..(p - 1)
<1> QED
  BY <1>1

LEMMA Remainder ==
  ASSUME NEW p \in Nat \ {0}, NEW k \in Int, NEW r \in 0..(p - 1),
         NEW a \in Int, a = p * k + r
  PROVE  a % p = r
OBVIOUS

LEMMA Distributes ==
  ASSUME NEW p \in Int, NEW j \in Int, NEW k \in Int
  PROVE  /\ p * j \in Int /\ p * k \in Int
         /\ p * (k - j) = p * k - p * j
         /\ p * (k + j) = p * k + p * j
OBVIOUS

\* A remainder may be taken before an addition.
LEMMA SameRemainder ==
  ASSUME NEW p \in Nat \ {0}, NEW a \in Int, NEW b \in Int, NEW c \in Int, c = a + b
  PROVE  ((a % p) + b) % p = (c % p)
<1>1. PICK j \in Int, m \in 0..(p - 1) : m = a % p /\ a = p * j + m
  BY Quotient
<1>2. PICK k \in Int, n \in 0..(p - 1) : n = c % p /\ c = p * k + n
  BY Quotient
<1>3. a = p * j + m /\ c = p * k + n
  BY <1>1, <1>2
<1> DEFINE q == k - j
           s == m + b
<1>4. q \in Int /\ s \in Int
  OBVIOUS
<1>5. s = p * q + n
  BY <1>3, Distributes
<1>6. s % p = n
  <2> HIDE DEF q, s
  <2> QED
    BY <1>4, <1>5, Remainder
<1> QED
  BY <1>1, <1>2, <1>6

\* Whole periods add up to whole periods.
LEMMA SumOfMultiples ==
  ASSUME NEW p \in Nat \ {0}, NEW a \in Int, NEW b \in Int, a % p = 0, b % p = 0
  PROVE  (a + b) % p = 0
<1>1. PICK j \in Int, m \in 0..(p - 1) : m = a % p /\ a = p * j + m
  BY Quotient
<1>2. PICK k \in Int, n \in 0..(p - 1) : n = b % p /\ b = p * k + n
  BY Quotient
<1>3. a = p * j /\ b = p * k
  BY <1>1, <1>2, Distributes
<1> DEFINE q == k + j
           s == a + b
<1>4. q \in Int /\ s \in Int /\ 0 \in 0..(p - 1)
  OBVIOUS
<1>5. s = p * q + 0
  BY <1>3, Distributes
<1>6. s % p = 0
  <2> HIDE DEF q, s
  <2> QED
    BY <1>4, <1>5, Remainder
<1> QED
  BY <1>6

\* A tick moves a schedule and its phase by the same amount.
LEMMA PhaseOfTick ==
  ASSUME NEW p \in Nat \ {0}, NEW b \in Int, NEW d \in Int
  PROVE  /\ (b + 1) % p \in 0..(p - 1)
         /\ (((b + 1) % p) + (d - 1)) % p = ((b + d) % p)
<1> DEFINE a == b + 1
           e == d - 1
           c == b + d
<1>1. a \in Int /\ e \in Int /\ c \in Int /\ c = a + e
  OBVIOUS
<1> HIDE DEF a, c, e
<1>2. a % p \in 0..(p - 1)
  BY <1>1, Quotient
<1>3. \A x, y, z \in Int : z = x + y => ((x % p) + y) % p = (z % p)
  BY SameRemainder
<1>4. ((a % p) + e) % p = (c % p)
  BY <1>1, <1>3
<1> QED
  BY <1>2, <1>4 DEF a, c, e

\* The phase that a pending heartbeat gives the schedule.
LEMMA PhaseOfPending ==
  ASSUME NEW p \in Nat \ {0}, NEW d \in Int
  PROVE  (-d) % p \in 0..(p - 1) /\ (((-d) % p) + d) % p = 0
<1> DEFINE a == -d
           z == 0
<1>1. a \in Int /\ z \in Int /\ z = a + d
  OBVIOUS
<1>2. z = p * 0 + 0 /\ 0 \in 0..(p - 1)
  OBVIOUS
<1> HIDE DEF a, z
<1>3. a % p \in 0..(p - 1)
  BY <1>1, Quotient
<1>4. ((a % p) + d) % p = (z % p)
  BY <1>1, SameRemainder
<1>5. z % p = 0
  BY <1>1, <1>2, Remainder
<1> QED
  BY <1>3, <1>4, <1>5 DEF a

-----------------------------------------------------------------------------
(* The heartbeat schedule.                                                 *)

\* The longest period is one of them.
LEMMA LongestPeriod ==
  Longest \in Periods /\ Longest \in Nat /\ \A p \in Periods : p \in Nat /\ p <= Longest
BY NodeConstants DEF Longest

Scheduled == due # NotScheduled

NodeTypes ==
  /\ life \in {"created", "started", "abandoned"}
  /\ nmt \in States
  /\ due \in {NotScheduled} \cup -MaxLate..Longest
  /\ heard \in States \cup {"nothing"}
  /\ silence \in 0..(Longest + MaxLate)
  /\ beat \in 0..Longest
  /\ commanded \in BOOLEAN

\* The two halves of Punctual: the distance of two heartbeats, and the phase.
Spaced == due # NotScheduled => silence + due \in 1..Longest
InPhase == due # NotScheduled /\ period # 0 => (beat + due) % period = 0

NodeInv == Server!IInv /\ NodeTypes /\ Spaced /\ InPhase

\* The part of the types that the SMT solver is given.
NumberTypes ==
  /\ life \in {"created", "started", "abandoned"}
  /\ nmt \in States
  /\ due \in {NotScheduled} \cup -MaxLate..Longest
  /\ heard \in States \cup {"nothing"}
  /\ silence \in 0..(Longest + MaxLate)
  /\ beat \in 0..Longest

LEMMA InitNode == Init => NodeInv
<1> SUFFICES ASSUME Init PROVE NodeInv
  OBVIOUS
<1>1. Server!IInv
  BY ServerConstants, ServerStarts, Server!InitHolds
<1>2. NodeTypes
  <2>1. NumberTypes
    BY NodeConstants, LongestPeriod DEF Init, NumberTypes, States, NotScheduled
  <2>2. commanded \in BOOLEAN
    BY Zenon DEF Init
  <2> QED
    BY <2>1, <2>2, Zenon DEF NodeTypes, NumberTypes
<1>3. Spaced /\ InPhase
  BY DEF Init, Spaced, InPhase
<1> QED
  BY <1>1, <1>2, <1>3 DEF NodeInv

\* Only an SDO request writes 0x1017.
LEMMA PeriodKept ==
  ASSUME [Next]_vars, ~HandleSdo
  PROVE  period' = period
<1> USE DEF period, sdovars
<1>1. CASE Start
  BY <1>1 DEF Start
<1>2. CASE HandleNmt
  BY <1>2 DEF HandleNmt, EnterState, ResetCommunication, Sdo!ResetCommunication
<1>3. CASE Process
  BY <1>3 DEF Process, SdoProcess, Sdo!Process, Sdo!Fail, Sdo!Reset
<1>4. CASE Tick
  BY <1>4 DEF Tick, Sdo!Tick
<1>5. CASE UNCHANGED vars
  BY <1>5 DEF vars
<1> QED
  BY <1>1, <1>2, <1>3, <1>4, <1>5 DEF Next

\* A schedule that starts is in phase.
LEMMA RestartInPhase ==
  ASSUME Restart, period \in Nat, period' = period
  PROVE  InPhase'
<1> SUFFICES ASSUME period # 0 PROVE (0 + period) % period = 0
  BY DEF Restart, InPhase
<1> DEFINE p == period
<1>1. p \in Nat \ {0}
  OBVIOUS
<1> HIDE DEF p
<1>2. p * 1 + 0 = p /\ 0 \in 0..(p - 1)
  BY <1>1
<1>3. p % p = 0
  BY <1>1, <1>2, Remainder
<1> QED
  BY <1>1, <1>3 DEF p

LEMMA NodeKept == NodeInv /\ [Next]_vars => NodeInv'
<1> SUFFICES ASSUME NodeInv, [Next]_vars PROVE NodeInv'
  OBVIOUS
<1>1. Server!IInv'
  BY ServerConstants, ServerSteps, Server!StepKeeps DEF NodeInv
<1>2. /\ period \in Periods /\ period \in Nat /\ period <= Longest
      /\ Longest \in Nat /\ MaxLate \in Nat
      /\ period' \in Periods /\ period' \in Nat /\ period' <= Longest
  <2>1. Server!TypeOK /\ Server!TypeOK'
    BY <1>1 DEF NodeInv, Server!IInv
  <2>2. period \in Periods /\ period' \in Periods
    BY <2>1 DEF Server!TypeOK, Server!Values, Server!Block, period, Heartbeat, Name
  <2> QED
    BY <2>2, LongestPeriod, NodeConstants
<1>3. NodeTypes /\ Spaced /\ InPhase
  BY DEF NodeInv
<1>4. CASE Start
  <2>1. Restart /\ period' = period
    BY <1>4, PeriodKept DEF Start, HandleSdo
  <2> QED
    BY <1>1, <1>2, <1>3, <1>4, <2>1, RestartInPhase
    DEF Start, Restart, NodeInv, NodeTypes, Spaced, NotScheduled, States
<1>5. CASE HandleNmt
  <2>1. Restart /\ period' = period
    BY <1>5 DEF HandleNmt, EnterState, ResetCommunication, Sdo!ResetCommunication, sdovars,
                period
  <2> QED
    BY <1>1, <1>2, <1>3, <1>5, <2>1, RestartInPhase
    DEF HandleNmt, EnterState, ResetCommunication, Restart, Publish, NodeInv, NodeTypes,
        Spaced, NotScheduled, States
<1>6. CASE HandleSdo
  <2>1. due' = due /\ silence' = silence /\ beat' = BeatOfWrite
    BY <1>6 DEF HandleSdo
  <2>2. beat' \in 0..Longest /\ InPhase'
    <3>1. CASE period' = period
      BY <1>3, <2>1, <3>1 DEF BeatOfWrite, NodeTypes, InPhase, NotScheduled
    <3>2. CASE period' # period /\ (period' = 0 \/ due = NotScheduled)
      BY <1>2, <2>1, <3>2 DEF BeatOfWrite, InPhase, NotScheduled
    <3>3. CASE period' # period /\ period' # 0 /\ due # NotScheduled
      <4> DEFINE p == period'
                 d == -due
      <4>1. p \in Nat \ {0} /\ d \in Int /\ due \in Int
        BY <1>2, <1>3, <3>3 DEF NodeTypes, NotScheduled
      <4>2. beat' = d % p
        BY <2>1, <3>3 DEF BeatOfWrite
      <4>4. d % p \in 0..(p - 1) /\ ((d % p) + due) % p = 0
        <5> HIDE DEF p
        <5> QED
          BY <4>1, PhaseOfPending
      <4>5. p <= Longest /\ Longest \in Nat
        BY <1>2
      <4>6. InPhase'
        BY <2>1, <4>2, <4>4 DEF InPhase, NotScheduled
      <4>7. beat' \in 0..(p - 1)
        BY <4>2, <4>4
      <4>8. beat' \in 0..Longest
        <5> HIDE DEF p
        <5> QED
          BY <4>1, <4>5, <4>7
      <4> QED
        BY <4>6, <4>8
    <3> QED
      BY <3>1, <3>2, <3>3
  <2>3. NodeTypes' /\ Spaced'
    BY <1>2, <1>3, <1>6, <2>2 DEF HandleSdo, NodeTypes, Spaced, NotScheduled, States
  <2> QED
    BY <1>1, <2>2, <2>3 DEF NodeInv
<1>7. CASE Process /\ ~HandleSdo
  <2>1. period' = period
    BY <1>7, PeriodKept
  <2>2. CASE HeartbeatOff
    BY <1>1, <1>2, <1>3, <1>7, <2>1, <2>2
    DEF Process, HeartbeatOff, NodeInv, NodeTypes, Spaced, InPhase, NotScheduled, States
  <2>3. CASE HeartbeatStarts
    <3>1. InPhase'
      BY <1>2, <2>1, <2>3, RestartInPhase DEF HeartbeatStarts
    <3>2. NumberTypes' /\ Spaced'
      <4>1. /\ due' = IF period = 0 THEN NotScheduled ELSE period
            /\ silence' = 0 /\ beat' = 0
            /\ heard' = heard /\ life' = life /\ nmt' = nmt
        BY <1>7, <2>3 DEF Process, HeartbeatStarts, Restart
      <4> QED
        BY <1>2, <1>3, <4>1 DEF NumberTypes, NodeTypes, Spaced, NotScheduled, States
    <3>3. commanded' \in BOOLEAN
      BY <1>7, Zenon DEF Process
    <3>4. NodeTypes'
      BY <3>2, <3>3, Zenon DEF NodeTypes, NumberTypes
    <3> QED
      BY <1>1, <3>1, <3>2, <3>4 DEF NodeInv
  <2>4. CASE HeartbeatWaits
    BY <1>1, <1>2, <1>3, <1>7, <2>1, <2>4
    DEF Process, HeartbeatWaits, NodeInv, NodeTypes, Spaced, InPhase, NotScheduled, States
  <2>5. CASE HeartbeatDue
    <3>1. /\ due' \in 1..period /\ (due' - due) % period = 0
          /\ period \in Nat \ {0} /\ due # NotScheduled
          /\ beat' = beat /\ silence' = 0 /\ heard' \in {nmt, heard}
      BY <1>2, <2>5 DEF HeartbeatDue, Ahead, Publish
    <3>2. InPhase'
      <4> DEFINE p == period
                 a == beat + due
                 b == due' - due
      <4>1. p \in Nat \ {0} /\ a \in Int /\ b \in Int
        BY <1>2, <1>3, <3>1 DEF NodeTypes, NotScheduled
      <4>2. a % p = 0 /\ b % p = 0
        BY <1>3, <3>1 DEF InPhase
      <4>3. (a + b) % p = 0
        <5> HIDE DEF p, a, b
        <5> QED
          BY <4>1, <4>2, SumOfMultiples
      <4>4. a + b = beat' + due'
        BY <1>2, <1>3, <3>1 DEF NodeTypes, NotScheduled
      <4> HIDE DEF a, b
      <4> QED
        BY <2>1, <4>3, <4>4 DEF InPhase
    <3>3. NumberTypes' /\ Spaced'
      <4>1. life' = life /\ nmt' = nmt
        BY <1>7 DEF Process
      <4>2. heard' \in States \cup {"nothing"}
        BY <1>3, <3>1 DEF NodeTypes
      <4>3. due' \in 1..Longest /\ silence' = 0 /\ beat' = beat
        BY <1>2, <3>1
      <4>4. life \in {"created", "started", "abandoned"} /\ nmt \in States /\ beat \in 0..Longest
        BY <1>3 DEF NodeTypes
      <4> DEFINE next == due'
      <4>5. Longest \in Nat /\ MaxLate \in Nat
        BY <1>2
      <4>6. next \in 1..Longest
        BY <4>3
      <4> HIDE DEF next
      <4>7. 0 + next \in 1..Longest /\ 0 \in 0..(Longest + MaxLate) /\ next \in -MaxLate..Longest
        BY <4>5, <4>6
      <4>8. silence' + due' \in 1..Longest /\ 0 \in 0..(Longest + MaxLate)
        BY <4>3, <4>7 DEF next
      <4>9. due' \in -MaxLate..Longest
        BY <4>7 DEF next
      <4> QED
        BY <4>1, <4>2, <4>3, <4>4, <4>8, <4>9 DEF NumberTypes, Spaced
    <3>4. commanded' \in BOOLEAN
      BY <1>7, Zenon DEF Process
    <3>5. NodeTypes'
      BY <3>3, <3>4, Zenon DEF NodeTypes, NumberTypes
    <3> QED
      BY <1>1, <3>2, <3>3, <3>5 DEF NodeInv
  <2> QED
    BY <1>7, <2>2, <2>3, <2>4, <2>5 DEF Process
<1>8. CASE Tick /\ ~HandleSdo
  <2>1. period' = period
    BY <1>8, PeriodKept
  <2>2. beat' \in 0..Longest /\ InPhase'
    <3>1. CASE period = 0
      BY <1>2, <1>8, <2>1, <3>1 DEF Tick, InPhase
    <3>2. CASE period # 0
      <4> DEFINE p == period
                 a == beat + 1
                 b == due - 1
                 c == beat + due
      <4>1. p \in Nat \ {0} /\ beat \in Int /\ due \in Int
        BY <1>2, <1>3, <3>2 DEF NodeTypes, NotScheduled
      <4>2. beat' = a % p
        BY <1>8, <3>2 DEF Tick
      <4>3. a % p \in 0..(p - 1) /\ ((a % p) + b) % p = (c % p)
        <5> HIDE DEF p
        <5> QED
          BY <4>1, PhaseOfTick
      <4>4. p <= Longest /\ Longest \in Nat
        BY <1>2
      <4>5. beat' \in 0..(p - 1)
        BY <4>2, <4>3
      <4>6. beat' \in 0..Longest
        <5> HIDE DEF p
        <5> QED
          BY <4>1, <4>4, <4>5
      <4>7. CASE due = NotScheduled
        BY <1>8, <4>6, <4>7 DEF Tick, InPhase, NotScheduled
      <4>8. CASE due # NotScheduled
        <5>1. c % p = 0 /\ due' = b
          BY <1>3, <1>8, <3>2, <4>8 DEF InPhase, Tick
        <5>2. (beat' + due') % p = 0
          <6> HIDE DEF p, a, b, c
          <6> QED
            BY <4>2, <4>3, <5>1
        <5> QED
          BY <2>1, <4>6, <5>2 DEF InPhase
      <4> QED
        BY <4>7, <4>8
    <3> QED
      BY <3>1, <3>2
  <2>3. /\ due \in {NotScheduled} \cup (1 - MaxLate)..Longest
        /\ due' = IF due = NotScheduled THEN due ELSE due - 1
        /\ silence' = IF due = NotScheduled THEN silence ELSE silence + 1
        /\ life' = life /\ nmt' = nmt /\ heard' = heard
    BY <1>8 DEF Tick
  <2>4. NodeTypes' /\ Spaced'
    <3>1. NumberTypes' /\ Spaced'
      BY <1>2, <1>3, <2>2, <2>3 DEF NumberTypes, NodeTypes, Spaced, NotScheduled, States
    <3>2. commanded' \in BOOLEAN
      BY <1>8, Zenon DEF Tick
    <3> QED
      BY <3>1, <3>2, Zenon DEF NodeTypes, NumberTypes
  <2> QED
    BY <1>1, <2>2, <2>4 DEF NodeInv
<1>9. CASE UNCHANGED vars
  <2>1. period' = period
    BY <1>9 DEF vars, sdovars, period
  <2> QED
    BY <1>1, <1>3, <1>9, <2>1
    DEF vars, nodevars, NodeInv, NodeTypes, Spaced, InPhase, NotScheduled
<1> QED
  BY <1>4, <1>5, <1>6, <1>7, <1>8, <1>9 DEF Next

LEMMA NodeInvariance == Spec => []NodeInv
BY InitNode, NodeKept, PTL DEF Spec

\* Type correctness of the node, its server included.
THEOREM TypeCorrect == Spec => []TypeOK
<1>1. NodeInv => TypeOK
  BY SameServer DEF NodeInv, NodeTypes, Server!IInv, TypeOK
<1> QED
  BY NodeInvariance, <1>1, PTL

\* Whatever a client writes to 0x1017 and however late process() comes within
\* its bound, the next heartbeat lies behind the one before it, no further than
\* the longest period, and a whole number of periods after the start of the
\* schedule.
THEOREM HeartbeatsPunctual == Spec => []Punctual
<1>1. NodeInv => Punctual
  BY DEF NodeInv, Spaced, InPhase, Punctual
<1> QED
  BY NodeInvariance, <1>1, PTL

-----------------------------------------------------------------------------
(* The node id.                                                            *)

\* An id can reach the flash only behind a save request for it: what is in the
\* flash, what NVS holds back and what a store is writing were all asked for.
AskedBeforeFlash ==
  /\ active \in asked \cup {Default}
  /\ flash \in NodeIds => flash \in asked
  /\ late # Nothing => late \in asked
  /\ power = "running" /\ phase # "idle" => configured \in asked

\* Without a failed store in this power cycle, NVS holds nothing back outside
\* a commit and the flash holds what the code believes.  While the power is
\* off nothing is held back either, so that a boot reads the truth.
Belief ==
  /\ power \in {"off", "refused"} => late = Nothing
  /\ power = "running" /\ ~failed /\ phase # "committing" =>
       /\ late = Nothing
       /\ stored # Nothing => flash = stored
       /\ phase = "idle" /\ answer = "ok" => flash = configured
  /\ power = "running" /\ ~failed /\ phase = "committing" => late \in {configured, Nothing}

IdInv == IdTypeOK /\ AskedBeforeFlash /\ Belief

LEMMA InitId == IdInit => IdInv
BY NodeIdConstants DEF IdInit, IdInv, IdTypeOK, AskedBeforeFlash, Belief

LEMMA IdKept == IdInv /\ [IdNext]_idvars => IdInv'
<1> SUFFICES ASSUME IdInv, [IdNext]_idvars PROVE IdInv'
  OBVIOUS
<1> USE NodeIdConstants DEF IdInv, IdTypeOK, AskedBeforeFlash, Belief
<1>1. CASE Boot
  BY <1>1 DEF Boot, BootId
<1>2. CASE BootRefused
  BY <1>2 DEF BootRefused, ram, history
<1>3. CASE \E id \in NodeIds \cup {BadId} : WriteConfigured(id)
  BY <1>3 DEF WriteConfigured, history
<1>4. CASE SaveBadSignature
  BY <1>4 DEF SaveBadSignature, ram, history
<1>5. CASE SaveUnchanged
  BY <1>5 DEF SaveUnchanged, ram
<1>6. CASE SaveBegin
  BY <1>6 DEF SaveBegin
<1>7. CASE SetOk
  BY <1>7 DEF SetOk, history
<1>8. CASE SetFails
  BY <1>8 DEF SetFails, StoreFails
<1>9. CASE CommitFails
  BY <1>9 DEF CommitFails, StoreFails
<1>10. CASE CommitOk
  BY <1>10 DEF CommitOk
<1>11. CASE WriteBack
  BY <1>11 DEF WriteBack, ram, history
<1>12. CASE PowerLoss
  BY <1>12 DEF PowerLoss, ram, history
<1>13. CASE UNCHANGED idvars
  BY <1>13 DEF idvars
<1> QED
  BY <1>1, <1>2, <1>3, <1>4, <1>5, <1>6, <1>7, <1>8, <1>9, <1>10, <1>11, <1>12, <1>13
     DEF IdNext, Store

\* The inductive invariant holds in every state.
LEMMA IdInvariance == IdSpec => []IdInv
<1>1. IdInit => IdInv
  BY InitId
<1>2. IdInv /\ [IdNext]_idvars => IdInv'
  BY IdKept
<1> QED
  BY <1>1, <1>2, PTL DEF IdSpec

\* Every variable keeps its type, whatever fails and whenever the power goes.
THEOREM IdTypeCorrect == IdSpec => []IdTypeOK
<1>1. IdInv => IdTypeOK
  BY DEF IdInv
<1>2. IdSpec => []IdInv
  BY IdInvariance
<1> QED
  BY <1>1, <1>2, PTL

\* A value of 0x2001:01 that was never saved is never the id of a node.
THEOREM UnsavedIdsStayInRam == IdSpec => []UnsavedNeverActive
<1>1. IdInv => UnsavedNeverActive
  BY DEF IdInv, AskedBeforeFlash, UnsavedNeverActive
<1>2. IdSpec => []IdInv
  BY IdInvariance
<1> QED
  BY <1>1, <1>2, PTL

\* A successful answer to "save" means that the value is in the flash, as long
\* as no store has failed since power-up.
THEOREM ReportedSavesAreStored == IdSpec => []BeliefTrue
<1>1. IdInv => BeliefTrue
  BY DEF IdInv, Belief, BeliefTrue
<1>2. IdSpec => []IdInv
  BY IdInvariance
<1> QED
  BY <1>1, <1>2, PTL

\* No step of a running node changes the id it started with.
THEOREM ActiveIdIsFixed == IdSpec => ActiveUntilPowerLoss
<1>1. [IdNext]_idvars => [power = "running" => active' = active]_idvars
  BY DEF IdNext, Boot, BootRefused, WriteConfigured, SaveBadSignature,
         Store, SaveUnchanged, SaveBegin, SetOk, SetFails,
         CommitFails, StoreFails, CommitOk, WriteBack, PowerLoss,
         ram, history, idvars
<1> QED
  BY <1>1, PTL DEF IdSpec, ActiveUntilPowerLoss

-----------------------------------------------------------------------------
(* The manager of the modules.                                             *)

\* What the manager knows of the modules at each point of its calls.
Knowledge ==
    /\ manager = "configuring" /\ call = "none" => \A k \in Places : ~Live(k)
    /\ manager = "running" => call \in {"none", "deinitialize"}
    /\ manager = "running" /\ call = "none" => \A k \in 1 .. Count : modules[k] = "on"
    /\ call \in {"initialize", "rollback"} =>
         /\ manager = "configuring"
         /\ \A k \in 1 .. at : modules[k] = "on"
    /\ call # "none" => \A k \in Places : k > at => ~Live(k)
    /\ call = "deinitialize" => manager # "configuring"

\* An unregistered place holds no live module.
Unregistered == \A k \in Places : k > Count => ~Live(k)

ManagerInv == AppTypeOK /\ Knowledge /\ Unregistered /\ LiveIsPrefix

LEMMA InitManager == AppInit => ManagerInv
  <1> SUFFICES ASSUME AppInit PROVE ManagerInv
    OBVIOUS
  <1> USE MaxModulesAssumption DEF AppInit, Count, Places, Live
  <1>1. AppTypeOK
    BY DEF AppTypeOK, ModuleStates
  <1>2. Knowledge /\ Unregistered /\ LiveIsPrefix
    BY DEF Knowledge, Unregistered, LiveIsPrefix
  <1> QED
    BY <1>1, <1>2 DEF ManagerInv

\* Every place up to the last registered one is a place of the registry.
LEMMA Registered ==
  ASSUME AppTypeOK
  PROVE  Count \in Nat /\ 1 .. Count \subseteq Places
  BY MaxModulesAssumption DEF AppTypeOK, Count, Places

LEMMA NextManager == ManagerInv /\ [AppNext]_appvars => ManagerInv'
  <1> SUFFICES ASSUME ManagerInv, [AppNext]_appvars PROVE ManagerInv'
    OBVIOUS
  <1>0. Count \in Nat /\ 1 .. Count \subseteq Places
    BY Registered DEF ManagerInv
  <1>1. ASSUME NEW name \in Names, Register(name) PROVE ManagerInv'
    <2>1. Count' = Count + 1 /\ Count' <= MaxModules /\ registry' \in Seq(Names)
      BY <1>1, MaxModulesAssumption DEF Register, Count, ManagerInv, AppTypeOK
    <2>2. \A k \in Places : ~Live(k) /\ ~Live(k)'
      BY <1>1 DEF Register, ManagerInv, Knowledge, Live
    <2>3. AppTypeOK'
      BY <1>0, <1>1, <2>1 DEF Register, ManagerInv, AppTypeOK, Count
    <2>4. 1 .. Count' \subseteq Places
      BY <1>0, <2>1, MaxModulesAssumption DEF Places
    <2>5. Knowledge'
      BY <1>1, <2>2 DEF Register, Knowledge
    <2>6. Unregistered' /\ LiveIsPrefix'
      BY <2>2, <2>4 DEF Unregistered, LiveIsPrefix, Places
    <2> QED
      BY <2>3, <2>5, <2>6 DEF ManagerInv
  <1>2. CASE InitializeAll
    BY <1>0, <1>2
    DEF InitializeAll, ManagerInv, AppTypeOK, Knowledge, Unregistered,
        LiveIsPrefix, Live, Count, Places, ModuleStates
  <1>3. CASE InitializeNext
    <2>1. /\ at \in Nat /\ at + 1 \in 1 .. Count /\ at + 1 \in Places
          /\ ~Live(at + 1) /\ manager = "configuring"
          /\ Count' = Count /\ at' = at + 1
      BY <1>0, <1>3 DEF InitializeNext, ManagerInv, AppTypeOK, Knowledge, Count
    <2>2. modules' = [modules EXCEPT ![at + 1] = "on"]
      BY <1>3, <2>1 DEF InitializeNext
    <2>3. AppTypeOK'
      BY <1>0, <1>3, <2>1, <2>2
      DEF InitializeNext, ManagerInv, AppTypeOK, ModuleStates, Count
    <2>4. \A k \in 1 .. at + 1 : modules'[k] = "on"
      BY <1>0, <1>3, <2>1, <2>2
      DEF InitializeNext, ManagerInv, AppTypeOK, Knowledge, Places
    <2>5. \A k \in Places : k > at + 1 => ~Live(k)'
      BY <1>3, <2>1, <2>2
      DEF InitializeNext, ManagerInv, AppTypeOK, Knowledge, Live, Places
    <2>6. Knowledge'
      BY <1>3, <2>1, <2>4, <2>5 DEF InitializeNext, Knowledge
    <2>7. Unregistered'
      BY <1>0, <2>1, <2>5 DEF Unregistered, Places
    <2>8. LiveIsPrefix'
      BY <1>0, <2>1, <2>4, <2>5 DEF LiveIsPrefix, Live, Places
    <2> QED
      BY <2>3, <2>6, <2>7, <2>8 DEF ManagerInv
  <1>4. CASE InitializeFails
    <2>1. /\ at \in Nat /\ at + 1 \in 1 .. Count /\ at + 1 \in Places
          /\ ~Live(at + 1) /\ manager = "configuring" /\ Count' = Count /\ at' = at
      BY <1>0, <1>4 DEF InitializeFails, ManagerInv, AppTypeOK, Knowledge, Count
    <2>2. PICK left \in {"off", "leftover"} : modules' = [modules EXCEPT ![at + 1] = left]
      BY <1>4 DEF InitializeFails
    <2>3. AppTypeOK'
      BY <1>0, <1>4, <2>1, <2>2
      DEF InitializeFails, ManagerInv, AppTypeOK, ModuleStates, Count
    <2>4. \A k \in Places : Live(k)' = Live(k)
      BY <2>1, <2>2 DEF ManagerInv, AppTypeOK, Live
    <2>5. \A k \in 1 .. at : modules'[k] = "on"
      BY <1>0, <1>4, <2>1, <2>2
      DEF InitializeFails, ManagerInv, AppTypeOK, Knowledge, Places
    <2>6. Knowledge'
      BY <1>4, <2>1, <2>4, <2>5 DEF InitializeFails, ManagerInv, Knowledge
    <2>7. Unregistered' /\ LiveIsPrefix'
      BY <1>0, <2>1, <2>4 DEF ManagerInv, Unregistered, LiveIsPrefix
    <2> QED
      BY <2>3, <2>6, <2>7 DEF ManagerInv
  <1>5. CASE InitializeEnds
    BY <1>0, <1>5
    DEF InitializeEnds, ManagerInv, AppTypeOK, Knowledge, Unregistered,
        LiveIsPrefix, Live, Count, Places, ModuleStates
  <1>6. CASE DeinitializeAll
    BY <1>0, <1>6
    DEF DeinitializeAll, ManagerInv, AppTypeOK, Knowledge, Unregistered,
        LiveIsPrefix, Live, Count, Places, ModuleStates
  <1>7. CASE DeinitializePrevious
    <2>1. /\ at \in 1 .. Count /\ at \in Places /\ Count' = Count
          /\ at' = at - 1 /\ manager' = manager /\ call' = call
      BY <1>0, <1>7 DEF DeinitializePrevious, ManagerInv, AppTypeOK, Count
    <2>2. /\ modules'[at] \notin {"on", "half"}
          /\ \A k \in Places : k # at => modules'[k] = modules[k]
      BY <1>7, <2>1 DEF DeinitializePrevious, ManagerInv, AppTypeOK, Live
    <2>3. AppTypeOK'
      BY <1>0, <1>7, <2>1
      DEF DeinitializePrevious, ManagerInv, AppTypeOK, ModuleStates, Count
    <2>4. \A k \in Places : k > at - 1 => ~Live(k)'
      BY <1>7, <2>1, <2>2
      DEF DeinitializePrevious, ManagerInv, Knowledge, Live, Places
    <2>5. \A k \in Places : k < at => modules'[k] = modules[k]
      BY <2>1, <2>2 DEF Places
    <2>6. Knowledge'
      BY <1>0, <1>7, <2>1, <2>4, <2>5
      DEF DeinitializePrevious, ManagerInv, Knowledge, Places
    <2>7. Unregistered'
      BY <1>0, <2>1, <2>4 DEF Unregistered, Places
    <2>8. LiveIsPrefix'
      BY <1>0, <2>1, <2>4, <2>5 DEF ManagerInv, LiveIsPrefix, Live, Places
    <2> QED
      BY <2>3, <2>6, <2>7, <2>8 DEF ManagerInv
  <1>8. CASE DeinitializeFails
    <2>1. at \in 1 .. Count /\ at \in Places /\ Count' = Count
      BY <1>0, <1>8 DEF DeinitializeFails, ManagerInv, AppTypeOK, Count
    <2>2. \A k \in Places : Live(k)' = Live(k)
      BY <1>8, <2>1 DEF DeinitializeFails, ManagerInv, AppTypeOK, Live
    <2>3. AppTypeOK'
      BY <1>0, <1>8, <2>1
      DEF DeinitializeFails, ManagerInv, AppTypeOK, ModuleStates, Count
    <2>4. Knowledge'
      BY <1>8 DEF DeinitializeFails, Knowledge
    <2>5. Unregistered' /\ LiveIsPrefix'
      BY <1>0, <2>1, <2>2 DEF ManagerInv, Unregistered, LiveIsPrefix
    <2> QED
      BY <2>3, <2>4, <2>5 DEF ManagerInv
  <1>9. CASE DeinitializeEnds
    BY <1>0, <1>9
    DEF DeinitializeEnds, ManagerInv, AppTypeOK, Knowledge, Unregistered,
        LiveIsPrefix, Live, Count, Places, ModuleStates
  <1>10. CASE UNCHANGED appvars
    BY <1>10
    DEF appvars, ManagerInv, AppTypeOK, Knowledge, Unregistered, LiveIsPrefix,
        Live, Count
  <1> QED
    BY <1>1, <1>2, <1>3, <1>4, <1>5, <1>6, <1>7, <1>8, <1>9, <1>10 DEF AppNext

\* The inductive invariant holds in every state.
THEOREM ManagerInductive == AppSpec => []ManagerInv
  BY InitManager, NextManager, PTL DEF AppSpec

\* Type correctness of the manager, for every registry.
THEOREM ManagerTypeCorrect == AppSpec => []AppTypeOK
  <1>1. ManagerInv => AppTypeOK
    BY DEF ManagerInv
  <1> QED
    BY ManagerInductive, <1>1, PTL

\* initialize_all(): the manager never runs with a module that is not wholly
\* started.
THEOREM NoHalfStart == AppSpec => []RunningIsWhole
  <1>1. ManagerInv => RunningIsWhole
    BY DEF ManagerInv, Knowledge, RunningIsWhole
  <1> QED
    BY ManagerInductive, <1>1, PTL

\* initialize_all() and deinitialize_all(): no module is initialized without
\* those registered before it.
THEOREM DependenciesLive == AppSpec => []LiveIsPrefix
  <1>1. ManagerInv => LiveIsPrefix
    BY DEF ManagerInv
  <1> QED
    BY ManagerInductive, <1>1, PTL

\* deinitialize_all(): a manager that may be initialized has nothing live.
THEOREM CleanStart == AppSpec => []ConfiguringIsIdle
  <1>1. ManagerInv => ConfiguringIsIdle
    BY DEF ManagerInv, Knowledge, ConfiguringIsIdle
  <1> QED
    BY ManagerInductive, <1>1, PTL
=============================================================================
