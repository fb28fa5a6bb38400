---------------------------- MODULE FrameChannel ----------------------------
(***************************************************************************)
(* What those who hand over CAN frames are promised about the ones that    *)
(* are accepted, free of slots, pointers, tasks, interrupts and error      *)
(* states:                                                                 *)
(*                                                                         *)
(*   - frames are done in the order in which they were handed over, each   *)
(*     once and unaltered;                                                 *)
(*   - no more than Capacity of them wait at a time;                       *)
(*   - they are lost only when the channel is taken down, and then nothing *)
(*     more is accepted or done, whoever still calls it.                   *)
(*                                                                         *)
(* TwaiTransport is shown to implement this for the frames that send()     *)
(* accepts, and CanGateway for the frames of clients that inject() accepts.*)
(***************************************************************************)
EXTENDS Naturals, Sequences

CONSTANTS
  Numbers,  \* a frame is the number of the call that hands it over
  Capacity  \* how many accepted frames wait at most

VARIABLES
  line,     \* "new", "open" or "closed"
  waiting,  \* accepted and not done, in order
  done      \* the frames that are done

cvars == <<line, waiting, done>>

CInit ==
  /\ line \in {"new", "open"}
  /\ waiting = <<>>
  /\ done = {}

Open ==
  /\ line = "new"
  /\ line' = "open"
  /\ UNCHANGED <<waiting, done>>

Close ==
  /\ line # "closed"
  /\ line' = "closed"
  /\ UNCHANGED <<waiting, done>>

\* Frames that are refused take a number too.
Accept(n) ==
  /\ line = "open"
  /\ Len(waiting) < Capacity
  /\ \A i \in DOMAIN waiting : waiting[i] < n
  /\ \A m \in done : m < n
  /\ waiting' = Append(waiting, n)
  /\ UNCHANGED <<line, done>>

Finish ==
  /\ line = "open"
  /\ waiting # <<>>
  /\ waiting' = Tail(waiting)
  /\ done' = done \cup {Head(waiting)}
  /\ UNCHANGED line

Abandon ==
  /\ line = "closed"
  /\ waiting' = <<>>
  /\ UNCHANGED <<line, done>>

CNext == Open \/ Close \/ (\E n \in Numbers : Accept(n)) \/ Finish \/ Abandon

CSpec == CInit /\ [][CNext]_cvars
=============================================================================
