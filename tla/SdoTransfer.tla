---------------------------- MODULE SdoTransfer ----------------------------
(***************************************************************************)
(* What an SDO client is promised about the objects of a node, free of     *)
(* segments, toggle bits, buffers and clocks:                              *)
(*                                                                         *)
(*   - a read hands out one value of the object, in order and without gaps,*)
(*     even when the object changes while the read is under way;           *)
(*   - a write reaches the object in one step, all its bytes at once, and  *)
(*     only when exactly the object's size has been received;              *)
(*   - a transfer that ends in any other way leaves every object alone.    *)
(*                                                                         *)
(* SdoServer is shown to implement this specification.                     *)
(***************************************************************************)
EXTENDS Naturals

CONSTANTS
  Objects,  \* the objects of the dictionary
  Byte,     \* the values of one byte
  Size,     \* Size[o] is the number of bytes of object o
  Local     \* the objects the node itself changes (counters, clocks, RPDO data)

VARIABLES
  dict,     \* dict[o] is the value of object o, a function on 1..Size[o]
  job,      \* the transfer under way, or NoJob
  out       \* the object data carried by the latest answer

tvars == <<dict, job, out>>

NoJob == [dir |-> "none"]

\* An answer that carries no object data.
Nothing == <<>>

Values(o) == [1..Size[o] -> Byte]

\* The first m values of f followed by the n values of g.
Splice(f, m, g, n) == [i \in 1..(m + n) |-> IF i <= m THEN f[i] ELSE g[i - m]]

\* The n values of f that follow the first m.
Slice(f, m, n) == [i \in 1..n |-> f[m + i]]

TInit ==
  /\ dict \in {d \in [Objects -> UNION {Values(o) : o \in Objects}] :
                  \A o \in Objects : d[o] \in Values(o)}
  /\ job = NoJob
  /\ out = Nothing

\* The object is short enough for one answer.
ReadAtOnce(o) ==
  /\ job = NoJob
  /\ out' = dict[o]
  /\ UNCHANGED <<dict, job>>

\* The value to hand out is fixed when the read begins.
BeginRead(o) ==
  /\ job = NoJob
  /\ job' = [dir |-> "read", obj |-> o, value |-> dict[o], done |-> 0]
  /\ out' = Nothing
  /\ UNCHANGED dict

Serve(n) ==
  /\ job.dir = "read"
  /\ job.done + n <= Size[job.obj]
  /\ out' = Slice(job.value, job.done, n)
  /\ job' = IF job.done + n = Size[job.obj] THEN NoJob ELSE [job EXCEPT !.done = @ + n]
  /\ UNCHANGED dict

WriteAtOnce(o, v) ==
  /\ job = NoJob
  /\ dict' = [dict EXCEPT ![o] = v]
  /\ out' = Nothing
  /\ UNCHANGED job

BeginWrite(o) ==
  /\ job = NoJob
  /\ job' = [dir |-> "write", obj |-> o, value |-> <<>>, done |-> 0]
  /\ out' = Nothing
  /\ UNCHANGED dict

Receive(block, n) ==
  /\ job.dir = "write"
  /\ job.done + n <= Size[job.obj]
  /\ job' = [dir |-> "write", obj |-> job.obj,
             value |-> Splice(job.value, job.done, block, n), done |-> job.done + n]
  /\ out' = Nothing
  /\ UNCHANGED dict

Commit(block, n) ==
  /\ job.dir = "write"
  /\ job.done + n = Size[job.obj]
  /\ dict' = [dict EXCEPT ![job.obj] = Splice(job.value, job.done, block, n)]
  /\ job' = NoJob
  /\ out' = Nothing

\* A refused request, an abort of either side or a timeout.
Drop ==
  /\ job' \in {job, NoJob}
  /\ out' = Nothing
  /\ UNCHANGED dict

NodeUpdate(o, v) ==
  /\ o \in Local
  /\ dict' = [dict EXCEPT ![o] = v]
  /\ UNCHANGED <<job, out>>

TNext ==
  \/ Drop
  \/ \E o \in Objects : ReadAtOnce(o) \/ BeginRead(o) \/ BeginWrite(o)
  \/ job # NoJob /\ \E n \in 0..(Size[job.obj] - job.done) :
       \/ Serve(n)
       \/ \E block \in [1..n -> Byte] : Receive(block, n) \/ Commit(block, n)
  \/ \E o \in Objects : \E v \in Values(o) : WriteAtOnce(o, v) \/ NodeUpdate(o, v)

TSpec == TInit /\ [][TNext]_tvars
=============================================================================
