----------------------------- MODULE SdoServer -----------------------------
(***************************************************************************)
(* canopen::SdoServer together with the object dictionary it reads and     *)
(* writes (components/canopen/src/sdo_server.cpp, object_dictionary.cpp).  *)
(*                                                                         *)
(* One server, one 512-byte transfer buffer, one transfer at a time.  The  *)
(* client is unconstrained: any request may arrive in any state, so lost   *)
(* answers, retries, duplicated segments and two clients talking over each *)
(* other are all covered.  Bytes are members of a small set; a request is  *)
(* a record of the fields of the command byte the server looks at; the     *)
(* deadline is kept as the time since it was last set.                     *)
(***************************************************************************)
EXTENDS Naturals

CONSTANTS
  Objects,         \* the entries of the frozen dictionary
  Unknown,         \* a key that is not in the dictionary
  NoKey,           \* the empty OdKey of a server at rest
  Byte,            \* the values of one byte
  Size,            \* Size[o]: bytes of storage of entry o
  Readable,        \* entries with read access
  Writable,        \* entries with write access
  Refused,         \* <<entry, value>> pairs the entry's write hook refuses
  Local,           \* entries the node itself updates
  Capacity,        \* kTransferCapacity
  ExpeditedBytes,  \* data bytes of an expedited request or answer (4)
  SegmentBytes,    \* data bytes of a segment (7)
  Timeout,         \* kTransferTimeoutUs, in ticks
  AnnouncedSizes,  \* sizes a download request may announce (load_le32)
  NotIndicated     \* the request announces none

ASSUME SdoConstants ==
  /\ Unknown \notin Objects /\ NoKey \notin Objects
  /\ 0 \in Byte
  /\ Size \in [Objects -> Nat \ {0}]
  /\ Readable \subseteq Objects /\ Writable \subseteq Objects
  /\ Local \subseteq Objects
  /\ Capacity \in Nat /\ Timeout \in Nat \ {0}
  /\ ExpeditedBytes \in Nat \ {0} /\ SegmentBytes \in Nat \ {0}
  /\ ExpeditedBytes <= Capacity
  /\ AnnouncedSizes \subseteq Nat /\ NotIndicated \notin Nat

VARIABLES
  dict,           \* backing storage of the dictionary entries
  state,          \* SdoServer::state_
  active_key,     \* entry of the transfer under way
  transfer,       \* the transfer buffer; reset() does not clear it
  transfer_size,
  offset,
  toggle,
  elapsed,        \* time since deadline_us_ was set, capped at Timeout
  reply           \* the answer of the latest step, sent or lost

session == <<state, active_key, transfer_size, offset, toggle, elapsed>>
sdovars == <<dict, session, transfer, reply>>

Keys == Objects \cup {Unknown}
Block(n) == [1..n -> Byte]
Values(o) == Block(Size[o])
States == {"idle", "segmented_upload", "segmented_download"}

Splice(f, m, g, n) == [i \in 1..(m + n) |-> IF i <= m THEN f[i] ELSE g[i - m]]
Slice(f, m, n) == [i \in 1..n |-> f[m + i]]

NoReply == [kind |-> "none"]
Abort(key, code) == [kind |-> "abort", key |-> key, code |-> code]
Ack == [kind |-> "ack"]
DataReply(n, data, last) == [kind |-> "data", n |-> n, data |-> data, last |-> last]

-----------------------------------------------------------------------------
(* The object dictionary.                                                  *)

\* ObjectDictionary::read, its error or "none".
ReadCode(key) ==
  CASE key \notin Objects -> "object_not_found"
    [] key \in Objects \ Readable -> "write_only"
    [] key \in Readable /\ Size[key] > Capacity -> "out_of_memory"
    [] OTHER -> "none"

\* Mutant: the write hook is not asked.
WriteCodeWithoutHook(key, n, data) ==
  CASE key \notin Objects -> "object_not_found"
    [] key \in Objects \ Writable -> "read_only"
    [] key \in Writable /\ n > Size[key] -> "data_too_long"
    [] key \in Writable /\ n < Size[key] -> "data_too_short"
    [] OTHER -> "none"

\* ObjectDictionary::write of n bytes, its error or "none".  The hook runs
\* before the entry's storage is touched.
WriteCode(key, n, data) ==
  CASE key \notin Objects -> "object_not_found"
    [] key \in Objects \ Writable -> "read_only"
    [] key \in Writable /\ n > Size[key] -> "data_too_long"
    [] key \in Writable /\ n < Size[key] -> "data_too_short"
    [] key \in Writable /\ n = Size[key] /\ <<key, data>> \in Refused -> "hook_refused"
    [] OTHER -> "none"

Store(key, data) == dict' = [dict EXCEPT ![key] = data]

\* Mutant: the last byte is not copied.
LoadOneShort(key) ==
  transfer' = [i \in 1..Capacity |-> IF i < Size[key] THEN dict[key][i] ELSE transfer[i]]

\* read() copies the entry into the transfer buffer.
Load(key) ==
  transfer' = [i \in 1..Capacity |-> IF i <= Size[key] THEN dict[key][i] ELSE transfer[i]]

-----------------------------------------------------------------------------
(* The session.                                                            *)

\* Mutant: one field of the session survives its end.
ResetKeepsToggle ==
  /\ state' = "idle" /\ active_key' = NoKey
  /\ transfer_size' = 0 /\ offset' = 0
  /\ elapsed' = 0
  /\ UNCHANGED toggle

Reset ==
  /\ state' = "idle" /\ active_key' = NoKey
  /\ transfer_size' = 0 /\ offset' = 0
  /\ toggle' = FALSE /\ elapsed' = 0

Begin(s, key, size) ==
  /\ state' = s /\ active_key' = key
  /\ transfer_size' = size /\ offset' = 0
  /\ toggle' = FALSE /\ elapsed' = 0

\* Mutant: the toggle bit stays.
ContinueSameToggle(n) ==
  /\ offset' = offset + n
  /\ elapsed' = 0
  /\ UNCHANGED <<state, active_key, transfer_size, toggle>>

\* One more segment of n bytes went through and the transfer goes on.
Continue(n) ==
  /\ offset' = offset + n
  /\ toggle' = ~toggle
  /\ elapsed' = 0
  /\ UNCHANGED <<state, active_key, transfer_size>>

Fail(code) ==
  /\ reply' = Abort(active_key, code)
  /\ Reset
  /\ UNCHANGED <<dict, transfer>>

Refuse(key, code) ==
  /\ reply' = Abort(key, code)
  /\ UNCHANGED <<dict, transfer, session>>

-----------------------------------------------------------------------------
(* Requests.                                                               *)

\* Command 4: the client aborts, whatever the state.
ClientAbort ==
  /\ Reset
  /\ reply' = NoReply
  /\ UNCHANGED <<dict, transfer>>

InitiateUpload(key) ==
  LET code == ReadCode(key) IN
  /\ state = "idle"
  /\ \/ code # "none" /\ Refuse(key, code)
     \/ /\ code = "none"
        /\ Load(key)
        /\ UNCHANGED dict
        /\ IF Size[key] <= ExpeditedBytes
             THEN reply' = DataReply(Size[key], dict[key], TRUE) /\ UNCHANGED session
             ELSE reply' = Ack /\ Begin("segmented_upload", key, Size[key])

ExpeditedDownload(key, n, data) ==
  LET code == WriteCode(key, n, data) IN
  /\ state = "idle"
  /\ \/ code # "none" /\ Refuse(key, code)
     \/ /\ code = "none"
        /\ Store(key, data)
        /\ reply' = Ack
        /\ UNCHANGED <<transfer, session>>

\* Write access is not looked at here: a read-only entry is refused when the
\* last segment arrives.
InitiateDownload(key, announced) ==
  /\ state = "idle"
  /\ \/ key \notin Objects /\ Refuse(key, "object_not_found")
     \/ /\ key \in Objects
        /\ LET size == IF announced = NotIndicated THEN Size[key] ELSE announced IN
           \/ size > Capacity /\ Refuse(key, "out_of_memory")
           \/ size <= Capacity /\ size > Size[key] /\ Refuse(key, "data_too_long")
           \/ size <= Capacity /\ size < Size[key] /\ Refuse(key, "data_too_short")
           \/ /\ size <= Capacity /\ size = Size[key]
              /\ Begin("segmented_download", key, size)
              /\ reply' = Ack
              /\ UNCHANGED <<dict, transfer>>

UploadSegment(request_toggle) ==
  LET remaining == transfer_size - offset
      count == IF remaining < SegmentBytes THEN remaining ELSE SegmentBytes
  IN
  /\ state = "segmented_upload"
  /\ \/ request_toggle # toggle /\ Fail("toggle_bit")
     \/ /\ request_toggle = toggle
        /\ reply' = DataReply(count, Slice(transfer, offset, count), count = remaining)
        /\ IF count = remaining THEN Reset ELSE Continue(count)
        /\ UNCHANGED <<dict, transfer>>

\* The buffer with a segment of n bytes copied in.
Filled(n, data) ==
  [i \in 1..Capacity |->
     IF i > offset /\ i <= offset + n THEN data[i - offset] ELSE transfer[i]]

\* What the last segment of a download meets: the length check, then write().
DownloadCode(n, data) ==
  IF offset + n # transfer_size THEN "data_too_short"
  ELSE WriteCode(active_key, transfer_size, Slice(Filled(n, data), 0, transfer_size))

\* The bytes of the segment are in the buffer before the checks of the last
\* segment.
DownloadSegment(request_toggle, complete, n, data) ==
  LET code == DownloadCode(n, data) IN
  /\ state = "segmented_download"
  /\ \/ request_toggle # toggle /\ Fail("toggle_bit")
     \/ request_toggle = toggle /\ offset + n > transfer_size /\ Fail("data_too_long")
     \/ /\ request_toggle = toggle /\ offset + n <= transfer_size
        /\ transfer' = Filled(n, data)
        /\ \/ ~complete /\ reply' = Ack /\ Continue(n) /\ UNCHANGED dict
           \/ /\ complete /\ code = "none"
              /\ Store(active_key, Slice(Filled(n, data), 0, transfer_size))
              /\ reply' = Ack
              /\ Reset
           \/ /\ complete /\ code # "none"
              /\ reply' = Abort(active_key, code)
              /\ Reset
              /\ UNCHANGED dict

\* Any other request while a transfer is under way, and a request that opens
\* nothing while none is.
InvalidCommand(command) ==
  \/ /\ state = "idle" /\ command \notin {"upload", "download"}
     /\ \E key \in Keys : Refuse(key, "invalid_command")
  \/ state = "segmented_upload" /\ command # "upload_segment" /\ Fail("invalid_command")
  \/ state = "segmented_download" /\ command # "download_segment" /\ Fail("invalid_command")

Handle ==
  \/ ClientAbort
  \/ \E key \in Keys : InitiateUpload(key)
  \/ \E key \in Keys, announced \in AnnouncedSizes \cup {NotIndicated} :
       InitiateDownload(key, announced)
  \/ \E key \in Keys, n \in 1..ExpeditedBytes :
       \E data \in Block(n) : ExpeditedDownload(key, n, data)
  \/ \E t \in BOOLEAN : UploadSegment(t)
  \/ \E t \in BOOLEAN, complete \in BOOLEAN, n \in 0..SegmentBytes :
       /\ ~complete => n = SegmentBytes
       /\ \E data \in Block(n) : DownloadSegment(t, complete, n, data)
  \/ \E command \in {"upload", "download", "upload_segment", "download_segment", "other"} :
       InvalidCommand(command)

\* Mutant: the timeout looks at uploads only.
ProcessUploadsOnly ==
  /\ state = "segmented_upload" /\ elapsed >= Timeout
  /\ Fail("protocol_timeout")

\* SdoServer::process, called on every round of the service loop.
Process ==
  /\ state # "idle" /\ elapsed >= Timeout
  /\ Fail("protocol_timeout")

\* SdoServer::reset as Node::reset_communication calls it.
ResetCommunication ==
  /\ Reset
  /\ reply' = NoReply
  /\ UNCHANGED <<dict, transfer>>

\* The node changes an entry of its own: uptime, counters, RPDO data.
NodeUpdate(o, v) ==
  /\ Store(o, v)
  /\ UNCHANGED <<session, transfer, reply>>

Tick ==
  /\ state # "idle" /\ elapsed < Timeout
  /\ elapsed' = elapsed + 1
  /\ UNCHANGED <<dict, state, active_key, transfer, transfer_size, offset, toggle, reply>>

Init ==
  /\ dict \in {d \in [Objects -> UNION {Values(o) : o \in Objects}] :
                  \A o \in Objects : d[o] \in Values(o) /\ <<o, d[o]>> \notin Refused}
  /\ transfer = [i \in 1..Capacity |-> 0]
  /\ state = "idle" /\ active_key = NoKey
  /\ transfer_size = 0 /\ offset = 0
  /\ toggle = FALSE /\ elapsed = 0
  /\ reply = NoReply

Next ==
  \/ Handle
  \/ Process
  \/ ResetCommunication
  \/ \E o \in Local : \E v \in Values(o) : NodeUpdate(o, v)
  \/ Tick

Spec == Init /\ [][Next]_sdovars

\* The service loop calls process() on every round and time passes; nothing
\* is assumed of the client.
FairSpec == Spec /\ WF_sdovars(Process) /\ WF_sdovars(Tick)

-----------------------------------------------------------------------------
(* Properties.                                                             *)

Replies ==
  {NoReply, Ack}
    \cup [kind : {"abort"}, key : Keys \cup {NoKey},
          code : {"toggle_bit", "protocol_timeout", "invalid_command", "out_of_memory",
                  "write_only", "read_only", "object_not_found", "data_too_long",
                  "data_too_short", "hook_refused"}]
    \cup UNION {[kind : {"data"}, n : {n}, data : Block(n), last : BOOLEAN] : n \in 0..Capacity}

\* Every variable has its type, and the bounds on offset and transfer_size
\* keep each copy inside the 512-byte buffer.
TypeOK ==
  /\ dict \in [Objects -> UNION {Values(o) : o \in Objects}]
  /\ \A o \in Objects : dict[o] \in Values(o)
  /\ state \in States
  /\ active_key \in Objects \cup {NoKey}
  /\ transfer \in Block(Capacity)
  /\ transfer_size \in 0..Capacity
  /\ offset \in 0..transfer_size
  /\ toggle \in BOOLEAN
  /\ elapsed \in 0..Timeout
  /\ reply \in Replies

\* A transfer under way is about one entry and as long as its storage; an
\* upload always has bytes left to hand out; a server at rest has forgotten
\* everything about the last transfer.
SessionCoherent ==
  /\ state = "idle" => /\ active_key = NoKey /\ transfer_size = 0 /\ offset = 0
                       /\ ~toggle /\ elapsed = 0
  /\ state # "idle" => active_key \in Objects /\ transfer_size = Size[active_key]
  /\ state = "segmented_upload" => active_key \in Readable /\ offset < transfer_size

\* The toggle bit counts the accepted segments modulo two: a segment that is
\* repeated because its answer was lost can never be taken for the next one.
ToggleCountsSegments ==
  state # "idle" => /\ offset % SegmentBytes = 0
                    /\ toggle = ((offset \div SegmentBytes) % 2 = 1)

\* The write hook is asked about the very bytes that are stored: an entry the
\* node does not change by itself never holds a value its hook refuses
\* (0x2001:01 stays in 1..127).
HookGuardsStorage ==
  \A o \in Objects \ Local : <<o, dict[o]>> \notin Refused

\* No client keeps a transfer open for ever: each accepted segment moves
\* offset forward, and a silent client runs into the timeout.
TransferEnds == state # "idle" ~> state = "idle"

\* The server implements SdoTransfer: the bytes behind offset are what an
\* upload has still to hand out of the value it began with, the bytes before
\* it are what a download has received.
job ==
  CASE state = "segmented_upload" ->
         [dir |-> "read", obj |-> active_key,
          value |-> Slice(transfer, 0, transfer_size), done |-> offset]
    [] state = "segmented_download" ->
         [dir |-> "write", obj |-> active_key,
          value |-> Slice(transfer, 0, offset), done |-> offset]
    [] OTHER -> [dir |-> "none"]

out == IF reply.kind = "data" THEN reply.data ELSE <<>>

Promise == INSTANCE SdoTransfer

ImplementsTransfer == Promise!TSpec
=============================================================================
