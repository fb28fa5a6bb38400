-------------------------- MODULE SdoServerProofs --------------------------
(***************************************************************************)
(* Theorems about SdoServer, for any dictionary, buffer, segment length    *)
(* and timeout: its invariants, and that it implements SdoTransfer.        *)
(***************************************************************************)
EXTENDS SdoServer, TLAPS

IInv == TypeOK /\ SessionCoherent

AbortCodes ==
  {"toggle_bit", "protocol_timeout", "invalid_command", "out_of_memory", "write_only",
   "read_only", "object_not_found", "data_too_long", "data_too_short", "hook_refused"}

\* What read() and write() have checked when they report no error.
LEMMA ReadCodeNone ==
  ASSUME NEW key \in Keys
  PROVE  /\ ReadCode(key) = "none" => key \in Objects \cap Readable /\ Size[key] <= Capacity
         /\ ReadCode(key) # "none" => ReadCode(key) \in AbortCodes
BY SdoConstants DEF ReadCode, AbortCodes, Keys

LEMMA WriteCodeNone ==
  ASSUME NEW key \in Keys, NEW n \in Nat, NEW data
  PROVE  /\ WriteCode(key, n, data) = "none" =>
              key \in Objects \cap Writable /\ n = Size[key] /\ <<key, data>> \notin Refused
         /\ WriteCode(key, n, data) # "none" => WriteCode(key, n, data) \in AbortCodes
BY SdoConstants DEF WriteCode, AbortCodes, Keys

LEMMA SliceType ==
  ASSUME NEW size \in Nat, NEW f \in Block(size), NEW m \in Nat, NEW n \in Nat, m + n <= size
  PROVE  Slice(f, m, n) \in Block(n)
BY DEF Slice, Block

LEMMA ReplyTypes ==
  /\ NoReply \in Replies /\ Ack \in Replies
  /\ \A key \in Keys \cup {NoKey}, code \in AbortCodes : Abort(key, code) \in Replies
  /\ \A n \in 0..Capacity : \A data \in Block(n), last \in BOOLEAN :
       DataReply(n, data, last) \in Replies
<1>1. NoReply \in Replies /\ Ack \in Replies
  BY DEF Replies
<1>2. \A key \in Keys \cup {NoKey}, code \in AbortCodes : Abort(key, code) \in Replies
  BY DEF Replies, Abort, AbortCodes
<1>3. ASSUME NEW n \in 0..Capacity, NEW data \in Block(n), NEW last \in BOOLEAN
      PROVE  DataReply(n, data, last) \in Replies
  <2>1. DataReply(n, data, last) \in [kind : {"data"}, n : {n}, data : Block(n), last : BOOLEAN]
    BY DEF DataReply
  <2> QED
    BY <2>1 DEF Replies
<1> QED
  BY <1>1, <1>2, <1>3

-----------------------------------------------------------------------------
\* A step that ends at rest or leaves the session alone, and keeps the types
\* of the buffer, the storage and the answer, keeps the invariant.
LEMMA ResetKeeps ==
  ASSUME IInv, Reset, dict' = dict \/ (\E o \in Objects : \E v \in Values(o) : Store(o, v)),
         transfer' \in Block(Capacity), reply' \in Replies
  PROVE  IInv'
<1> USE SdoConstants
<1>1. TypeOK'
  <2>1. /\ dict' \in [Objects -> UNION {Values(o) : o \in Objects}]
        /\ \A o \in Objects : dict'[o] \in Values(o)
    BY DEF IInv, TypeOK, Store
  <2>2. /\ state' \in States /\ active_key' \in Objects \cup {NoKey}
        /\ elapsed' \in 0..Timeout
        /\ transfer_size' \in 0..Capacity /\ offset' \in 0..transfer_size'
    BY DEF Reset, States
  <2>3. toggle' \in BOOLEAN
    BY DEF Reset
  <2> QED
    BY <2>1, <2>2, <2>3 DEF TypeOK
<1>2. SessionCoherent'
  BY DEF Reset, SessionCoherent
<1> QED
  BY <1>1, <1>2 DEF IInv

LEMMA SameSessionKeeps ==
  ASSUME IInv, UNCHANGED session,
         dict' = dict \/ (\E o \in Objects : \E v \in Values(o) : Store(o, v)),
         transfer' \in Block(Capacity), reply' \in Replies
  PROVE  IInv'
<1> USE SdoConstants
<1>1. TypeOK'
  <2>1. /\ dict' \in [Objects -> UNION {Values(o) : o \in Objects}]
        /\ \A o \in Objects : dict'[o] \in Values(o)
    BY DEF IInv, TypeOK, Store
  <2> QED
    BY <2>1 DEF session, IInv, TypeOK, States
<1>2. SessionCoherent'
  BY DEF session, IInv, SessionCoherent
<1> QED
  BY <1>1, <1>2 DEF IInv

LEMMA FailKeeps ==
  ASSUME IInv, NEW code \in AbortCodes, Fail(code)
  PROVE  IInv'
<1>1. active_key \in Keys \cup {NoKey} /\ transfer \in Block(Capacity)
  BY DEF IInv, TypeOK, Keys
<1> QED
  BY <1>1, ReplyTypes, ResetKeeps DEF Fail

LEMMA RefuseKeeps ==
  ASSUME IInv, NEW key \in Keys \cup {NoKey}, NEW code \in AbortCodes, Refuse(key, code)
  PROVE  IInv'
<1>1. transfer \in Block(Capacity)
  BY DEF IInv, TypeOK
<1> QED
  BY <1>1, ReplyTypes, SameSessionKeeps DEF Refuse

-----------------------------------------------------------------------------
LEMMA LoadType ==
  ASSUME IInv, NEW key \in Objects, Size[key] <= Capacity, Load(key)
  PROVE  /\ transfer' \in Block(Capacity)
         /\ Slice(transfer, 0, Size[key])' = dict[key]
<1>1. dict[key] \in [1..Size[key] -> Byte] /\ transfer \in [1..Capacity -> Byte]
  BY DEF IInv, TypeOK, Values, Block
<1>2. Size[key] \in Nat /\ Capacity \in Nat
  BY SdoConstants
<1>3. \A i \in 1..Capacity : transfer'[i] \in Byte
  BY <1>1, <1>2 DEF Load
<1>4. transfer' \in [1..Capacity -> Byte]
  BY <1>3 DEF Load
<1>5. \A i \in 1..Size[key] : i \in 1..Capacity /\ 0 + i = i /\ transfer'[i] = dict[key][i]
  BY <1>1, <1>2 DEF Load
<1>6. Slice(transfer, 0, Size[key])' = [i \in 1..Size[key] |-> dict[key][i]]
  BY <1>5 DEF Slice
<1> QED
  BY <1>1, <1>4, <1>6 DEF Block

LEMMA InitiateUploadKeeps ==
  ASSUME IInv, NEW key \in Keys, InitiateUpload(key)
  PROVE  IInv'
<1>1. CASE ReadCode(key) # "none"
  BY <1>1, ReadCodeNone, RefuseKeeps DEF InitiateUpload
<1>2. CASE ReadCode(key) = "none"
  <2>1. key \in Objects \cap Readable /\ Size[key] <= Capacity
    BY <1>2, ReadCodeNone
  <2>2. transfer' \in Block(Capacity) /\ UNCHANGED dict
    BY <1>2, <2>1, LoadType DEF InitiateUpload
  <2>3. Size[key] \in 1..Capacity
    BY <2>1, SdoConstants
  <2>4. CASE Size[key] <= ExpeditedBytes
    <3>1. dict[key] \in Block(Size[key])
      BY <2>1 DEF IInv, TypeOK, Values
    <3>2. reply' = DataReply(Size[key], dict[key], TRUE) /\ UNCHANGED session
      BY <1>2, <2>4 DEF InitiateUpload
    <3>3. Size[key] \in 0..Capacity /\ TRUE \in BOOLEAN
      BY <2>3
    <3>4. DataReply(Size[key], dict[key], TRUE) \in Replies
      BY <3>1, <3>3, ReplyTypes, Zenon
    <3>5. reply' \in Replies
      BY <3>2, <3>4
    <3> QED
      BY <2>2, <3>2, <3>5, SameSessionKeeps
  <2>5. CASE ~(Size[key] <= ExpeditedBytes)
    <3>1. reply' = Ack /\ Begin("segmented_upload", key, Size[key])
      BY <1>2, <2>5 DEF InitiateUpload
    <3>2. TypeOK'
      <4>1. /\ state' \in States /\ active_key' \in Objects \cup {NoKey}
            /\ transfer_size' \in 0..Capacity /\ offset' \in 0..transfer_size'
            /\ elapsed' \in 0..Timeout
        BY <2>1, <2>3, <3>1, SdoConstants DEF Begin, States
      <4>2. toggle' \in BOOLEAN
        BY <3>1 DEF Begin
      <4> QED
        BY <2>2, <3>1, <4>1, <4>2, ReplyTypes DEF IInv, TypeOK
    <3>3. SessionCoherent'
      BY <2>1, <2>3, <3>1 DEF Begin, SessionCoherent
    <3> QED
      BY <3>2, <3>3 DEF IInv
  <2> QED
    BY <2>4, <2>5
<1> QED
  BY <1>1, <1>2

LEMMA ExpeditedDownloadKeeps ==
  ASSUME IInv, NEW key \in Keys, NEW n \in 1..ExpeditedBytes, NEW data \in Block(n),
         ExpeditedDownload(key, n, data)
  PROVE  IInv'
<1>0. n \in Nat
  BY SdoConstants
<1>1. CASE WriteCode(key, n, data) # "none"
  BY <1>0, <1>1, WriteCodeNone, RefuseKeeps DEF ExpeditedDownload
<1>2. CASE WriteCode(key, n, data) = "none"
  <2>1. key \in Objects /\ data \in Values(key)
    BY <1>0, <1>2, WriteCodeNone DEF Values
  <2>2. Store(key, data) /\ reply' = Ack /\ UNCHANGED <<transfer, session>>
    BY <1>2 DEF ExpeditedDownload
  <2>3. transfer' \in Block(Capacity)
    BY <2>2 DEF IInv, TypeOK
  <2> QED
    BY <2>1, <2>2, <2>3, ReplyTypes, SameSessionKeeps
<1> QED
  BY <1>1, <1>2

LEMMA InitiateDownloadKeeps ==
  ASSUME IInv, NEW key \in Keys, NEW announced \in AnnouncedSizes \cup {NotIndicated},
         InitiateDownload(key, announced)
  PROVE  IInv'
<1> DEFINE size == IF announced = NotIndicated THEN Size[key] ELSE announced
<1>1. ASSUME NEW code \in AbortCodes, Refuse(key, code) PROVE IInv'
  BY <1>1, RefuseKeeps
<1>2. ASSUME key \in Objects, size <= Capacity, size = Size[key],
             Begin("segmented_download", key, size), reply' = Ack, UNCHANGED <<dict, transfer>>
      PROVE  IInv'
  <2>1. Size[key] \in 1..Capacity
    BY <1>2, SdoConstants
  <2>2. Begin("segmented_download", key, Size[key])
    BY <1>2
  <2> HIDE DEF size
  <2>3. /\ state' \in States /\ active_key' \in Objects \cup {NoKey}
        /\ transfer_size' \in 0..Capacity /\ offset' \in 0..transfer_size'
        /\ elapsed' \in 0..Timeout
    BY <1>2, <2>1, <2>2, SdoConstants DEF Begin, States
  <2>4. toggle' \in BOOLEAN
    BY <2>2 DEF Begin
  <2>5. TypeOK'
    BY <1>2, <2>3, <2>4, ReplyTypes DEF IInv, TypeOK
  <2>6. SessionCoherent'
    BY <1>2, <2>2 DEF Begin, SessionCoherent
  <2> QED
    BY <2>5, <2>6 DEF IInv
<1> QED
  BY <1>1, <1>2 DEF InitiateDownload, AbortCodes

LEMMA UploadSegmentKeeps ==
  ASSUME IInv, NEW request_toggle \in BOOLEAN, UploadSegment(request_toggle)
  PROVE  IInv'
<1> DEFINE remaining == transfer_size - offset
           count == IF remaining < SegmentBytes THEN remaining ELSE SegmentBytes
<1>1. CASE request_toggle # toggle
  BY <1>1, FailKeeps DEF UploadSegment, AbortCodes
<1>2. CASE request_toggle = toggle
  <2>1. /\ reply' = DataReply(count, Slice(transfer, offset, count), count = remaining)
        /\ IF count = remaining THEN Reset ELSE Continue(count)
        /\ UNCHANGED <<dict, transfer>>
        /\ state = "segmented_upload"
    BY <1>2 DEF UploadSegment
  <2>2. /\ transfer_size \in 0..Capacity /\ offset \in 0..transfer_size /\ offset < transfer_size
        /\ transfer \in Block(Capacity)
    BY <2>1 DEF IInv, TypeOK, SessionCoherent
  <2>3. /\ count \in 0..Capacity /\ count <= remaining
        /\ offset \in Nat /\ count \in Nat /\ offset + count <= Capacity
        /\ count # remaining => offset + count \in 0..transfer_size /\ offset + count < transfer_size
    BY <2>2, SdoConstants
  <2> HIDE DEF count
  <2>4. Slice(transfer, offset, count) \in Block(count)
    BY <2>2, <2>3, SdoConstants, SliceType
  <2>5. reply' \in Replies
    <3>1. (count = remaining) \in BOOLEAN
      OBVIOUS
    <3> QED
      BY <2>1, <2>3, <2>4, <3>1, ReplyTypes, Zenon
  <2>6. CASE count = remaining
    BY <2>1, <2>2, <2>5, <2>6, ResetKeeps
  <2>7. CASE count # remaining
    <3>1. /\ offset' = offset + count /\ elapsed' = 0
          /\ UNCHANGED <<state, active_key, transfer_size, dict, transfer>>
      BY <2>1, <2>7 DEF Continue
    <3>2. toggle' \in BOOLEAN
      BY <2>1, <2>7 DEF Continue
    <3>3. TypeOK'
      BY <2>3, <2>5, <2>7, <3>1, <3>2, SdoConstants DEF IInv, TypeOK
    <3>4. SessionCoherent'
      BY <2>1, <2>3, <2>7, <3>1 DEF IInv, SessionCoherent
    <3> QED
      BY <3>3, <3>4 DEF IInv
  <2> QED
    BY <2>6, <2>7
<1> QED
  BY <1>1, <1>2

\* The ways a download segment can end.
LEMMA DownloadSegmentCases ==
  ASSUME NEW request_toggle, NEW complete \in BOOLEAN, NEW n, NEW data,
         DownloadSegment(request_toggle, complete, n, data)
  PROVE  /\ state = "segmented_download"
         /\ \/ Fail("toggle_bit")
            \/ Fail("data_too_long")
            \/ /\ offset + n <= transfer_size
               /\ transfer' = Filled(n, data)
               /\ \/ reply' = Ack /\ Continue(n) /\ UNCHANGED dict
                  \/ /\ DownloadCode(n, data) = "none"
                     /\ Store(active_key, Slice(Filled(n, data), 0, transfer_size))
                     /\ reply' = Ack
                     /\ Reset
                  \/ /\ DownloadCode(n, data) # "none"
                     /\ reply' = Abort(active_key, DownloadCode(n, data))
                     /\ Reset
                     /\ UNCHANGED dict
BY DEF DownloadSegment

LEMMA FilledType ==
  ASSUME IInv, NEW n \in Nat, NEW data \in Block(n), offset + n <= transfer_size
  PROVE  /\ Filled(n, data) \in Block(Capacity)
         /\ Slice(Filled(n, data), 0, transfer_size) \in Block(transfer_size)
<1>1. /\ transfer \in [1..Capacity -> Byte] /\ data \in [1..n -> Byte]
      /\ transfer_size \in 0..Capacity /\ offset \in 0..transfer_size
  BY DEF IInv, TypeOK, Block
<1>2. ASSUME NEW i \in 1..Capacity
      PROVE  (IF i > offset /\ i <= offset + n THEN data[i - offset] ELSE transfer[i]) \in Byte
  BY <1>1, SdoConstants
<1>3. Filled(n, data) \in Block(Capacity)
  BY <1>2 DEF Filled, Block
<1> QED
  BY <1>1, <1>3, SdoConstants, SliceType

LEMMA DownloadSegmentKeeps ==
  ASSUME IInv, NEW request_toggle \in BOOLEAN, NEW complete \in BOOLEAN,
         NEW n \in 0..SegmentBytes, NEW data \in Block(n),
         DownloadSegment(request_toggle, complete, n, data)
  PROVE  IInv'
<1> DEFINE value == Slice(Filled(n, data), 0, transfer_size)
<1>1. state = "segmented_download" /\ n \in Nat
  BY DownloadSegmentCases, SdoConstants
<1>2. /\ active_key \in Objects /\ transfer_size = Size[active_key]
      /\ transfer_size \in 0..Capacity /\ offset \in 0..transfer_size
  BY <1>1, SdoConstants DEF IInv, TypeOK, SessionCoherent
<1>3. CASE Fail("toggle_bit") \/ Fail("data_too_long")
  BY <1>3, FailKeeps DEF AbortCodes
<1>4. ASSUME offset + n <= transfer_size, transfer' = Filled(n, data),
             reply' = Ack, Continue(n), UNCHANGED dict
      PROVE  IInv'
  <2>1. /\ offset' = offset + n /\ elapsed' = 0
        /\ UNCHANGED <<state, active_key, transfer_size, dict>>
    BY <1>4 DEF Continue
  <2>2. toggle' \in BOOLEAN
    BY <1>4 DEF Continue
  <2>3. transfer' \in Block(Capacity) /\ reply' \in Replies
    BY <1>1, <1>4, FilledType, ReplyTypes
  <2>4. TypeOK'
    BY <1>1, <1>2, <1>4, <2>1, <2>2, <2>3, SdoConstants DEF IInv, TypeOK
  <2>5. SessionCoherent'
    BY <1>1, <2>1 DEF IInv, SessionCoherent
  <2> QED
    BY <2>4, <2>5 DEF IInv
<1>5. ASSUME offset + n <= transfer_size, transfer' = Filled(n, data), Reset,
             Store(active_key, value), reply' = Ack
      PROVE  IInv'
  <2>1. value \in Values(active_key) /\ transfer' \in Block(Capacity)
    BY <1>1, <1>2, <1>5, FilledType DEF Values
  <2> HIDE DEF value
  <2> QED
    BY <1>2, <1>5, <2>1, ReplyTypes, ResetKeeps
<1>6. ASSUME offset + n <= transfer_size, transfer' = Filled(n, data), Reset, UNCHANGED dict,
             DownloadCode(n, data) # "none", reply' = Abort(active_key, DownloadCode(n, data))
      PROVE  IInv'
  <2>1. DownloadCode(n, data) \in AbortCodes
    <3>1. active_key \in Keys /\ transfer_size \in Nat
      BY <1>2, SdoConstants DEF Keys
    <3>2. CASE offset + n # transfer_size
      BY <3>2 DEF DownloadCode, AbortCodes
    <3>3. CASE offset + n = transfer_size
      BY <1>6, <3>1, <3>3, WriteCodeNone DEF DownloadCode
    <3> QED
      BY <3>2, <3>3
  <2>2. reply' \in Replies
    BY <1>2, <1>6, <2>1, ReplyTypes DEF Keys
  <2>3. transfer' \in Block(Capacity)
    BY <1>1, <1>6, FilledType
  <2> QED
    BY <1>6, <2>2, <2>3, ResetKeeps
<1> QED
  BY <1>3, <1>4, <1>5, <1>6, DownloadSegmentCases

LEMMA OthersKeep ==
  ASSUME IInv
  PROVE  /\ ClientAbort => IInv'
         /\ \A command : InvalidCommand(command) => IInv'
         /\ Process => IInv'
         /\ ResetCommunication => IInv'
         /\ \A o \in Objects : \A v \in Values(o) : NodeUpdate(o, v) => IInv'
         /\ Tick => IInv'
         /\ UNCHANGED sdovars => IInv'
<1>1. transfer \in Block(Capacity) /\ reply \in Replies
  BY DEF IInv, TypeOK
<1>2. CASE ClientAbort
  BY <1>1, <1>2, ReplyTypes, ResetKeeps DEF ClientAbort
<1>3. ASSUME NEW command, InvalidCommand(command) PROVE IInv'
  <2>1. "invalid_command" \in AbortCodes
    BY DEF AbortCodes
  <2> QED
    BY <1>3, <2>1, FailKeeps, RefuseKeeps DEF InvalidCommand
<1>4. CASE Process
  <2>1. "protocol_timeout" \in AbortCodes
    BY DEF AbortCodes
  <2> QED
    BY <1>4, <2>1, FailKeeps DEF Process
<1>5. CASE ResetCommunication
  BY <1>1, <1>5, ReplyTypes, ResetKeeps DEF ResetCommunication
<1>6. ASSUME NEW o \in Objects, NEW v \in Values(o), NodeUpdate(o, v) PROVE IInv'
  BY <1>1, <1>6, SameSessionKeeps DEF NodeUpdate
<1>7. CASE Tick
  <2>1. elapsed' \in 0..Timeout /\ state # "idle"
    BY <1>7, SdoConstants DEF Tick, IInv, TypeOK
  <2>2. UNCHANGED <<dict, state, active_key, transfer, transfer_size, offset, toggle, reply>>
    BY <1>7 DEF Tick
  <2>3. TypeOK'
    BY <2>1, <2>2 DEF IInv, TypeOK
  <2>4. SessionCoherent'
    BY <2>1, <2>2 DEF IInv, SessionCoherent
  <2> QED
    BY <2>3, <2>4 DEF IInv
<1>8. CASE UNCHANGED sdovars
  BY <1>1, <1>8, SameSessionKeeps DEF sdovars
<1> QED
  BY <1>2, <1>3, <1>4, <1>5, <1>6, <1>7, <1>8

LEMMA InitHolds == Init => IInv
<1> SUFFICES ASSUME Init PROVE IInv
  OBVIOUS
<1>1. /\ state \in States /\ active_key \in Objects \cup {NoKey}
      /\ transfer_size \in 0..Capacity /\ offset \in 0..transfer_size
      /\ elapsed \in 0..Timeout
  BY SdoConstants DEF Init, States
<1>2. transfer \in Block(Capacity)
  BY SdoConstants DEF Init, Block
<1>3. toggle \in BOOLEAN /\ reply \in Replies
  BY ReplyTypes DEF Init
<1>4. /\ dict \in [Objects -> UNION {Values(o) : o \in Objects}]
      /\ \A o \in Objects : dict[o] \in Values(o)
  BY DEF Init
<1>5. SessionCoherent
  BY DEF Init, SessionCoherent
<1> QED
  BY <1>1, <1>2, <1>3, <1>4, <1>5 DEF IInv, TypeOK

LEMMA StepKeeps == IInv /\ [Next]_sdovars => IInv'
<1> SUFFICES ASSUME IInv, [Next]_sdovars PROVE IInv'
  OBVIOUS
<1>1. CASE Handle
  BY <1>1, OthersKeep, InitiateUploadKeeps, InitiateDownloadKeeps, ExpeditedDownloadKeeps,
     UploadSegmentKeeps, DownloadSegmentKeeps DEF Handle
<1>2. ASSUME NEW o \in Local, NEW v \in Values(o), NodeUpdate(o, v) PROVE IInv'
  BY <1>2, OthersKeep, SdoConstants
<1>3. CASE Process \/ ResetCommunication \/ Tick \/ UNCHANGED sdovars
  BY <1>3, OthersKeep
<1> QED
  BY <1>1, <1>2, <1>3 DEF Next

LEMMA Invariance == Spec => []IInv
BY InitHolds, StepKeeps, PTL DEF Spec

\* Every variable keeps its type and every copy stays inside the buffer.
THEOREM TypeCorrect == Spec => []TypeOK
<1>1. IInv => TypeOK
  BY DEF IInv
<1> QED
  BY <1>1, Invariance, PTL

\* A transfer is always about one entry and as long as its storage, and a
\* server at rest has forgotten the last transfer.
THEOREM SessionsAreCoherent == Spec => []SessionCoherent
<1>1. IInv => SessionCoherent
  BY DEF IInv
<1> QED
  BY <1>1, Invariance, PTL

-----------------------------------------------------------------------------
\* Storage changes by the node itself or by a value the hook accepts.
LEMMA StorageSteps ==
  ASSUME IInv, [Next]_sdovars
  PROVE  \/ UNCHANGED dict
         \/ \E o \in Objects : \E v \in Values(o) :
              Store(o, v) /\ (o \in Local \/ <<o, v>> \notin Refused)
<1>1. ASSUME NEW key \in Keys, NEW n \in 1..ExpeditedBytes, NEW data \in Block(n),
             ExpeditedDownload(key, n, data), ~UNCHANGED dict
      PROVE  key \in Objects /\ data \in Values(key) /\ Store(key, data) /\ <<key, data>> \notin Refused
  <2>1. WriteCode(key, n, data) = "none" /\ Store(key, data)
    BY <1>1 DEF ExpeditedDownload, Refuse
  <2>2. n \in Nat
    BY SdoConstants
  <2> QED
    BY <2>1, <2>2, WriteCodeNone DEF Values
<1>2. ASSUME NEW t \in BOOLEAN, NEW complete \in BOOLEAN, NEW n \in 0..SegmentBytes,
             NEW data \in Block(n), DownloadSegment(t, complete, n, data), ~UNCHANGED dict
      PROVE  \E o \in Objects : \E v \in Values(o) : Store(o, v) /\ <<o, v>> \notin Refused
  <2> DEFINE value == Slice(Filled(n, data), 0, transfer_size)
  <2>1. /\ state = "segmented_download" /\ offset + n <= transfer_size
        /\ DownloadCode(n, data) = "none" /\ Store(active_key, value)
    BY <1>2, DownloadSegmentCases DEF Fail
  <2>2. /\ active_key \in Objects /\ active_key \in Keys
        /\ transfer_size = Size[active_key] /\ transfer_size \in Nat /\ n \in Nat
    BY <2>1, SdoConstants DEF IInv, TypeOK, SessionCoherent, Keys
  <2>3. WriteCode(active_key, transfer_size, value) = "none"
    BY <2>1 DEF DownloadCode
  <2>4. value \in Values(active_key)
    BY <2>1, <2>2, FilledType DEF Values
  <2> HIDE DEF value
  <2>5. <<active_key, value>> \notin Refused
    BY <2>2, <2>3, WriteCodeNone
  <2> QED
    BY <2>1, <2>2, <2>4, <2>5
<1>3. ASSUME Handle, ~UNCHANGED dict
      PROVE  \E o \in Objects : \E v \in Values(o) : Store(o, v) /\ <<o, v>> \notin Refused
  BY <1>1, <1>2, <1>3 DEF Handle, ClientAbort, InitiateUpload, InitiateDownload, UploadSegment,
     InvalidCommand, Refuse, Fail
<1>4. ASSUME NEW o \in Local, NEW v \in Values(o), NodeUpdate(o, v)
      PROVE  o \in Objects /\ Store(o, v)
  BY <1>4, SdoConstants DEF NodeUpdate
<1>5. CASE Process \/ ResetCommunication \/ Tick \/ UNCHANGED sdovars
  BY <1>5 DEF Process, Fail, ResetCommunication, Tick, sdovars
<1> QED
  BY <1>3, <1>4, <1>5 DEF Next

\* An entry the node does not change by itself never holds a value its write
\* hook refuses, whichever way a client writes it.
THEOREM HookGuards == Spec => []HookGuardsStorage
<1>1. Init => HookGuardsStorage
  BY DEF Init, HookGuardsStorage
<1>2. IInv /\ HookGuardsStorage /\ [Next]_sdovars => HookGuardsStorage'
  <2> SUFFICES ASSUME IInv, HookGuardsStorage, [Next]_sdovars,
                      NEW o \in Objects \ Local
               PROVE  <<o, dict'[o]>> \notin Refused
    BY DEF HookGuardsStorage
  <2>1. <<o, dict[o]>> \notin Refused
    BY DEF HookGuardsStorage
  <2>2. CASE UNCHANGED dict
    BY <2>1, <2>2
  <2>3. ASSUME NEW p \in Objects, NEW v \in Values(p), Store(p, v),
               p \in Local \/ <<p, v>> \notin Refused
        PROVE  <<o, dict'[o]>> \notin Refused
    <3>1. dict'[o] = IF o = p THEN v ELSE dict[o]
      BY <2>3 DEF IInv, TypeOK, Store
    <3> QED
      BY <2>1, <2>3, <3>1
  <2> QED
    BY <2>2, <2>3, StorageSteps
<1> QED
  BY <1>1, <1>2, Invariance, PTL DEF Spec

-----------------------------------------------------------------------------
(* The toggle bit.                                                         *)

LEMMA MultiplesOfSegment ==
  ASSUME NEW k \in Nat
  PROVE  /\ k * SegmentBytes \in Nat
         /\ (k * SegmentBytes) % SegmentBytes = 0
         /\ (k * SegmentBytes) \div SegmentBytes = k
         /\ (k + 1) * SegmentBytes = k * SegmentBytes + SegmentBytes
<1> SegmentBytes \in Nat \ {0}
  BY SdoConstants
<1>1. (k * SegmentBytes) % SegmentBytes = 0
  OBVIOUS
<1>2. (k * SegmentBytes) \div SegmentBytes = k
  OBVIOUS
<1> QED
  BY <1>1, <1>2

LEMMA ParityAlternates == ASSUME NEW k \in Nat PROVE ((k + 1) % 2 = 1) <=> ~(k % 2 = 1)
OBVIOUS

\* A transfer goes on only by whole segments: the one that is shorter is the
\* last of its upload, or carries the mark that ends its download.
LEMMA SegmentSteps ==
  ASSUME IInv, [Next]_sdovars
  PROVE  \/ UNCHANGED <<state, offset, toggle>>
         \/ offset' = 0 /\ toggle' = FALSE
         \/ state # "idle" /\ state' = state /\ Continue(SegmentBytes)
<1> DEFINE Goal == \/ UNCHANGED <<state, offset, toggle>>
                   \/ offset' = 0 /\ toggle' = FALSE
                   \/ state # "idle" /\ state' = state /\ Continue(SegmentBytes)
<1>1. ASSUME NEW t \in BOOLEAN, UploadSegment(t) PROVE Goal
  <2> DEFINE remaining == transfer_size - offset
             count == IF remaining < SegmentBytes THEN remaining ELSE SegmentBytes
  <2>1. CASE Fail("toggle_bit")
    BY <2>1 DEF Fail, Reset
  <2>2. CASE state = "segmented_upload" /\ Reset
    BY <2>2 DEF Reset
  <2>3. CASE state = "segmented_upload" /\ count # remaining /\ Continue(count)
    <3>1. count = SegmentBytes
      BY <2>3
    <3> QED
      BY <2>3, <3>1 DEF Continue
  <2> QED
    BY <1>1, <2>1, <2>2, <2>3 DEF UploadSegment
<1>2. ASSUME NEW t \in BOOLEAN, NEW complete \in BOOLEAN, NEW n \in 0..SegmentBytes,
             ~complete => n = SegmentBytes,
             NEW data \in Block(n), DownloadSegment(t, complete, n, data)
      PROVE  Goal
  <2>1. CASE Fail("toggle_bit") \/ Fail("data_too_long") \/ Reset
    BY <2>1 DEF Fail, Reset
  <2>2. CASE state = "segmented_download" /\ ~complete /\ Continue(n)
    BY <1>2, <2>2 DEF Continue
  <2> QED
    BY <1>2, <2>1, <2>2 DEF DownloadSegment
<1>3. ASSUME NEW key, InitiateUpload(key) PROVE Goal
  BY <1>3 DEF InitiateUpload, Refuse, Begin, session
<1>4. ASSUME NEW key, NEW announced, InitiateDownload(key, announced) PROVE Goal
  BY <1>4 DEF InitiateDownload, Refuse, Begin, session
<1>5. ASSUME NEW key, NEW n, NEW data, ExpeditedDownload(key, n, data) PROVE Goal
  BY <1>5 DEF ExpeditedDownload, Refuse, session
<1>6. ASSUME NEW command, InvalidCommand(command) PROVE Goal
  BY <1>6 DEF InvalidCommand, Refuse, Fail, Reset, session
<1>7. ASSUME ClientAbort \/ Process \/ ResetCommunication \/ Tick \/ UNCHANGED sdovars PROVE Goal
  BY <1>7 DEF ClientAbort, Process, ResetCommunication, Tick, Fail, Reset, sdovars, session
<1>8. ASSUME NEW o, NEW v, NodeUpdate(o, v) PROVE Goal
  BY <1>8 DEF NodeUpdate, session
<1> HIDE DEF Goal
<1>9. ASSUME Handle PROVE Goal
  BY <1>1, <1>2, <1>3, <1>4, <1>5, <1>6, <1>7, <1>9 DEF Handle
<1>10. Goal
  BY <1>7, <1>8, <1>9 DEF Next
<1> QED
  BY <1>10 DEF Goal

\* k whole segments have been accepted, and toggle is the parity of k.
Counted == state # "idle" => \E k \in Nat : /\ offset = k * SegmentBytes
                                            /\ toggle = (k % 2 = 1)

LEMMA CountedKeeps == IInv /\ Counted /\ [Next]_sdovars => Counted'
<1> SUFFICES ASSUME IInv, Counted, [Next]_sdovars, state' # "idle"
             PROVE  \E k \in Nat : offset' = k * SegmentBytes /\ toggle' = (k % 2 = 1)
  BY DEF Counted
<1>1. CASE UNCHANGED <<state, offset, toggle>>
  BY <1>1 DEF Counted
<1>2. CASE offset' = 0 /\ toggle' = FALSE
  <2>1. 0 = 0 * SegmentBytes /\ ~(0 % 2 = 1)
    BY SdoConstants
  <2> QED
    BY <1>2, <2>1
<1>3. CASE state # "idle" /\ state' = state /\ Continue(SegmentBytes)
  <2>1. PICK k \in Nat : offset = k * SegmentBytes /\ toggle = (k % 2 = 1)
    BY <1>3 DEF Counted
  <2>2. offset' = (k + 1) * SegmentBytes
    BY <1>3, <2>1, MultiplesOfSegment DEF Continue
  <2>3. toggle' = ((k + 1) % 2 = 1)
    BY <1>3, <2>1, ParityAlternates DEF Continue
  <2>4. k + 1 \in Nat
    OBVIOUS
  <2> QED
    BY <2>2, <2>3, <2>4
<1> QED
  BY <1>1, <1>2, <1>3, SegmentSteps

\* The toggle bit is the number of accepted segments modulo two, so a segment
\* the client repeats is never taken for the next one.
THEOREM TogglesCount == Spec => []ToggleCountsSegments
<1>1. Init => Counted
  BY DEF Init, Counted
<1>2. Counted => ToggleCountsSegments
  <2> SUFFICES ASSUME Counted, state # "idle"
               PROVE  /\ offset % SegmentBytes = 0
                      /\ toggle = ((offset \div SegmentBytes) % 2 = 1)
    BY DEF ToggleCountsSegments
  <2>1. PICK k \in Nat : offset = k * SegmentBytes /\ toggle = (k % 2 = 1)
    BY DEF Counted
  <2> QED
    BY <2>1, MultiplesOfSegment
<1> QED
  BY <1>1, <1>2, CountedKeeps, Invariance, PTL DEF Spec

-----------------------------------------------------------------------------
(* SdoServer implements SdoTransfer: segments, toggle bits, the shared     *)
(* buffer and the deadline can never be told apart from a server that      *)
(* hands out one value of an object and stores one value at once.          *)

(* Copies.                                                                 *)

LEMMA EmptySlice ==
  ASSUME NEW f, NEW m \in Nat
  PROVE  Slice(f, m, 0) = <<>>
BY DEF Slice

LEMMA SliceOfSlice ==
  ASSUME NEW f, NEW size \in Nat, NEW m \in Nat, NEW n \in Nat, m + n <= size
  PROVE  Slice(Slice(f, 0, size), m, n) = Slice(f, m, n)
<1>1. \A i \in 1..n : m + i \in 1..size /\ 0 + (m + i) = m + i
  OBVIOUS
<1> QED
  BY <1>1 DEF Slice

LEMMA SplicedSlice ==
  ASSUME IInv, NEW n \in Nat, NEW data \in Block(n), offset + n <= transfer_size
  PROVE  Slice(Filled(n, data), 0, offset + n) = Splice(Slice(transfer, 0, offset), offset, data, n)
<1>1. transfer_size \in 0..Capacity /\ offset \in 0..transfer_size
  BY DEF IInv, TypeOK
<1>2. \A i \in 1..(offset + n) :
         Filled(n, data)[0 + i] = IF i <= offset THEN Slice(transfer, 0, offset)[i] ELSE data[i - offset]
  BY <1>1, SdoConstants DEF Filled, Slice
<1> QED
  BY <1>2 DEF Slice, Splice

-----------------------------------------------------------------------------
(* The mapped variables.                                                   *)

LEMMA Mapped ==
  /\ state = "idle" => job = Promise!NoJob
  /\ state = "segmented_upload" =>
       job = [dir |-> "read", obj |-> active_key,
              value |-> Slice(transfer, 0, transfer_size), done |-> offset]
  /\ state = "segmented_download" =>
       job = [dir |-> "write", obj |-> active_key,
              value |-> Slice(transfer, 0, offset), done |-> offset]
BY DEF job, Promise!NoJob

LEMMA MappedNext ==
  /\ state' = "idle" => job' = Promise!NoJob
  /\ state' = "segmented_upload" =>
       job' = [dir |-> "read", obj |-> active_key',
              value |-> Slice(transfer', 0, transfer_size'), done |-> offset']
  /\ state' = "segmented_download" =>
       job' = [dir |-> "write", obj |-> active_key',
              value |-> Slice(transfer', 0, offset'), done |-> offset']
BY DEF job, Promise!NoJob, Slice

LEMMA NoData ==
  ASSUME reply' = Ack \/ reply' = NoReply \/ (\E key, code : reply' = Abort(key, code))
  PROVE  out' = Promise!Nothing
BY DEF out, Ack, NoReply, Abort, Promise!Nothing

LEMMA ResetDrops ==
  ASSUME Reset, UNCHANGED dict,
         reply' = Ack \/ reply' = NoReply \/ (\E key, code : reply' = Abort(key, code))
  PROVE  Promise!Drop
BY NoData, MappedNext DEF Reset, Promise!Drop

LEMMA SameJob ==
  ASSUME UNCHANGED <<session, transfer>>
  PROVE  job' = job
BY DEF session, job, Slice

LEMMA RefuseDrops ==
  ASSUME NEW key, NEW code, Refuse(key, code)
  PROVE  Promise!Drop
BY SameJob, NoData DEF Refuse, Promise!Drop

-----------------------------------------------------------------------------
(* Each step of the server is a step of the promise.                       *)

LEMMA UploadBegins ==
  ASSUME IInv, NEW key \in Keys, InitiateUpload(key)
  PROVE  Promise!TNext
<1>1. CASE ReadCode(key) # "none"
  BY <1>1, RefuseDrops DEF InitiateUpload, Promise!TNext
<1>2. CASE ReadCode(key) = "none"
  <2>1. key \in Objects /\ Size[key] <= Capacity
    BY <1>2, ReadCodeNone
  <2>2. Slice(transfer', 0, Size[key]) = dict[key]
    BY <1>2, <2>1, LoadType DEF InitiateUpload, Slice
  <2>3. state = "idle" /\ job = Promise!NoJob /\ UNCHANGED dict
    BY <1>2, Mapped DEF InitiateUpload
  <2>4. CASE Size[key] <= ExpeditedBytes
    <3>1. reply' = DataReply(Size[key], dict[key], TRUE) /\ UNCHANGED session
      BY <1>2, <2>4 DEF InitiateUpload
    <3>2. out' = dict[key]
      BY <3>1 DEF out, DataReply
    <3>3. job' = job
      BY <2>3, <3>1, MappedNext DEF session
    <3> QED
      BY <2>1, <2>3, <3>2, <3>3 DEF Promise!TNext, Promise!ReadAtOnce
  <2>5. CASE ~(Size[key] <= ExpeditedBytes)
    <3>1. reply' = Ack /\ Begin("segmented_upload", key, Size[key])
      BY <1>2, <2>5 DEF InitiateUpload
    <3>2. out' = Promise!Nothing
      BY <3>1, NoData
    <3>3. job' = [dir |-> "read", obj |-> key, value |-> dict[key], done |-> 0]
      BY <2>2, <3>1, MappedNext DEF Begin
    <3> QED
      BY <2>1, <2>3, <3>2, <3>3 DEF Promise!TNext, Promise!BeginRead
  <2> QED
    BY <2>4, <2>5
<1> QED
  BY <1>1, <1>2

LEMMA ExpeditedWrites ==
  ASSUME IInv, NEW key \in Keys, NEW n \in 1..ExpeditedBytes, NEW data \in Block(n),
         ExpeditedDownload(key, n, data)
  PROVE  Promise!TNext
<1>0. n \in Nat
  BY SdoConstants
<1>1. CASE WriteCode(key, n, data) # "none"
  BY <1>1, RefuseDrops DEF ExpeditedDownload, Promise!TNext
<1>2. CASE WriteCode(key, n, data) = "none"
  <2>1. key \in Objects /\ data \in Promise!Values(key)
    BY <1>0, <1>2, WriteCodeNone DEF Block, Promise!Values
  <2>2. state = "idle" /\ job = Promise!NoJob
    BY Mapped DEF ExpeditedDownload
  <2>3. Store(key, data) /\ reply' = Ack /\ UNCHANGED <<transfer, session>>
    BY <1>2 DEF ExpeditedDownload
  <2>4. Promise!WriteAtOnce(key, data)
    BY <2>2, <2>3, SameJob, NoData DEF Promise!WriteAtOnce, Store
  <2> QED
    BY <2>1, <2>4 DEF Promise!TNext
<1> QED
  BY <1>1, <1>2

LEMMA DownloadBegins ==
  ASSUME IInv, NEW key \in Keys, NEW announced \in AnnouncedSizes \cup {NotIndicated},
         InitiateDownload(key, announced)
  PROVE  Promise!TNext
<1>1. ASSUME NEW code, Refuse(key, code) PROVE Promise!TNext
  BY <1>1, RefuseDrops DEF Promise!TNext
<1>2. ASSUME key \in Objects, NEW size, Begin("segmented_download", key, size),
             reply' = Ack, UNCHANGED <<dict, transfer>>
      PROVE  Promise!TNext
  <2>1. job = Promise!NoJob
    BY Mapped DEF InitiateDownload
  <2>2. job' = [dir |-> "write", obj |-> key, value |-> <<>>, done |-> 0]
    BY <1>2, MappedNext, EmptySlice DEF Begin
  <2>3. Promise!BeginWrite(key)
    BY <1>2, <2>1, <2>2, NoData DEF Promise!BeginWrite
  <2> QED
    BY <1>2, <2>3 DEF Promise!TNext
<1> QED
  BY <1>1, <1>2 DEF InitiateDownload

LEMMA SegmentIsServed ==
  ASSUME IInv, NEW t \in BOOLEAN, UploadSegment(t)
  PROVE  Promise!TNext
<1> DEFINE remaining == transfer_size - offset
           count == IF remaining < SegmentBytes THEN remaining ELSE SegmentBytes
<1>1. CASE t # toggle
  BY <1>1, ResetDrops DEF UploadSegment, Fail, Promise!TNext
<1>2. CASE t = toggle
  <2>1. /\ reply' = DataReply(count, Slice(transfer, offset, count), count = remaining)
        /\ IF count = remaining THEN Reset ELSE Continue(count)
        /\ UNCHANGED <<dict, transfer>>
        /\ state = "segmented_upload"
    BY <1>2 DEF UploadSegment
  <2>2. /\ transfer_size \in Nat /\ offset \in 0..transfer_size /\ transfer_size = Size[active_key]
    BY <2>1, SdoConstants DEF IInv, TypeOK, SessionCoherent
  <2>3. count \in 0..remaining
    BY <2>2, SdoConstants
  <2> HIDE DEF count
  <2>4. job = [dir |-> "read", obj |-> active_key,
               value |-> Slice(transfer, 0, transfer_size), done |-> offset]
    BY <2>1, Mapped
  <2>5. out' = Slice(transfer, offset, count)
    BY <2>1 DEF out, DataReply
  <2>6. Promise!Slice(job.value, job.done, count) = Slice(transfer, offset, count)
    <3>1. Slice(Slice(transfer, 0, transfer_size), offset, count) = Slice(transfer, offset, count)
      BY <2>2, <2>3, SliceOfSlice
    <3> QED
      BY <2>4, <3>1 DEF Slice, Promise!Slice
  <2>7. job' = IF job.done + count = Size[job.obj] THEN Promise!NoJob
                                                  ELSE [job EXCEPT !.done = @ + count]
    <3>1. CASE count = remaining
      BY <2>1, <2>2, <2>4, <3>1, MappedNext DEF Reset
    <3>2. CASE count # remaining
      BY <2>1, <2>2, <2>3, <2>4, <3>2, MappedNext DEF Continue
    <3> QED
      BY <3>1, <3>2
  <2>8. Promise!Serve(count)
    BY <2>1, <2>2, <2>3, <2>4, <2>5, <2>6, <2>7 DEF Promise!Serve
  <2>9. job # Promise!NoJob /\ count \in 0..(Size[job.obj] - job.done)
    BY <2>2, <2>3, <2>4 DEF Promise!NoJob
  <2> QED
    BY <2>8, <2>9 DEF Promise!TNext
<1> QED
  BY <1>1, <1>2

LEMMA SegmentIsReceived ==
  ASSUME IInv, NEW t \in BOOLEAN, NEW complete \in BOOLEAN,
         NEW n \in 0..SegmentBytes, NEW data \in Block(n),
         DownloadSegment(t, complete, n, data)
  PROVE  Promise!TNext
<1>1. state = "segmented_download" /\ n \in Nat
  BY DownloadSegmentCases, SdoConstants
<1>2. /\ active_key \in Objects /\ transfer_size = Size[active_key]
      /\ transfer_size \in Nat /\ offset \in 0..transfer_size
  BY <1>1, SdoConstants DEF IInv, TypeOK, SessionCoherent
<1>3. job = [dir |-> "write", obj |-> active_key,
             value |-> Slice(transfer, 0, offset), done |-> offset]
  BY <1>1, Mapped
<1>4. CASE Fail("toggle_bit") \/ Fail("data_too_long")
  BY <1>4, ResetDrops DEF Fail, Promise!TNext
<1>5. ASSUME offset + n <= transfer_size
      PROVE  /\ Slice(Filled(n, data), 0, offset + n) = Promise!Splice(job.value, job.done, data, n)
             /\ job # Promise!NoJob /\ n \in 0..(Size[job.obj] - job.done)
             /\ data \in [1..n -> Byte]
             /\ job.dir = "write" /\ job.done + n <= Size[job.obj]
  <2>1. Slice(Filled(n, data), 0, offset + n) = Splice(Slice(transfer, 0, offset), offset, data, n)
    BY <1>1, <1>5, SplicedSlice
  <2>2. Promise!Splice(job.value, job.done, data, n) = Splice(Slice(transfer, 0, offset), offset, data, n)
    BY <1>3 DEF Splice, Promise!Splice
  <2>3. job # Promise!NoJob /\ n \in 0..(Size[job.obj] - job.done)
    BY <1>1, <1>2, <1>3, <1>5 DEF Promise!NoJob
  <2>4. data \in [1..n -> Byte]
    BY DEF Block
  <2> QED
    BY <1>2, <1>3, <1>5, <2>1, <2>2, <2>3, <2>4
<1>6. ASSUME offset + n <= transfer_size, transfer' = Filled(n, data),
             reply' = Ack, Continue(n), UNCHANGED dict
      PROVE  Promise!TNext
  <2>1. job' = [dir |-> "write", obj |-> active_key,
                value |-> Slice(Filled(n, data), 0, offset + n), done |-> offset + n]
    BY <1>1, <1>6, MappedNext DEF Continue
  <2>2. job' = [dir |-> "write", obj |-> job.obj,
                value |-> Promise!Splice(job.value, job.done, data, n), done |-> job.done + n]
    BY <1>3, <1>5, <1>6, <2>1
  <2>3. Promise!Receive(data, n)
    BY <1>5, <1>6, <2>2, NoData DEF Promise!Receive
  <2> QED
    BY <1>5, <1>6, <2>3 DEF Promise!TNext
<1>7. ASSUME offset + n <= transfer_size, DownloadCode(n, data) = "none",
             Store(active_key, Slice(Filled(n, data), 0, transfer_size)),
             reply' = Ack, Reset
      PROVE  Promise!TNext
  <2>1. offset + n = transfer_size
    BY <1>1, <1>2, <1>7 DEF DownloadCode
  <2>2. dict' = [dict EXCEPT ![job.obj] = Promise!Splice(job.value, job.done, data, n)]
    BY <1>3, <1>5, <1>7, <2>1 DEF Store
  <2>3. job' = Promise!NoJob
    BY <1>7, MappedNext DEF Reset
  <2>4. job.done + n = Size[job.obj]
    BY <1>2, <1>3, <2>1
  <2>5. Promise!Commit(data, n)
    BY <1>5, <1>7, <2>2, <2>3, <2>4, NoData DEF Promise!Commit
  <2> QED
    BY <1>5, <1>7, <2>5 DEF Promise!TNext
<1>8. ASSUME reply' = Abort(active_key, DownloadCode(n, data)), Reset, UNCHANGED dict
      PROVE  Promise!TNext
  BY <1>8, ResetDrops DEF Promise!TNext
<1> QED
  BY <1>4, <1>6, <1>7, <1>8, DownloadSegmentCases

LEMMA StepImplements ==
  ASSUME IInv, [Next]_sdovars
  PROVE  [Promise!TNext]_Promise!tvars
<1>1. CASE Handle
  <2>1. CASE ClientAbort
    BY <2>1, ResetDrops DEF ClientAbort, Promise!TNext
  <2>2. ASSUME NEW command, InvalidCommand(command) PROVE Promise!TNext
    BY <2>2, ResetDrops, RefuseDrops DEF InvalidCommand, Fail, Promise!TNext
  <2> QED
    BY <1>1, <2>1, <2>2, UploadBegins, DownloadBegins, ExpeditedWrites, SegmentIsServed,
       SegmentIsReceived DEF Handle
<1>2. CASE Process
  BY <1>2, ResetDrops DEF Process, Fail, Promise!TNext
<1>3. CASE ResetCommunication
  BY <1>3, ResetDrops DEF ResetCommunication, Promise!TNext
<1>4. ASSUME NEW o \in Local, NEW v \in Values(o), NodeUpdate(o, v)
      PROVE  Promise!TNext
  <2>1. o \in Objects /\ v \in Promise!Values(o)
    BY SdoConstants DEF Values, Block, Promise!Values
  <2>2. UNCHANGED <<job, out>>
    BY <1>4, SameJob DEF NodeUpdate, out
  <2>3. Promise!NodeUpdate(o, v)
    BY <1>4, <2>2 DEF NodeUpdate, Store, Promise!NodeUpdate
  <2> QED
    BY <2>1, <2>3 DEF Promise!TNext
<1>5. CASE Tick
  BY <1>5, Mapped, MappedNext DEF Tick, Promise!tvars, out, job, Slice
<1>6. CASE UNCHANGED sdovars
  BY <1>6, SameJob DEF sdovars, out, Promise!tvars
<1> QED
  BY <1>1, <1>2, <1>3, <1>4, <1>5, <1>6 DEF Next

\* Whatever a client sends, and however it repeats, reorders or abandons its
\* requests, the server keeps the promise of SdoTransfer.
THEOREM Implements == Spec => ImplementsTransfer
<1>1. Init => Promise!TInit
  <2> SUFFICES ASSUME Init PROVE Promise!TInit
    OBVIOUS
  <2>1. job = Promise!NoJob /\ out = Promise!Nothing
    BY Mapped DEF Init, out, NoReply, Promise!Nothing
  <2>2. dict \in {d \in [Objects -> UNION {Promise!Values(o) : o \in Objects}] :
                    \A o \in Objects : d[o] \in Promise!Values(o)}
    BY DEF Init, Values, Block, Promise!Values
  <2> QED
    BY <2>1, <2>2 DEF Promise!TInit
<1>2. IInv /\ [Next]_sdovars => [Promise!TNext]_Promise!tvars
  BY StepImplements
<1> QED
  BY <1>1, <1>2, Invariance, PTL DEF Spec, ImplementsTransfer, Promise!TSpec
=============================================================================
