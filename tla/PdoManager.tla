----------------------------- MODULE PdoManager -----------------------------
(***************************************************************************)
(* canopen::PdoManager (components/canopen/src/pdo.cpp): the receive and   *)
(* transmit PDO channels of a node, their communication and mapping        *)
(* parameters in the object dictionary, and the runtime mapping cached     *)
(* from those parameters.                                                  *)
(*                                                                         *)
(* A parameter changes through the write hook of its dictionary entry,     *)
(* which validates the value and then marks every cached mapping stale     *)
(* (++config_revision_); a channel looks at the mark only when it is next  *)
(* used.  A mapping word is a member of a set, known by the length of its  *)
(* object and by the directions it may be mapped in (the dictionary is     *)
(* frozen, so the answer of validate_mapping_word never changes).  The     *)
(* comparison of the 32-bit revisions is kept as "the cache is fresh":     *)
(* between two uses of a channel fewer than 2^32 parameters are written.   *)
(***************************************************************************)
EXTENDS Naturals

CONSTANTS
  RChannels,    \* receive channels, numbers in the order handle() scans them
  TChannels,    \* transmit channels, other numbers
  Words,        \* the mapping words a client writes
  NoWord,       \* the zero word of a mapping never written
  Bytes,        \* Bytes[w]: length in bytes of the object of word w
  RxMappable,   \* words whose object a receive PDO may carry
  TxMappable,   \* words whose object a transmit PDO may carry
  Vetoing,      \* words whose object has a write hook that may refuse
  MaxMappings,  \* kMaxMappings
  MaxPayload,   \* 64 bytes, 8 without CAN-FD
  Ids,          \* COB-IDs, without the enable bit
  DefaultId,    \* DefaultId[ch]: predefined COB-ID of channel ch
  SyncTypes,    \* transmission types written, all in 1..240
  OtherTypes,   \* transmission types written, outside 1..240
  EventTypes,   \* 254 and 255
  Inhibits,     \* inhibit times written, in ticks
  Timers,       \* event timers written, in ticks
  MaxAge        \* bound: the time since a transmission is not told apart above it

Channels == RChannels \cup TChannels
Types == SyncTypes \cup OtherTypes \cup EventTypes

ASSUME PdoConstants ==
  /\ RChannels \subseteq Nat /\ TChannels \subseteq Nat
  /\ RChannels \cap TChannels = {}
  /\ NoWord \notin Words
  /\ RxMappable \subseteq Words /\ TxMappable \subseteq Words
  /\ Bytes \in [Words -> Nat \ {0}]
  /\ MaxMappings \in Nat /\ MaxPayload \in Nat
  /\ DefaultId \in [Channels -> Ids]
  /\ SyncTypes \subseteq Nat \ {0} /\ OtherTypes \subseteq Nat
  /\ EventTypes \subseteq Nat /\ 255 \in EventTypes
  /\ SyncTypes \cap EventTypes = {}
  /\ Inhibits \subseteq Nat /\ Timers \subseteq Nat
  /\ MaxAge \in Nat /\ \A t \in Inhibits \cup Timers : t <= MaxAge

VARIABLES
  operational,  \* the node is in NMT state operational
  cfg,          \* cfg[ch]: RpdoParameters / TpdoParameters
  rt,           \* rt[ch]: RuntimeMapping
  fresh,        \* fresh[ch]: runtime.revision = config_revision_
  age,          \* age[ch]: time since the last transmission, or Never
  wire          \* the PDOs the latest step transmitted or applied

pdovars == <<operational, cfg, rt, fresh, age, wire>>

Never == MaxAge + 1

Default(ch) ==
  [enabled |-> TRUE, id |-> DefaultId[ch], type |-> 255, inhibit |-> 0, event |-> 0,
   count |-> 0, map |-> [i \in 1..MaxMappings |-> NoWord]]

Empty ==
  [valid |-> FALSE, payload |-> 0, sync |-> 0, keys |-> [i \in 1..MaxMappings |-> NoWord]]

-----------------------------------------------------------------------------
(* Mappings.                                                               *)

ValidWord(ch, word) == word \in IF ch \in RChannels THEN RxMappable ELSE TxMappable

\* Bytes of the first n words of a mapping.
Total(map, n) ==
  LET sum[i \in 0..n] == IF i = 0 THEN 0 ELSE sum[i - 1] + Bytes[map[i]] IN sum[n]

\* validate_mapping_set
ValidSet(ch, map, n) ==
  n = 0 \/ /\ \A i \in 1..n : ValidWord(ch, map[i])
           /\ Total(map, n) \in 0..MaxPayload

\* refresh_mapping: the cached mapping of ch, rebuilt if a parameter was
\* written since it was last used.
Refreshed(ch) ==
  LET c == cfg[ch]
      sound == ValidSet(ch, c.map, c.count)
  IN
  IF fresh[ch] THEN rt[ch]
  ELSE [valid |-> sound /\ c.count > 0,
        payload |-> IF sound /\ c.count > 0 THEN Total(c.map, c.count) ELSE 0,
        sync |-> rt[ch].sync,
        keys |-> IF sound THEN [i \in 1..MaxMappings |->
                                  IF i <= c.count THEN c.map[i] ELSE rt[ch].keys[i]]
                          ELSE rt[ch].keys]

\* What a PDO carries when the first n cached words are walked.
Pdo(ch, r, n) ==
  [ch |-> ch, id |-> cfg[ch].id, payload |-> r.payload, words |-> [i \in 1..n |-> r.keys[i]]]

-----------------------------------------------------------------------------
(* Configuration, through SDO downloads.                                   *)

\* Mutant: a written parameter leaves the cached mappings as they are.
ConfigureKeepsCache(ch, c) ==
  /\ cfg' = [cfg EXCEPT ![ch] = c]
  /\ wire' = {}
  /\ UNCHANGED <<operational, rt, fresh, age>>

\* The hook bumps config_revision_ and write() stores the value.
Configure(ch, c) ==
  /\ cfg' = [cfg EXCEPT ![ch] = c]
  /\ fresh' = [k \in Channels |-> FALSE]
  /\ wire' = {}
  /\ UNCHANGED <<operational, rt, age>>

\* An enabled COB-ID can be disabled but not replaced.
WriteCobId(ch, enabled, id) ==
  /\ ~(cfg[ch].enabled /\ enabled /\ id # cfg[ch].id)
  /\ Configure(ch, [cfg[ch] EXCEPT !.enabled = enabled, !.id = id])

\* The type of a receive channel is stored and never looked at.
WriteType(ch, type) == Configure(ch, [cfg[ch] EXCEPT !.type = type])

WriteInhibit(ch, time) ==
  ch \in TChannels /\ Configure(ch, [cfg[ch] EXCEPT !.inhibit = time])

WriteEventTimer(ch, time) ==
  ch \in TChannels /\ Configure(ch, [cfg[ch] EXCEPT !.event = time])

WriteCount(ch, n) ==
  /\ n <= MaxMappings
  /\ ValidSet(ch, cfg[ch].map, n)
  /\ Configure(ch, [cfg[ch] EXCEPT !.count = n])

\* Mutant: a word of a mapping in use can be replaced.
WriteMappingAtAnyTime(ch, i, word) ==
  /\ ValidWord(ch, word)
  /\ Configure(ch, [cfg[ch] EXCEPT !.map[i] = word])

\* A mapping word can be written only while the mapping is switched off.
WriteMapping(ch, i, word) ==
  /\ cfg[ch].count = 0
  /\ ValidWord(ch, word)
  /\ Configure(ch, [cfg[ch] EXCEPT !.map[i] = word])

-----------------------------------------------------------------------------
(* Traffic.                                                                *)

Matching(id) == {ch \in RChannels : cfg[ch].enabled /\ cfg[ch].id = id}

\* PdoManager::handle: the first matching channel takes a frame of n bytes.
\* write() may refuse the word after the first k; the objects written before
\* it keep their new value.
Receive(id, n) ==
  /\ operational
  /\ \E ch \in Matching(id) :
       /\ \A other \in Matching(id) : ch <= other
       /\ rt' = [rt EXCEPT ![ch] = Refreshed(ch)]
       /\ fresh' = [fresh EXCEPT ![ch] = TRUE]
       /\ LET r == Refreshed(ch) IN
          IF r.valid /\ n >= r.payload
            THEN \E k \in 0..cfg[ch].count :
                   /\ k < cfg[ch].count => r.keys[k + 1] \in Vetoing
                   /\ wire' = {Pdo(ch, r, k)}
            ELSE wire' = {}
  /\ UNCHANGED <<operational, cfg, age>>

\* Mutant: a channel that has never transmitted is taken for inhibited.
InhibitedBeforeFirst(ch) == age[ch] = Never \/ age[ch] < cfg[ch].inhibit

\* transmit: an enabled channel looks at its cached mapping and sends unless
\* it is inhibited.
Inhibited(ch) == age[ch] # Never /\ age[ch] < cfg[ch].inhibit

\* Mutant: a disabled channel transmits.
AttemptsEvenDisabled(asked) == asked

Attempts(asked) == {ch \in asked : cfg[ch].enabled}
Sendable(asked) == {ch \in Attempts(asked) : Refreshed(ch).valid /\ ~Inhibited(ch)}

\* The channels of "asked" call transmit; the transport takes the frames of
\* "sent" and refuses the others.
Transmit(asked, sent) ==
  /\ fresh' = [ch \in Channels |-> fresh[ch] \/ ch \in Attempts(asked)]
  /\ age' = [ch \in TChannels |-> IF ch \in sent THEN 0 ELSE age[ch]]
  /\ wire' = {Pdo(ch, Refreshed(ch), cfg[ch].count) : ch \in sent}

Synchronous(ch) == cfg[ch].type \in SyncTypes
SyncDue == {ch \in TChannels : Synchronous(ch) /\ rt[ch].sync + 1 >= cfg[ch].type}

\* on_sync counts first and then transmits; the count starts again whether
\* or not the frame goes out.
OnSync(sent) ==
  /\ operational
  /\ sent \subseteq Sendable(SyncDue)
  /\ Transmit(SyncDue, sent)
  /\ rt' = [ch \in Channels |->
              LET r == IF ch \in Attempts(SyncDue) THEN Refreshed(ch) ELSE rt[ch] IN
              IF ch \in SyncDue THEN [r EXCEPT !.sync = 0]
              ELSE IF ch \in TChannels /\ Synchronous(ch) THEN [r EXCEPT !.sync = @ + 1]
              ELSE r]
  /\ UNCHANGED <<operational, cfg>>

\* Mutant: the event timer has to be met exactly.
EventDueExactly ==
  {ch \in TChannels : /\ cfg[ch].type \in EventTypes /\ cfg[ch].event > 0
                      /\ age[ch] \in {Never, cfg[ch].event}}

EventDue ==
  {ch \in TChannels : /\ cfg[ch].type \in EventTypes /\ cfg[ch].event > 0
                      /\ age[ch] = Never \/ age[ch] >= cfg[ch].event}

Process(sent) ==
  /\ operational
  /\ sent \subseteq Sendable(EventDue)
  /\ Transmit(EventDue, sent)
  /\ rt' = [ch \in Channels |-> IF ch \in Attempts(EventDue) THEN Refreshed(ch) ELSE rt[ch]]
  /\ UNCHANGED <<operational, cfg>>

\* Node::reset_communication
ResetCommunication ==
  /\ cfg' = [ch \in Channels |-> Default(ch)]
  /\ rt' = [ch \in Channels |-> Empty]
  /\ fresh' = [ch \in Channels |-> FALSE]
  /\ age' = [ch \in TChannels |-> Never]
  /\ operational' = FALSE
  /\ wire' = {}

\* Node::enter_state: no PDO state changes with the NMT state.
EnterState(s) ==
  /\ operational' = s
  /\ wire' = {}
  /\ UNCHANGED <<cfg, rt, fresh, age>>

Tick ==
  /\ age' = [ch \in TChannels |-> IF age[ch] < MaxAge THEN age[ch] + 1 ELSE age[ch]]
  /\ wire' = {}
  /\ UNCHANGED <<operational, cfg, rt, fresh>>

Init ==
  /\ operational = FALSE
  /\ cfg = [ch \in Channels |-> Default(ch)]
  /\ rt = [ch \in Channels |-> Empty]
  /\ fresh = [ch \in Channels |-> FALSE]
  /\ age = [ch \in TChannels |-> Never]
  /\ wire = {}

ConfigWrite(ch) ==
  \/ \E enabled \in BOOLEAN, id \in Ids : WriteCobId(ch, enabled, id)
  \/ \E type \in Types : WriteType(ch, type)
  \/ \E time \in Inhibits : WriteInhibit(ch, time)
  \/ \E time \in Timers : WriteEventTimer(ch, time)
  \/ \E n \in 0..MaxMappings + 1 : WriteCount(ch, n)
  \/ \E i \in 1..MaxMappings, word \in Words : WriteMapping(ch, i, word)

Next ==
  \/ \E ch \in Channels : ConfigWrite(ch)
  \/ \E id \in Ids, n \in 0..MaxPayload : Receive(id, n)
  \/ \E sent \in SUBSET TChannels : OnSync(sent) \/ Process(sent)
  \/ ResetCommunication
  \/ \E s \in BOOLEAN : EnterState(s)
  \/ Tick

Spec == Init /\ [][Next]_pdovars

\* A pass of the service loop in which the transport takes the frame of ch.
ProcessSends(ch) == \E sent \in SUBSET TChannels : ch \in sent /\ Process(sent)

\* A SYNC after which the transport takes the frame of ch.
SyncSends(ch) == \E sent \in SUBSET TChannels : ch \in sent /\ OnSync(sent)

\* Time passes, process() is called on every pass of the service loop, the
\* SYNC producer of the network does not stop, and a transmit queue that
\* keeps being asked has room in the end.
Fairness ==
  /\ WF_pdovars(Tick)
  /\ WF_pdovars(\E sent \in SUBSET TChannels : OnSync(sent))
  /\ \A ch \in TChannels : WF_pdovars(ProcessSends(ch)) /\ SF_pdovars(SyncSends(ch))

FairSpec == Spec /\ Fairness

-----------------------------------------------------------------------------
(* Properties.                                                             *)

MapType == [1..MaxMappings -> Words \cup {NoWord}]

CfgType == [enabled : BOOLEAN, id : Ids, type : Types, inhibit : Inhibits \cup {0},
            event : Timers \cup {0}, count : 0..MaxMappings, map : MapType]

RtType == [valid : BOOLEAN, payload : 0..MaxPayload, sync : Nat, keys : MapType]

\* Every variable has its type, and no cached layout is longer than a frame.
TypeOK ==
  /\ operational \in BOOLEAN
  /\ cfg \in [Channels -> CfgType]
  /\ rt \in [Channels -> RtType]
  /\ fresh \in [Channels -> BOOLEAN]
  /\ age \in [TChannels -> 0..Never]

\* Whatever the order of the configuration writes, a mapping that is switched
\* on consists of valid words and fits a frame: the words behind a non-zero
\* count were validated together and cannot change under it.
ActiveMappingValid ==
  \A ch \in Channels : ValidSet(ch, cfg[ch].map, cfg[ch].count)

\* The cached mapping r is the configured one of ch.
Coherent(ch, r) ==
  /\ r.valid = (cfg[ch].count > 0)
  /\ r.valid => r.payload = Total(cfg[ch].map, cfg[ch].count)
  /\ \A i \in 1..cfg[ch].count : r.keys[i] = cfg[ch].map[i]

\* A cached mapping that the code would use without rebuilding it is the
\* configured one.
CacheCoherent == \A ch \in Channels : fresh[ch] => Coherent(ch, rt[ch])

\* A PDO on the bus is laid out as the dictionary says at that moment, though
\* its layout comes from a cache: transmitted whole, applied up to a refusal.
FollowsMapping(p) ==
  LET c == cfg[p.ch] IN
  /\ c.enabled /\ p.id = c.id /\ c.count > 0
  /\ p.payload = Total(c.map, c.count) /\ p.payload <= MaxPayload
  /\ \A i \in DOMAIN p.words : i <= c.count /\ p.words[i] = c.map[i]
  /\ p.ch \in TChannels => DOMAIN p.words = 1..c.count

WireFollowsMapping == [][\A p \in wire' : operational /\ FollowsMapping(p)]_pdovars

\* A channel that stays configured for event-driven transmission keeps
\* transmitting, also when its inhibit time is longer than its event timer.
Armed(ch) ==
  /\ operational /\ cfg[ch].enabled /\ cfg[ch].count > 0
  /\ cfg[ch].type \in EventTypes /\ cfg[ch].event > 0

EventTimerFires == \A ch \in TChannels : <>[]Armed(ch) => []<>(age[ch] = 0)

\* A channel that stays configured for synchronous transmission keeps
\* transmitting while SYNCs arrive, although a SYNC that meets an inhibited
\* channel or a full transmit queue clears its counter for nothing, and
\* whatever count an earlier transmission type has left behind.
ArmedForSync(ch) ==
  operational /\ cfg[ch].enabled /\ cfg[ch].count > 0 /\ Synchronous(ch)

SyncTransmits == \A ch \in TChannels : <>[]ArmedForSync(ch) => []<>(age[ch] = 0)
=============================================================================
