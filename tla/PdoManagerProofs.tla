-------------------------- MODULE PdoManagerProofs --------------------------
(***************************************************************************)
(* Theorems about PdoManager, for any channels, mapping words and limits.  *)
(* How long a mapping is (Total) stays opaque: nothing below depends on    *)
(* the sum, only on its being the same sum when the mapping is the same.   *)
(***************************************************************************)
EXTENDS PdoManager, TLAPS

\* The three invariants support each other: a cache that is rebuilt from an
\* active mapping is valid because active mappings are.
IInv == TypeOK /\ ActiveMappingValid /\ CacheCoherent

\* What refresh_mapping returns is the configured mapping, cached or not.
LEMMA RefreshedIsConfigured ==
  ASSUME IInv, NEW ch \in Channels
  PROVE  /\ Refreshed(ch) \in RtType
         /\ Refreshed(ch).sync = rt[ch].sync
         /\ Coherent(ch, Refreshed(ch))
<1> USE PdoConstants DEF IInv, TypeOK
<1>1. CASE fresh[ch]
  BY <1>1 DEF Refreshed, CacheCoherent
<1>2. CASE ~fresh[ch]
  <2> DEFINE c == cfg[ch]
             keys == [i \in 1..MaxMappings |-> IF i <= c.count THEN c.map[i] ELSE rt[ch].keys[i]]
  <2>1. ValidSet(ch, c.map, c.count)
    BY DEF ActiveMappingValid
  <2>2. c \in CfgType /\ rt[ch] \in RtType
    OBVIOUS
  <2>3. keys \in MapType
    BY <2>2 DEF CfgType, RtType, MapType
  <2>4. Refreshed(ch) = [valid |-> c.count > 0,
                         payload |-> IF c.count > 0 THEN Total(c.map, c.count) ELSE 0,
                         sync |-> rt[ch].sync,
                         keys |-> keys]
    BY <1>2, <2>1 DEF Refreshed
  <2>5. c.count > 0 => Total(c.map, c.count) \in 0..MaxPayload
    BY <2>1, <2>2 DEF ValidSet, CfgType
  <2>6. \A i \in 1..c.count : i \in 1..MaxMappings /\ keys[i] = c.map[i]
    BY <2>2 DEF CfgType
  <2> HIDE DEF keys, c
  <2>7. Refreshed(ch) \in RtType
    BY <2>2, <2>3, <2>4, <2>5 DEF RtType, CfgType
  <2>8. /\ Refreshed(ch).sync = rt[ch].sync
        /\ Refreshed(ch).valid = (c.count > 0)
        /\ c.count > 0 => Refreshed(ch).payload = Total(c.map, c.count)
        /\ Refreshed(ch).keys = keys
    BY <2>2, <2>4 DEF RtType
  <2> QED
    BY <2>6, <2>7, <2>8 DEF Coherent, c
<1> QED
  BY <1>1, <1>2

\* A configuration write that keeps the mapping of its channel valid keeps
\* the invariant: it leaves no cache that would be used as it is.
LEMMA ConfigureKeeps ==
  ASSUME IInv, NEW ch \in Channels, NEW c \in CfgType,
         ValidSet(ch, c.map, c.count), Configure(ch, c)
  PROVE  IInv'
<1> USE PdoConstants DEF IInv, Configure
<1>1. TypeOK'
  BY DEF TypeOK
<1>2. ActiveMappingValid'
  BY DEF TypeOK, ActiveMappingValid, ValidSet, ValidWord
<1>3. CacheCoherent'
  BY DEF CacheCoherent
<1> QED
  BY <1>1, <1>2, <1>3

LEMMA ConfigWriteKeeps ==
  ASSUME IInv, NEW ch \in Channels, ConfigWrite(ch)
  PROVE  IInv'
<1> USE PdoConstants
<1> DEFINE c == cfg[ch]
<1>1. c \in CfgType /\ ValidSet(ch, c.map, c.count)
  BY DEF IInv, TypeOK, ActiveMappingValid
<1>2. ASSUME NEW enabled \in BOOLEAN, NEW id \in Ids, WriteCobId(ch, enabled, id)
      PROVE  IInv'
  <2> DEFINE e == [c EXCEPT !.enabled = enabled]
             d == [e EXCEPT !.id = id]
  <2>1. e \in CfgType /\ e.map = c.map /\ e.count = c.count
    BY <1>1 DEF CfgType
  <2> HIDE DEF e
  <2>2. d \in CfgType /\ d.map = c.map /\ d.count = c.count
    BY <2>1 DEF CfgType
  <2> QED
    BY <1>1, <1>2, <2>2, ConfigureKeeps DEF WriteCobId, e
<1>3. ASSUME NEW type \in Types, WriteType(ch, type)
      PROVE  IInv'
  <2> DEFINE d == [c EXCEPT !.type = type]
  <2>1. d \in CfgType /\ d.map = c.map /\ d.count = c.count
    BY <1>1 DEF CfgType
  <2> QED
    BY <1>1, <1>3, <2>1, ConfigureKeeps DEF WriteType
<1>4. ASSUME NEW time \in Inhibits, WriteInhibit(ch, time)
      PROVE  IInv'
  <2> DEFINE d == [c EXCEPT !.inhibit = time]
  <2>1. d \in CfgType /\ d.map = c.map /\ d.count = c.count
    BY <1>1 DEF CfgType
  <2> QED
    BY <1>1, <1>4, <2>1, ConfigureKeeps DEF WriteInhibit
<1>5. ASSUME NEW time \in Timers, WriteEventTimer(ch, time)
      PROVE  IInv'
  <2> DEFINE d == [c EXCEPT !.event = time]
  <2>1. d \in CfgType /\ d.map = c.map /\ d.count = c.count
    BY <1>1 DEF CfgType
  <2> QED
    BY <1>1, <1>5, <2>1, ConfigureKeeps DEF WriteEventTimer
<1>6. ASSUME NEW n \in 0..(MaxMappings + 1), WriteCount(ch, n)
      PROVE  IInv'
  <2> DEFINE d == [c EXCEPT !.count = n]
  <2>1. d \in CfgType /\ d.map = c.map /\ d.count = n
    BY <1>1, <1>6 DEF CfgType, WriteCount
  <2> QED
    BY <1>1, <1>6, <2>1, ConfigureKeeps DEF WriteCount
<1>7. ASSUME NEW i \in 1..MaxMappings, NEW word \in Words, WriteMapping(ch, i, word)
      PROVE  IInv'
  <2> DEFINE d == [c EXCEPT !.map[i] = word]
  <2>1. d \in CfgType /\ d.count = 0
    BY <1>1, <1>7 DEF CfgType, MapType, WriteMapping
  <2>2. ValidSet(ch, d.map, d.count)
    BY <2>1 DEF ValidSet
  <2> QED
    BY <1>7, <2>1, <2>2, ConfigureKeeps DEF WriteMapping
<1> QED
  BY <1>2, <1>3, <1>4, <1>5, <1>6, <1>7 DEF ConfigWrite

\* Using a channel rebuilds its cache at most, and the cache is then the
\* configured mapping.  Only the SYNC counter may differ from what
\* refresh_mapping returns.
LEMMA UseKeeps ==
  ASSUME IInv, UNCHANGED <<operational, cfg>>,
         age' \in [TChannels -> 0..Never],
         NEW used \in SUBSET Channels,
         fresh' = [ch \in Channels |-> fresh[ch] \/ ch \in used],
         rt' \in [Channels -> RtType],
         \A ch \in Channels :
           LET r == IF ch \in used THEN Refreshed(ch) ELSE rt[ch] IN
           rt'[ch].valid = r.valid /\ rt'[ch].payload = r.payload /\ rt'[ch].keys = r.keys
  PROVE  IInv'
<1> USE PdoConstants
<1>1. TypeOK'
  BY DEF IInv, TypeOK
<1>2. ActiveMappingValid'
  BY DEF IInv, ActiveMappingValid, ValidSet, ValidWord
<1>3. ASSUME NEW ch \in Channels, fresh'[ch] PROVE Coherent(ch, rt[ch])'
  <2>1. CASE ch \in used
    BY <2>1, RefreshedIsConfigured DEF Coherent
  <2>2. CASE ch \notin used
    BY <1>3, <2>2 DEF IInv, TypeOK, CacheCoherent, Coherent
  <2> QED
    BY <2>1, <2>2
<1> QED
  BY <1>1, <1>2, <1>3 DEF IInv, CacheCoherent

LEMMA ReceiveKeeps ==
  ASSUME IInv, NEW id \in Ids, NEW n \in 0..MaxPayload, Receive(id, n)
  PROVE  IInv'
<1>1. PICK ch \in Matching(id) : /\ rt' = [rt EXCEPT ![ch] = Refreshed(ch)]
                                 /\ fresh' = [fresh EXCEPT ![ch] = TRUE]
  BY DEF Receive
<1>2. ch \in Channels
  BY DEF Matching, Channels
<1>3. UNCHANGED <<operational, cfg, age>>
  BY DEF Receive
<1>4. Refreshed(ch) \in RtType
  BY <1>2, RefreshedIsConfigured
<1>5. fresh' = [k \in Channels |-> fresh[k] \/ k \in {ch}]
  BY <1>1, <1>2 DEF IInv, TypeOK
<1>6. rt' \in [Channels -> RtType]
  BY <1>1, <1>4 DEF IInv, TypeOK
<1>7. \A k \in Channels : rt'[k] = IF k \in {ch} THEN Refreshed(k) ELSE rt[k]
  BY <1>1, <1>2 DEF IInv, TypeOK
<1>8. age' \in [TChannels -> 0..Never]
  BY <1>3 DEF IInv, TypeOK
<1>9. {ch} \in SUBSET Channels
  BY <1>2
<1> QED
  BY <1>3, <1>5, <1>6, <1>7, <1>8, <1>9, UseKeeps

LEMMA TransmitTypes ==
  ASSUME IInv, NEW asked \in SUBSET TChannels, NEW sent, Transmit(asked, sent)
  PROVE  /\ age' \in [TChannels -> 0..Never]
         /\ fresh' = [ch \in Channels |-> fresh[ch] \/ ch \in Attempts(asked)]
         /\ Attempts(asked) \in SUBSET Channels
<1>1. age \in [TChannels -> 0..Never] /\ 0 \in 0..Never
  BY PdoConstants DEF IInv, TypeOK, Never
<1>2. age' \in [TChannels -> 0..Never]
  BY <1>1 DEF Transmit
<1> QED
  BY <1>2 DEF Transmit, Attempts, Channels

LEMMA OnSyncKeeps ==
  ASSUME IInv, NEW sent, OnSync(sent)
  PROVE  IInv'
<1> DEFINE used == Attempts(SyncDue)
           base(ch) == IF ch \in used THEN Refreshed(ch) ELSE rt[ch]
<1>1. SyncDue \in SUBSET TChannels
  BY DEF SyncDue
<1>2. /\ age' \in [TChannels -> 0..Never]
      /\ fresh' = [ch \in Channels |-> fresh[ch] \/ ch \in used]
      /\ used \in SUBSET Channels
  BY <1>1, TransmitTypes DEF OnSync
<1>3. ASSUME NEW ch \in Channels PROVE base(ch) \in RtType
  BY RefreshedIsConfigured DEF IInv, TypeOK
<1>4. ASSUME NEW ch \in Channels
      PROVE  \E m \in Nat : rt'[ch] = [base(ch) EXCEPT !.sync = m]
  <2>1. rt'[ch] = IF ch \in SyncDue THEN [base(ch) EXCEPT !.sync = 0]
                  ELSE IF ch \in TChannels /\ Synchronous(ch)
                       THEN [base(ch) EXCEPT !.sync = @ + 1]
                       ELSE base(ch)
    BY DEF OnSync
  <2>2. base(ch).sync \in Nat /\ base(ch) = [base(ch) EXCEPT !.sync = base(ch).sync]
    BY <1>3 DEF RtType
  <2> HIDE DEF base
  <2> QED
    BY <2>1, <2>2
<1> HIDE DEF base
<1>5. ASSUME NEW ch \in Channels
      PROVE  /\ rt'[ch] \in RtType
             /\ rt'[ch].valid = base(ch).valid
             /\ rt'[ch].payload = base(ch).payload
             /\ rt'[ch].keys = base(ch).keys
  BY <1>3, <1>4 DEF RtType
<1>6. rt' \in [Channels -> RtType]
  BY <1>5 DEF OnSync
<1>7. UNCHANGED <<operational, cfg>>
  BY DEF OnSync
<1> HIDE DEF used
<1> QED
  BY <1>2, <1>5, <1>6, <1>7, UseKeeps DEF base

LEMMA ProcessKeeps ==
  ASSUME IInv, NEW sent, Process(sent)
  PROVE  IInv'
<1> DEFINE used == Attempts(EventDue)
<1>1. EventDue \in SUBSET TChannels
  BY DEF EventDue
<1>2. /\ age' \in [TChannels -> 0..Never]
      /\ fresh' = [ch \in Channels |-> fresh[ch] \/ ch \in used]
      /\ used \in SUBSET Channels
  BY <1>1, TransmitTypes DEF Process
<1>3. rt' \in [Channels -> RtType]
  BY RefreshedIsConfigured DEF IInv, TypeOK, Process
<1>4. /\ UNCHANGED <<operational, cfg>>
      /\ \A ch \in Channels : rt'[ch] = IF ch \in used THEN Refreshed(ch) ELSE rt[ch]
  BY DEF Process
<1> HIDE DEF used
<1> QED
  BY <1>2, <1>3, <1>4, UseKeeps

LEMMA OthersKeep ==
  ASSUME IInv
  PROVE  /\ ResetCommunication => IInv'
         /\ \A s \in BOOLEAN : EnterState(s) => IInv'
         /\ Tick => IInv'
         /\ UNCHANGED pdovars => IInv'
<1> USE PdoConstants
<1>1. CASE ResetCommunication
  <2>1. \A ch \in Channels : Default(ch) \in CfgType /\ Default(ch).count = 0
    BY DEF Default, CfgType, MapType, Types
  <2>2. Empty \in RtType
    BY DEF Empty, RtType, MapType
  <2>3. Never \in 0..Never
    BY DEF Never
  <2>4. TypeOK'
    BY <1>1, <2>1, <2>2, <2>3 DEF ResetCommunication, TypeOK
  <2>5. ActiveMappingValid' /\ CacheCoherent'
    BY <1>1, <2>1 DEF ResetCommunication, ActiveMappingValid, CacheCoherent, ValidSet
  <2> QED
    BY <2>4, <2>5 DEF IInv
<1>2. ASSUME NEW s \in BOOLEAN, EnterState(s) PROVE IInv'
  BY <1>2 DEF EnterState, IInv, TypeOK, ActiveMappingValid, CacheCoherent, ValidSet, ValidWord,
              Coherent
<1>3. CASE Tick
  <2>1. TypeOK'
    BY <1>3 DEF Tick, IInv, TypeOK, Never
  <2>2. ActiveMappingValid' /\ CacheCoherent'
    BY <1>3 DEF Tick, IInv, ActiveMappingValid, CacheCoherent, ValidSet, ValidWord, Coherent
  <2> QED
    BY <2>1, <2>2 DEF IInv
<1>4. CASE UNCHANGED pdovars
  BY <1>4 DEF pdovars, IInv, TypeOK, ActiveMappingValid, CacheCoherent, ValidSet, ValidWord,
              Coherent
<1> QED
  BY <1>1, <1>2, <1>3, <1>4

LEMMA InitHolds == Init => IInv
<1> SUFFICES ASSUME Init PROVE IInv
  OBVIOUS
<1> USE PdoConstants
<1>1. \A ch \in Channels : Default(ch) \in CfgType /\ Default(ch).count = 0
  BY DEF Default, CfgType, MapType, Types
<1>2. Empty \in RtType
  BY DEF Empty, RtType, MapType
<1>3. Never \in 0..Never
  BY DEF Never
<1>4. TypeOK
  BY <1>1, <1>2, <1>3 DEF Init, TypeOK
<1>5. ActiveMappingValid /\ CacheCoherent
  BY <1>1 DEF Init, ActiveMappingValid, CacheCoherent, ValidSet
<1> QED
  BY <1>4, <1>5 DEF IInv

LEMMA StepKeeps == IInv /\ [Next]_pdovars => IInv'
<1> SUFFICES ASSUME IInv, [Next]_pdovars PROVE IInv'
  OBVIOUS
<1>1. ASSUME NEW ch \in Channels, ConfigWrite(ch) PROVE IInv'
  BY <1>1, ConfigWriteKeeps
<1>2. ASSUME NEW id \in Ids, NEW n \in 0..MaxPayload, Receive(id, n) PROVE IInv'
  BY <1>2, ReceiveKeeps
<1>3. ASSUME NEW sent, OnSync(sent) PROVE IInv'
  BY <1>3, OnSyncKeeps
<1>4. ASSUME NEW sent, Process(sent) PROVE IInv'
  BY <1>4, ProcessKeeps
<1>5. CASE ResetCommunication
  BY <1>5, OthersKeep
<1>6. ASSUME NEW s \in BOOLEAN, EnterState(s) PROVE IInv'
  BY <1>6, OthersKeep
<1>7. CASE Tick \/ UNCHANGED pdovars
  BY <1>7, OthersKeep
<1> QED
  BY <1>1, <1>2, <1>3, <1>4, <1>5, <1>6, <1>7 DEF Next

LEMMA Invariance == Spec => []IInv
BY InitHolds, StepKeeps, PTL DEF Spec

\* Every variable keeps its type; a cached layout never exceeds a frame.
THEOREM TypeCorrect == Spec => []TypeOK
<1>1. IInv => TypeOK
  BY DEF IInv
<1> QED
  BY <1>1, Invariance, PTL

\* No order of configuration writes, resets and NMT changes leaves a channel
\* with an active mapping that was not validated as a whole.
THEOREM MappingsStayValid == Spec => []ActiveMappingValid
<1>1. IInv => ActiveMappingValid
  BY DEF IInv
<1> QED
  BY <1>1, Invariance, PTL

\* A mapping that is used without being rebuilt is the configured one.
THEOREM CachesAreCoherent == Spec => []CacheCoherent
<1>1. IInv => CacheCoherent
  BY DEF IInv
<1> QED
  BY <1>1, Invariance, PTL

-----------------------------------------------------------------------------
LEMMA PdoFollows ==
  ASSUME IInv, NEW ch \in Channels, cfg[ch].enabled, Refreshed(ch).valid,
         NEW k \in 0..cfg[ch].count, ch \in TChannels => k = cfg[ch].count
  PROVE  FollowsMapping(Pdo(ch, Refreshed(ch), k))
<1> DEFINE c == cfg[ch]
           r == Refreshed(ch)
           p == Pdo(ch, r, k)
<1>1. c.count \in 0..MaxMappings /\ ValidSet(ch, c.map, c.count)
  BY DEF IInv, TypeOK, CfgType, ActiveMappingValid
<1>2. Coherent(ch, r)
  BY RefreshedIsConfigured
<1>3. c.count > 0 /\ r.payload = Total(c.map, c.count)
  BY <1>2 DEF Coherent
<1>4. r.payload \in 0..MaxPayload
  BY RefreshedIsConfigured DEF RtType
<1>5. \A i \in 1..k : i \in 1..c.count /\ r.keys[i] = c.map[i]
  BY PdoConstants, <1>1, <1>2 DEF Coherent
<1>6. /\ p.ch = ch /\ p.id = c.id /\ p.payload = r.payload
      /\ p.words = [i \in 1..k |-> r.keys[i]]
  BY DEF Pdo
<1>7. p.payload <= MaxPayload
  BY PdoConstants, <1>4, <1>6
<1>8. \A i \in DOMAIN p.words : i <= c.count /\ p.words[i] = c.map[i]
  BY PdoConstants, <1>1, <1>5, <1>6
<1> HIDE DEF r, p
<1> QED
  BY <1>3, <1>6, <1>7, <1>8 DEF FollowsMapping, p, r

LEMMA TransmitFollows ==
  ASSUME IInv, NEW asked \in SUBSET TChannels, NEW sent \in SUBSET Sendable(asked),
         Transmit(asked, sent), NEW p \in wire'
  PROVE  FollowsMapping(p)
<1>1. PICK ch \in sent : p = Pdo(ch, Refreshed(ch), cfg[ch].count)
  BY DEF Transmit
<1>2. ch \in Channels /\ cfg[ch].enabled /\ Refreshed(ch).valid
  BY DEF Sendable, Attempts, Channels
<1>3. cfg[ch].count \in 0..cfg[ch].count
  BY <1>2, PdoConstants DEF IInv, TypeOK, CfgType
<1> QED
  BY <1>1, <1>2, <1>3, PdoFollows

\* A PDO on the wire is laid out as the dictionary says when it is sent or
\* applied, and only an operational node sends or applies one.
THEOREM WireIsMapped == Spec => WireFollowsMapping
<1>1. ASSUME IInv, [Next]_pdovars
      PROVE  [\A p \in wire' : operational /\ FollowsMapping(p)]_pdovars
  <2>1. ASSUME NEW ch \in Channels, ConfigWrite(ch) PROVE wire' = {}
    BY <2>1 DEF ConfigWrite, WriteCobId, WriteType, WriteInhibit, WriteEventTimer, WriteCount,
                WriteMapping, Configure
  <2>2. ASSUME NEW id \in Ids, NEW n \in 0..MaxPayload, Receive(id, n), NEW p \in wire'
        PROVE  operational /\ FollowsMapping(p)
    <3>1. operational
      BY <2>2 DEF Receive
    <3>2. PICK ch \in Matching(id) : \E k \in 0..cfg[ch].count :
                 Refreshed(ch).valid /\ p = Pdo(ch, Refreshed(ch), k)
      BY <2>2 DEF Receive
    <3>3. PICK k \in 0..cfg[ch].count : Refreshed(ch).valid /\ p = Pdo(ch, Refreshed(ch), k)
      BY <3>2
    <3>4. ch \in Channels /\ ch \notin TChannels /\ cfg[ch].enabled
      BY PdoConstants DEF Matching, Channels
    <3> QED
      BY <1>1, <3>1, <3>3, <3>4, PdoFollows
  <2>3. ASSUME NEW sent, OnSync(sent), NEW p \in wire'
        PROVE  operational /\ FollowsMapping(p)
    <3>1. SyncDue \in SUBSET TChannels
      BY DEF SyncDue
    <3> QED
      BY <1>1, <2>3, <3>1, TransmitFollows DEF OnSync
  <2>4. ASSUME NEW sent, Process(sent), NEW p \in wire'
        PROVE  operational /\ FollowsMapping(p)
    <3>1. EventDue \in SUBSET TChannels
      BY DEF EventDue
    <3> QED
      BY <1>1, <2>4, <3>1, TransmitFollows DEF Process
  <2>5. CASE ResetCommunication \/ (\E s \in BOOLEAN : EnterState(s)) \/ Tick
    BY <2>5 DEF ResetCommunication, EnterState, Tick
  <2> QED
    BY <1>1, <2>1, <2>2, <2>3, <2>4, <2>5 DEF Next
<1> QED
  BY <1>1, Invariance, PTL DEF Spec, WireFollowsMapping
=============================================================================
