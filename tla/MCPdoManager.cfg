CONSTANTS
  position = position
  status = status
  setpoint = setpoint
  NoWord = NoWord
  RChannels = {1}
  TChannels = {5}
  Words <- MCWords
  Bytes <- MCBytes
  RxMappable = {setpoint, status}
  TxMappable = {position, status}
  Vetoing = {setpoint}
  MaxMappings = 2
  MaxPayload = 3
  Ids = {1, 2}
  DefaultId <- MCDefaultId
  SyncTypes = {1, 2}
  OtherTypes = {}
  EventTypes = {255}
  Inhibits = {0, 2}
  Timers = {0, 1}
  MaxAge = 2

SPECIFICATION MCSpec

INVARIANT ActiveMappingValid
INVARIANT CacheCoherent
PROPERTY WireFollowsMapping
PROPERTY EventTimerFires
PROPERTY SyncTransmits
