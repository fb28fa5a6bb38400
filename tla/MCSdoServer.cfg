CONSTANTS
  node_id = node_id
  clock = clock
  gain = gain
  key = key
  Unknown = Unknown
  NoKey = NoKey
  Objects <- MCObjects
  Size <- MCSize
  Readable <- MCReadable
  Writable <- MCWritable
  Refused <- MCRefused
  Local <- MCLocal
  Byte = {0, 1}
  Capacity = 5
  ExpeditedBytes = 1
  SegmentBytes = 2
  Timeout = 1
  AnnouncedSizes = {1, 5, 6}
  NotIndicated = NotIndicated

SPECIFICATION FairSpec

INVARIANT SessionCoherent
INVARIANT ToggleCountsSegments
INVARIANT HookGuardsStorage
PROPERTY TransferEnds
PROPERTY ImplementsTransfer
