SPECIFICATION FairSpec
CONSTANTS
  N = 3
  Transfers <- MCTransfers
  Data = {"a", "b"}
  Torn = Torn
  None = None
  IODEV_MAX_CHUNK_SECTORS = 2
  META_WRITE_RETRIES = 2
  PiQueueLen = 1
INVARIANTS TypeOK OneTokenHolder
PROPERTIES SectorStoreSpec CallsReturn
