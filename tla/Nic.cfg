SPECIFICATION FairSpec
CONSTANTS
  RX_CELLS = 3
  TX_SLOTS = 2
  QUEUE_SIZE = 2
  Batch = 2
  Timeout = 2
  Sizes = {1, 2}
  MaxEvents = 5
INVARIANTS BuffersSound ResultsTrue FramesInOrder
PROPERTIES Flows
