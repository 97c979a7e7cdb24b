\* A stop during which every connection drains.
SPECIFICATION FairSpec
CONSTANTS
  Requests = {r1, i1}
  Images = {i1}
  Slots = 2
  ImageSlots = 1
  NONE = NONE
CHECK_DEADLOCK FALSE
PROPERTIES DrainKeepsRecords
