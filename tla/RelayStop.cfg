\* A Responses and an images request that fail, stream, are abandoned or cut by a stop.
SPECIFICATION FairSpec
CONSTANTS
  Requests = {r1, i1}
  Images = {i1}
  Slots = 1
  ImageSlots = 1
  NONE = NONE
CHECK_DEADLOCK FALSE
INVARIANTS OneRecord RecordedStatus OutcomeIsReal UpstreamBounded PermitCoversRecord
PROPERTIES GoneIsReleased StopExits
