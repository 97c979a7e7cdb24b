\* Streams of up to two events in up to three chunks and buffered images, with every interruption.
SPECIFICATION Spec
CONSTANTS
  LF = LF
  CR = CR
  BAD = BAD
  DATA = DATA
  DONE = DONE
  NONE = NONE
  NULL = NULL
  ODD = ODD
  Documents <- MCDocuments
  Bodies <- MCBodies
  ImageBodies <- MCImageBodies
  Images <- MCImages
  EventLimit = 5
  ResponseLimit = 4
  ErrorLimit = 2
  PieceSize = 2
  MaxChunks = 3
  Capacity = 1
CHECK_DEADLOCK FALSE
INVARIANTS TypeOK ObservedIsBody GivesUpForCause CompletedIsWhole RelayedUnchanged OnlyCheckedImages ImageOutcomeFits
PROPERTIES TaskOfLifecycle
