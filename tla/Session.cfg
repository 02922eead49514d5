SPECIFICATION Spec
CONSTANTS
  Jobs = {j1, j2, j3}
  Cap = 2
INVARIANTS
  TypeOK
  PermitsConserved
  DrainIsComplete
  GracefulShutdownAnswers
PROPERTIES
  OnlyFullOrStoppingTurnsAway
  SlotsComeBack
  ShutdownEndsSession
  ImplementsService
\* The session ends, and nothing of it is left to do.
CHECK_DEADLOCK FALSE
