SPECIFICATION FairPipeSpec
CONSTANTS
  p1 = p1
  p2 = p2
  p3 = p3
  Procs = {p1, p2}
  First = p1
  PIPESIZE = 2
  Modulus = 4
  NOFILE = 2
  MaxChunk = 3
  MaxBytes = 5
INVARIANTS NoLostWakeup NoUseAfterFree OpenWhileHeld
PROPERTIES ImplementsChannel EofIsFinal BlockedReturns
