CONSTANTS
  r1 = r1
  r2 = r2
  r3 = r3
  Reqs = {r1, r2, r3}
  Families = {"interactive"}
  Profile = "profile"
  Empty = Empty
  Overlap = 2
  MaxCrashes = 1
  Undecodable = TRUE
SPECIFICATION FairRunSpec
INVARIANTS OneOrchestrator StatusIsOfOneRun
PROPERTIES ImplementsJobSlot RunEnds
