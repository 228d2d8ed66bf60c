CONSTANTS
  Clicks = 2
  Reqs <- Requests
  Families = {}
  Profile = "profile"
  Empty = Empty
  Unread = Unread
  Overlap = 2
  MaxCrashes = 0
  Undecodable = FALSE
  MaxPolls = 1
  MaxLoads = 2
  MaxReloads = 1
SPECIFICATION FairDashSpec
PROPERTIES RevealIsFresh ClickIsAnswered PageCatchesUp
