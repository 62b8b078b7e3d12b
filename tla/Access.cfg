SPECIFICATION AccessSpec
CONSTANTS
  User = {u1, u2}
  Owner = u1
  Invitation = {i1, i2}
  Handler = {h1, h2}
  RequestRole = {"MANAGER"}
  MaxVersion = 2
  MaxTries = 2
  Object = {o1, o2, o3}
  FileHandler = {h1, h2}
  Size <- OneUnit
  MaxFile = 1
  MaxTotal = 1
  StartTake = 1 SweepTake = 1 Concurrency = 1 MaxAttempts = 1 MaxCrashes = 0
SYMMETRY Symmetry
INVARIANTS OnePending NoPendingForMember MembershipGranted StalePageExplained
INVARIANTS ListedHasContent NothingForgotten OverrunBounded
PROPERTIES RevokedStaysRevoked
