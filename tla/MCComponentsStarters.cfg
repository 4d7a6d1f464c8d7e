SPECIFICATION Spec
CONSTANTS
  None = None
  Torn = Torn
  Invalid = Invalid
  Controls = {"eol"}
  Chains = {";"}
  Fold <- LowerCase
  Registry <- ApprovedCommands
  Pagination <- Page
  StigIds = {"v1", "v2"}
  Clauses = {"notice", "consent"}
  Addresses = {"n1", "w1", "h1", "zero"}
  NoWildcard = "zero"
  MaxFaults = 0
  Processes = {p1, p2}
  Files = {f1, f2}
  Reports = {r1}
  MaxTemporaries = 3
  Phrases = {"s1", "s2"}
  MaxCrashes = 1
  Sources = {"profiles"}
  Evidence = "evidence"
  Current = 3
  MaxRestoreFaults = 2
  Documents <- Licenses
  Questions <- LicenseQuestions
  Canonical <- Normal
  IpAddresses = {"10.0.0.1", " 10.0.0.2"}
  Assessments = {"l2"}
  Tolerance = 1
  Horizon = 2
  MaxLicenseCrashes = 1
  Packages <- StigPackages
  Requests <- StigRequests
  Libraries <- OwnLibraries
  MaxPresses = 4
  Hosts = {"a", "b"}
  Profiles = {"p"}
  Groups = {"g"}
  FileOf <- SharedFile
  NDevices = 2
  Artifacts = {"a1", "a2"}
  MaxScans = 2
  MaxReads = 2
  Parts = {"library"}
INVARIANT
  StartersAreKept
CHECK_DEADLOCK FALSE
