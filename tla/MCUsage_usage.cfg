\* Two roots, one after the other, while paths come, go and are replaced.
CONSTANTS
  Workspaces = 2
  Paths = {"root", "d", "f"}
  Root = "root"
  In <- Tree
  Above <- Ancestors
  Unreadable = {"f"}
  Probes = {"path", "btrfs"}
SPECIFICATION FairSpec
INVARIANTS TypeOK ChargedForWhatIsThere FailsForAReason
PROPERTIES ReportsAreMade
