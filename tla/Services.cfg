SPECIFICATION Spec
CONSTANTS
  Parts = {"hooks", "providers", "modal", "modals", "peers", "config", "turns", "logged",
           "lives", "moves"}
  MaxPanes = 3
  MaxProjects = 2
  MaxTabs = 3
  MaxTiles = 5
  MaxLeaves = 3
  MaxId = 3
  MaxJobs = 2
  Paths = {w1, w2}
INVARIANTS
  
  
  
  WorkspacesAreKept
CHECK_DEADLOCK FALSE
