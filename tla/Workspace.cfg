SPECIFICATION Spec
CONSTANTS
  Parts = {"hierarchy", "layout", "worktrees", "directories"}
  MaxPanes = 3
  MaxProjects = 2
  MaxTabs = 3
  MaxTiles = 5
  MaxLeaves = 3
  MaxId = 3
  MaxJobs = 2
  Paths = {w1, w2}
SYMMETRY Symmetry
INVARIANTS
  HierarchyIsSound
  FocusIsStable
  ScreenIsCovered
  WorktreesAgree
PROPERTIES
  WorkIsProtected
