CONSTANTS
  PackageSeq <- MCPackages
  EdgeSeq <- MCEdges
  Order <- MCOrder
  Later <- MCLater
  Workspaces <- MCWorkspaces
SPECIFICATION FairSpec
INVARIANTS TypeOK PlanIsLeast BumpedOnce TreeAgrees ResumeCoversOwed OutwardOrder
PROPERTY RetriesFinish
CHECK_DEADLOCK FALSE
