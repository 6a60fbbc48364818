\* Either one remote decision under the two-person policy or one local decision
\* that needs one review and can get two: everything that can happen to its
\* reviewers, its release and its lifetime, reviews that come after it is
\* consumed; a checkpoint may be published although the caller is told it failed.
SPECIFICATION Spec
CONSTRAINT OneProposed
CONSTANTS
  ann = ann
  sam = sam
  localTool = localTool
  remoteTool = remoteTool
  None = None
  Human = {ann, sam}
  Decision = {localTool, remoteTool}
  Proc = {p1}
  Build = {b1, b2}
  Role = {"admin", "analyst", "supervisor"}
  Remote = {remoteTool}
  RoleGroups <- ToolGroups
  RoleChoices <- StaffChoices
  InitialRoles <- StaffRoles
  Creator = ann
  MaxRevision = 1
  LateFsyncError = TRUE
INVARIANTS
  IndependentReview
  StateMatchesHistory
PROPERTIES
  SpoiledStaysUndone
  ReviewedUnderOneIdentity
