\* A local and a remote decision, two processes, one reviewer: everything that
\* can happen between the transactions of an execution, crashes and recovery
\* included, with exact checkpoints, under the fairness of a process that has
\* reserved.
SPECIFICATION FairSpec
CONSTANTS
  ann = ann
  sam = sam
  localTool = localTool
  remoteTool = remoteTool
  None = None
  Human = {sam}
  Decision = {localTool, remoteTool}
  Proc = {p1, p2}
  Build = {b1}
  Role = {"admin", "analyst", "supervisor"}
  Remote = {remoteTool}
  RoleGroups <- OnePersonGroups
  RoleChoices <- StaffChoices
  InitialRoles <- StaffRoles
  Creator = sam
  MaxRevision = 0
  LateFsyncError = FALSE
INVARIANTS
  AtMostOnce
  OneOwner
  OutcomeIsHonest
PROPERTIES
  WorkIsWitnessed
  ImplementsSingleUse
  DispatchIsReleased
\* Everything may stop once both ledgers are out of service.
CHECK_DEADLOCK FALSE
