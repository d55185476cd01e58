SPECIFICATION Spec
CONSTANTS
  d = d
  p = p
  Turns = {t1}
  External = {x1}
  Attachments <- AllAttachments
  Buses <- AllBuses
  DynNames = {d}
  DepNames = {d, p}
  Documents <- TwoDocuments
  MaxGen = 2
  MaxInst = 2
INVARIANTS TypeOK AttachmentsSurviveReload SettledRuntimeIsConsistent InstancesAreOwned
PROPERTY GenerationsAreReleased
CHECK_DEADLOCK FALSE
