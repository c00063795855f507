SPECIFICATION FairSpec
CONSTANTS
  Drive = {d1, d2}
  Group = {"one", "all", "bad"}
  None = None
  GroupOrder <- MCGroupOrder
  NodeOf <- MCNodeOf
  DriveField <- MCDriveField
  FieldValues <- MCFieldValues
  MatchFields <- MCMatchFields
  NumberDrivesPerNode <- MCNumber
  DrivesAtStart = {d1}
  GroupsAtStart = {{"one"}, {"all"}, {"bad"}}
  MaxChanges = 2
INVARIANTS NumberRespected
PROPERTIES LabelsSettle DeletedStorageGroupGoes
CHECK_DEADLOCK FALSE
