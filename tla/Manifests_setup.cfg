SPECIFICATION ManifestSpec
CONSTANTS
  MaxEdits = 2
  MaxSaves = 1
  MaxVariables = 1
  MaxLinks = 1
INVARIANT CompatibleJustApplies
CHECK_DEADLOCK FALSE
