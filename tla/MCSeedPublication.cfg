SPECIFICATION Spec
CONSTANTS
  owner = owner
  mate = mate
  a = a
  b = b
  Machines <- MCMachines
  Publisher = owner
  Inventory <- MCInventory
  Texts <- MCTexts
  NoText = NoText
  NoOne = NoOne
  MaxPeers = 2
  MaxRevision = 2
  MaxCommands = 5
  MaxFaults = 1
INVARIANTS OnlyApproved StoppedIsSilent RanksAgree
PROPERTIES SeedComesBack
CHECK_DEADLOCK FALSE
