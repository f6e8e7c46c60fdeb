SPECIFICATION McSpec
CONSTANTS
  Entries <- McEntries
  MaxEntries = 2
  Raw = {0, 3, 6, 9, 10, 15}
  MaxRaw = 4
  Numbers <- McNumbers
  Wanted <- McWanted
  Addresses <- McAddresses
  MaxTag = 3
  MaxBody = 22
  Labels <- McLabels
  Names <- McNames
  DomainGroups <- McDomainGroups
  Blocks <- McBlocks
  MaxGroups = 3
  PolicyOrders <- McPolicyOrders
  Domains <- McDomains
  NoFile = NoFile
INVARIANTS
  DecodeIsExact
  ReadersAgree
  VarintIsExact
  AddressGoesToFirst
  WarningsAreConflicts
  TargetsAgree
PROPERTY
  AnswersMoveWithTheirRules
CHECK_DEADLOCK FALSE
