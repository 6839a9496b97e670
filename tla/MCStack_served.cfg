SPECIFICATION Spec
CONSTANTS
  Dirs <- MCDirs
  Profiles <- MCProfiles
  Keys <- MCKeys
  Values <- MCValues
  KeyOf <- MCKeyOf
  Fields <- MCFields
  Default <- MCDefault
  Parses <- MCParses
  Broken = Broken
  Workers = {w1, w2}
  Applications <- MCApplications
  Disks <- MCDisks
  Linked <- MCLinked
  DialectOf <- MCDialects
  Number <- MCNumber
  MaxDepth = 2
  MaxStarts = 2
  MaxRequests = 2
  MaxFaults <- MCFaults
  None = None
INVARIANTS TypeOK DatabaseServed HandlesAccounted AnswersHonest
SYMMETRY Symmetry
CHECK_DEADLOCK FALSE
