SPECIFICATION FairSpec
CONSTANTS
  old = old
  new = new
  bare = bare
  Instances = {old, new, bare}
  Versions = {1, 2, 3}
  Files <- MCFiles
  NoDirectory = {bare}
  Statements <- MCStatements
  Creates <- MCCreates
  Implicit <- MCImplicit
  MaxCalls = 4
  MaxFaults = 2
INVARIANTS TypeOK AllOrNothing RecordedIsComplete InOrder NilMeansApplied
PROPERTIES CallsReturn
CHECK_DEADLOCK FALSE
