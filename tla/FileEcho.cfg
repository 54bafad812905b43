SPECIFICATION FairSpec
CONSTANTS
  NoJob = NoJob
  f1 = f1
  f2 = f2
  Nodes = {1, 2, 3, 4}
  Addr <- CutAddr
  Owner <- OwnerOf
  UseAka <- UseMain
  OurAka <- CutOur
  Down <- CutDown
  Export <- CutDown
  Import <- CutDown
  Files = {f1, f2}
  Hatchers = {1, 2, 4}
  NoReplace = {}
  MaxCopies = 2
  Faults = {}
INVARIANTS
  SeenByTruthful
  NoDuplicate
PROPERTIES
  ReachesAll
  Quiet
CHECK_DEADLOCK FALSE
