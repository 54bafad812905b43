SPECIFICATION Spec
CONSTANTS
  NoJob = NoJob
  f1 = f1
  f2 = f2
  Nodes = {1, 2, 3, 4}
  Addr <- AkaAddr
  Owner <- OwnerOf
  UseAka <- UseMain
  OurAka <- AkaOur
  Down <- AkaDown
  Export <- AkaDown
  Import <- AkaImport
  Files = {f1}
  Hatchers = {1}
  NoReplace = {2}
  MaxCopies = 2
  Faults = {"crash", "lose", "repeat", "send", "foreign"}
INVARIANTS
  NoReturn
CHECK_DEADLOCK FALSE
