SPECIFICATION Spec
CONSTANTS
  kept = kept
  renamed = renamed
  through = through
  plain = plain
  l1 = l1
  l2 = l2
  c1 = c1
  c2 = c2
  c3 = c3
  None = None
  Areas = {kept, renamed, through, plain}
  f = f
  Bases = {f}
  Contents = {c1, c2, c3}
  Links = {l1, l2}
  AltLimit = 3
  Setups <- AllSetups
INVARIANTS
  ProtectedMatch
  CleanKeepsUnsent
  LeftHoldsUpNothing
PROPERTIES
  RenameKeeps
