SPECIFICATION Spec
CONSTANTS
  NoValue = NoValue
  MaxHops = 4
  MaxList = 6
  Addresses <- MCAddresses
  HsAddress <- MCHsAddress
  Sizes = {1, 2}
  Lacking <- MayLack
  Strange <- AnyStrange
  Sighted <- AnySighted
  Fsc87 = {3}
  NoCrcArea = {2}
  Damage = TRUE
INVARIANTS
  TypeOK
  WrittenIsRead
  ContentKept
  ListIsSet
  SortCanonical
PROPERTIES
  DamageStops
CHECK_DEADLOCK FALSE
