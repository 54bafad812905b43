SPECIFICATION Spec
CONSTANTS
  t1 = t1
  t2 = t2
  t3 = t3
  f = f
  g = g
  c1 = c1
  c2 = c2
  c3 = c3
  area = area
  loose = loose
  up = up
  down = down
  None = None
  Us = Us
  Bases = {f, g}
  Areas = {area, loose}
  Links = {up, down}
  Tics = {t1, t2, t3}
  Contents = {c1, c2, c3}
  BaseOf <- SameNameFiles
  LastSuffix = 1
  Setups <- BusySetups
INVARIANTS
  TransitSent
