SPECIFICATION FairSpec
CONSTANTS
  f1 = f1
  f2 = f2
  l1 = l1
  l2 = l2
  r1 = r1
  r2 = r2
  Mailer = Mailer
  None = None
  Files = {f1}
  Links = {l1, l2}
  FileBox = {l2}
  Runs = {r1, r2}
  UseLockFile = TRUE
  Faults = {"config"}
PROPERTIES
  Delivered
