SPECIFICATION Spec
CONSTANTS
  fileA = fileA
  fileB = fileB
  tmpFile = tmpFile
  x = x
  y = y
  seeB = seeB
  Files = {fileA, fileB, tmpFile}
  LongNames = {fileB, tmpFile}
  Texts <- MCTexts
  FirstWord <- MCFirstWord
  Runs = {1, 2}
  Areas <- MCAreas
  Home = "home"
  FileOrder <- MCFileOrder
  Size <- MCSize
  Tmp = tmpFile
  Setups <- MCSetups
  Word = 1048580
  MaxFaults = 1
INVARIANTS
  TypeOK
  DescriptionsKept
  ListedRight
  NothingUnannounced
  PostedRight
