SPECIFICATION FairSpec
CONSTANTS
  g1 = g1
  g2 = g2
  Groups = {g1, g2}
  PublicGroup = {g2}
  NoGroup = NoGroup
  MaxLevel = 1
  Setups <- MCSetups
  Mails <- MCMails
  MaxMail = 3
  MaxCrashes = 1
INVARIANTS
  AccessExact
  HandledOnce
  Obeyed
PROPERTIES
  RelaxingRevokesNothing
  Answered
