SPECIFICATION FairSpec
CONSTANTS
  p1 = p1
  p2 = p2
  Proc <- MCProc
  NoProc = NoProc
  Min = 10
  Max = 13
  Input <- MCInput
  NotV4 = NotV4
PROPERTIES AnswersAreRight SearchTerminates ImplementsAddressPool
