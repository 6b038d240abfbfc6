CONSTANTS
  MaxObj = 4
  MAX_STEPS = 200
  MAX_CHOICES = 1
  IntMax = 7
  LongMax = 127
  TooLarge = {"make", "large", "act", "fill"}
  Programs <- MCPrograms
  Heaps <- MCHeaps
SPECIFICATION Spec
CHECK_DEADLOCK FALSE
INVARIANTS
  AnalysesHaveSettled
  AccessesAreLive
  OutcomeIsJava
  BalancedAtReturn
  BorrowsStayAlive
  NothingDangles
  UncheckedInBounds
  NoCycleWithoutCollector
PROPERTY EndsAsInJava
