CONSTANTS
  Lo = Lo
  Hi = Hi
  None = None
  MaxEndpoints <- OneEach
SPECIFICATION FairSpec
PROPERTY DestructorReturns
CHECK_DEADLOCK FALSE
