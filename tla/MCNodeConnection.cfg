CONSTANTS
  Lo = Lo
  Hi = Hi
  None = None
  MaxEndpoints <- OneEach
SPECIFICATION FairSpec
INVARIANTS
  TypeOK
  FromGreater
  Agreed
  NoPeerReplaced
PROPERTY MessageSent
CHECK_DEADLOCK FALSE
