CONSTANTS
  NSheet = 3
  Replica = {w1, w2}
  MaxAttempts = 2
  BatchSize = 2
  StaleLock = 2
  RunTimeout = 1
SPECIFICATION FairSpec
INVARIANTS LockHeld EnteredOnce
PROPERTIES CaptureSpec SheetsEnd
