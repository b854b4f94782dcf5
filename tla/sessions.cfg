CONSTANTS
  Caller = {c1, c2}
  Handler = {h1, h2}
  NToken = 3
SPECIFICATION FairSpec
INVARIANTS TypeOK TrafficKeepsSession OneLiveToken
PROPERTIES OverStaysOver CallersAnswered BootEnds
