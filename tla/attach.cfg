\* What attached clients see, and whether a shutdown ends, on either kind of Python.
SPECIFICATION FairSpec
CONSTANTS
  Jobs <- OneJob
  Clients <- TwoClients
  None = None
  Follows <- Both
  MaxOutput <- Outputs
  MaxStops = 2
INVARIANTS
  TypeOK
  StreamWhole
PROPERTIES
  StreamEnds
  ShutdownEnds
