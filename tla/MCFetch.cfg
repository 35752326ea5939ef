\* One fetch over six hops, every end of it handed to the robots gate.
CONSTANTS
  DnsName = {"name", "other name"}
  Address <- MCAddress
  AddressIs <- MCAddressIs
  Fetcher = {"html", "robots"}
  Start <- MCStart
  Location <- MCLocation
  MaxRedirects = 5
  BodyLimit <- MCBodyLimit
  MaxChunk = 2
  Target <- MCTarget
  MaxRobotsBytes = 2
SPECIFICATION FairSpec
INVARIANTS
  AnswerTrue
  PeersAdmitted
  InterruptionTold
  FailClosed
  EveryFetchDecided
PROPERTIES
  KeepsPromise
  Ends
