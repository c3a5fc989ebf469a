SPECIFICATION Spec
CONSTANTS
  w1 = w1
  w2 = w2
  dependable = dependable
  flaky = flaky
  Workers <- MCWorkers
  Peers <- MCPeers
  ChunkCount = 3
  Holds <- MCHolds
  Reliable <- MCReliable
  MaxAttempts = 2
  Adaptive = TRUE
  Hedged = TRUE
  RarestFirst = TRUE
  Cached <- MCCached
  MaxMeddle = 1
  NoPeer = NoPeer
  NoJob = NoJob
INVARIANTS NothingOutlivesTheCall OutcomeIsJustified
PROPERTIES DownloadEnds
