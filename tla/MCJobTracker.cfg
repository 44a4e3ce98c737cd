SPECIFICATION TrackerSpec
CONSTANTS
  Jobs = {"j1", "j2"}
  Streams = {"s1"}
  Cancellers = {"c1"}
  NoJob = NoJob
  NoOp = NoOp
  NoRuntime = NoRuntime
  MaxKeep = 1
  Buffer = 1
  MaxTime = 2
  MaxStamp = 2
INVARIANTS TypeOK ChannelsAreLive UpToDate CancellingIsCancelled
PROPERTIES TerminalIsFinal EarlyStreamEnds
