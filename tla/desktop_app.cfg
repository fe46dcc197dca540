\* One command at a time beside the bootstrap and its second attempt, two runs
\* of the application, a serve that fails; streams as far as Scope says.
SPECIFICATION Spec
CONSTANTS
  Switches = {"s1"}
  Urls = {"https://api.deepseek.com/v1"}
  Models = {"nes-tab.gguf"}
  Names = {}
  Vendors <- MCVendors
  Default <- MCDefault
  KeyringKey = ""
  Attempts = 2
  MaxServes = 2
  MaxFaults = 1
  MaxStarts = 2
  Streams = {"t1", "t2"}
  Sessions = {"sess-1", "sess-2"}
  FirstSession = "sess-1"
CONSTRAINT Scope
INVARIANTS
  OrderlySwitchTakesEffect
  ReadyIsUsable
  StoppedStaysQuiet
  BusyTracksStream
  StoppableUntilStopped
PROPERTIES
  TasksEnd
  StopTakesEffect
CHECK_DEADLOCK FALSE
