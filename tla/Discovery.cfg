SPECIFICATION DiscoverySpec
CONSTANTS
  Tasks = {"first", "second", "third"}
  Devices = {"tv", "speaker", "router"}
  Addressless = {"router"}
  MaxTvs = 4
  NoDevice = "none"
INVARIANTS FoundOnce
