SPECIFICATION Spec
CONSTANTS
  Requests = {r1, r2, r3}
  Paths = {"config", "page"}
  ConfigPath = "config"
  None = None
SYMMETRY Interchangeable
INVARIANTS FilesAreWhole
PROPERTIES OkIsKept
