SPECIFICATION Spec
CONSTANTS
  Behaviors <- Section
  ValidBehaviors <- Valid
  DefaultBehavior = "default"
  Pairings = {"paired"}
  Unpaired = "unpaired"
  SensorLists = {"some"}
  NoSensors = "none"
  EditedFiles = {}
  Uploads = {}
INVARIANT PowerCutLeavesAFile
