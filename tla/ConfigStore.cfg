SPECIFICATION Spec
CONSTANTS
  Behaviors <- Section
  ValidBehaviors <- Valid
  DefaultBehavior = "default"
  Pairings = {"paired"}
  Unpaired = "unpaired"
  SensorLists = {}
  NoSensors = "none"
  EditedFiles <- CarelessEdits
  Uploads <- CarelessUploads
INVARIANTS TypeOK  NeverBothGone TimingFollowsConfig RestartKeepsConfig
