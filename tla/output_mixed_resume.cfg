CONSTANTS
  LastRun = 3
  Bases = {"a"}
  Configs <- TryingConfigs
SPECIFICATION Spec
INVARIANT ResumeReusesOneRun
