CONSTANTS
  Versions = {v1, v2}
  None = None
  InsideBuild <- DefaultPaths
  MaxEdits = 3
  MaxFaults = 3
SPECIFICATION FairSpec
INVARIANTS
  LabelsAreTrue
PROPERTIES
  FinishedBuildIsCurrent
  TrainingIsKept
  Converges
