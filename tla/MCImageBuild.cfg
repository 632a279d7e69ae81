CONSTANTS
  Versions = {v1, v2}
  None = None
  MaxEdits = 2
  MaxFaults = 3
SPECIFICATION FairSpec
INVARIANTS
  BuildsTheSources
PROPERTIES
  ArtifactsAgree
  Converges
