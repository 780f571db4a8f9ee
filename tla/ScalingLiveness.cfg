SPECIFICATION FairSpec
CONSTANTS
  s1 = s1 s2 = s2
  Stages <- OneStage
  MinReplicas <- OneMin
  MaxReplicas <- OneMax
  Initial <- OneMin
  MaxActors = 3
  MaxTarget = 3
PROPERTY ScalingEnds
