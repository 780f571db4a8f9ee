SPECIFICATION Spec
CONSTANTS
  s1 = s1 s2 = s2
  Stages <- TwoStages
  MinReplicas <- TwoMin
  MaxReplicas <- TwoMax
  Initial <- TwoMin
  MaxActors = 3
  MaxTarget = 2
INVARIANTS TypeOK KeepsMinimum AtMostMaximum NoOrphan
PROPERTY ForgottenOnlyWhenDone
