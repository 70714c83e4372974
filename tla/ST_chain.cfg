SPECIFICATION OrderedSpec
CONSTANTS
  Task <- MCTask
  Null = Null
  Ramp = {2}
  Steps = {3, 4, 5}
  StpMod = 8
INVARIANTS TypeOK ExactSteps
PROPERTIES StepsInTurn StopHolds ChainFinishes
