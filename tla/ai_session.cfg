SPECIFICATION Spec
CONSTANTS
  ProfileCount = 2
  Samples = 2
  CalSamples = 2
  Production = 1
  CalMin = 1
  Weights = {FALSE}
INVARIANTS SamplesFromTheirMotor ModelsBelongToProfile StoredIsSaved SampleWasAsked
