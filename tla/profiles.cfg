SPECIFICATION Spec
CONSTANTS
  Profiles = {1, 2}
  Old = "old"
  Edits = {"new", "wide"}
  Wide = {"wide"}
  Limit = "limit"
  Learned = "learned"
  Fitted = "fitted"
  MaxRequests = 4
INVARIANTS SlotsKeepOwner ChargeUsesSelected LearnedIsSaved
PROPERTY SwitchOnKeepsStop
