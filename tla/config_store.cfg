SPECIFICATION Spec
CONSTANTS
  InitOrder <- MCOrder
  AddressOrder <- MCAddresses
  Checked = {"table"}
  Width <- MCWidth
  PageSize = 2
  Values = {"d", "x"}
  Zero = "d"
  Default <- MCDefault
  Blank = Blank
  None = None
  MaxEdits = 1
  MaxFaults = 1
INVARIANT CompletedSaveHolds
PROPERTY KeepsPromise
