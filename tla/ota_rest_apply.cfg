SPECIFICATION Spec
CONSTANTS
  Images = {"short", "long", "uf2"}
  Containers = {"uf2"}
  Size <- MCSize
  SectorChunks = 2
  Writer = "rest"
  None = "none"
INVARIANTS
  RunsWholeImage
