SPECIFICATION ClientSpec
CONSTANTS
  Images = {app, next, uf2}
  Containers = {uf2}
  Size <- MCSize
  Units <- MCUnits
  SectorChunks = 2
  Writer = "client"
  HandshakeOutlastsDelay = TRUE
  None = none
SYMMETRY MCSymmetry
INVARIANTS DownloadFitsStaging ManifestIsWhole StatusIsTrue StagedIsVerified RunsWholeImage
PROPERTY KeepsUpdatePromise
