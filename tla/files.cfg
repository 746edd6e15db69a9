SPECIFICATION Spec
CONSTANTS
  Uploads = {u1, u2}
  Downloads = {d1}
  Deletes = {x1}
  Contents <- MCContents
  Noise <- MCNoise
  ChunkSize = 2
  Missing = Missing
  MaxLosses = 1
  MaxDrops = 1
SYMMETRY UploadSymmetry
CHECK_DEADLOCK FALSE
INVARIANTS
  DownloadedIsCommitted
  ReturnedIsReadable
