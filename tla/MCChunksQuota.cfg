SPECIFICATION ChunkSpec
CONSTANTS
  NoFile = NoFile
  Local = local
  Uploader = {}
  ChunkId = {i1, i2, i3, i4}
  Saver = {s1, s2}
  Loader = {}
  StorageCap = 1
  Ttl = 1
  Window = 1
  MaxUploads = 2
  MaxClock = 1
  MaxData = 5
  MaxSecrets = 0
INVARIANT QuotaKept
SYMMETRY Symmetry
CHECK_DEADLOCK FALSE
