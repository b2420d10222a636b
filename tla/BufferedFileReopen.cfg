\* A descriptor that could not be reopened after a sync.
SPECIFICATION FairSpec
CONSTANTS
  Byte = {a, b}
  Zero = zero
  BufferSize = 2
  MaxWrite = 3
  MaxWhole = 4
  ReopenMayFail = TRUE
INVARIANTS WholeSizeIsFileAndBuffer
