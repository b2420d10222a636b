\* The buffered file with write errors, crashes and the timer.
SPECIFICATION FairSpec
CONSTANTS
  Byte = {a, b}
  Zero = zero
  BufferSize = 2
  MaxWrite = 3
  MaxWhole = 6
  ReopenMayFail = FALSE
INVARIANTS TypeOK ReadReturnsArchive FileThenBuffer
PROPERTIES ImplementsArchiveLog SyncsByItself
