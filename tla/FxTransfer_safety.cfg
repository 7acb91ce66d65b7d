\* A window of five pages of one byte each, so two segments of two bytes, and
\* files of 0 to 7 bytes: the empty file, files that end inside a segment and on
\* a segment boundary, and files that wrap round both segments.
SPECIFICATION FairSpec
CONSTANTS
  FileLens = {0, 1, 2, 3, 4, 5, 6, 7}
  WinSize = 5
  MaxTxBuff = 4
  Page = 1
  Faults = {"dma", "link", "open", "write", "signal", "shutdown"}
INVARIANTS AckedIsOnDisk CompleteIsWhole
PROPERTIES RefinesFileCopy Termination
