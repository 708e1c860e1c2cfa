CONSTANTS
  p1 = p1
  p2 = p2
  c1 = c1
  c2 = c2
  PageIDs = {p1, p2}
  Cursors = {c1, c2}
  WriterCursors = {c1}
  NoBuffer = NoBuffer
  NoTxn = NoTxn
  NoWriter = NoWriter
  NoPage = NoPage
  Uninit = Uninit
  Entries <- MCEntries
  InitPages <- MCInitPages
  Timestamps = {1, 2, 3}
  SeekTargets = {0, 1, 2, 3}
  Values = {1}
  MaxPageSize = 2
  MaxVersion = 2
  SizeT = 4
  IOFaults = FALSE
  DeferredFlush = FALSE
SPECIFICATION Spec
PROPERTY SeekFindsSeries
