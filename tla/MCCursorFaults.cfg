CONSTANTS
  p1 = p1
  p2 = p2
  c1 = c1
  c2 = c2
  PageIDs = {p1, p2}
  Cursors = {c1}
  WriterCursors = {c1}
  NoBuffer = NoBuffer
  NoTxn = NoTxn
  NoWriter = NoWriter
  NoPage = NoPage
  Uninit = Uninit
  Entries <- MCWideEntries
  InitPages <- MCWideInitPages
  Timestamps = {2, 4, 6}
  SeekTargets = {0, 2, 3, 4, 5}
  Values = {1}
  MaxPageSize = 3
  MaxVersion = 1
  SizeT = 5
  IOFaults = TRUE
  DeferredFlush = TRUE
SPECIFICATION Spec
PROPERTY SeekLandsAtOrAfter
