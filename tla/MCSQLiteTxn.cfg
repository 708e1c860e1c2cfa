CONSTANTS
  i1 = i1
  i2 = i2
  v1 = v1
  v2 = v2
  NoRow = NoRow
  NoURI = NoURI
  Instances = {i1, i2}
  Times = {1, 2}
  Vals = {v1, v2}
  Batches <- MCBatches
  BackendURIs <- MCFileURI
  IOFaults = FALSE
  Crashes = FALSE
SPECIFICATION Spec
PROPERTY FetchReadsCommitted
