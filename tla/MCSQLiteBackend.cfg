CONSTANTS
  i1 = i1
  i2 = i2
  v1 = v1
  v2 = v2
  NoRow = NoRow
  NoURI = NoURI
  Instances = {i1, i2}
  Times = {1, 2}
  Vals = {v1, v2}
  Batches <- MCBatches
  BackendURIs <- MCBackendURIs
  IOFaults = TRUE
  Crashes = TRUE
SPECIFICATION Spec
\* A backend URI that parseURI rejects leaves the program with no backend.
CHECK_DEADLOCK FALSE
INVARIANT TypeOK
INVARIANT SuccessStored
INVARIANT URIAgreesWithRFC3986
INVARIANT URIRoundTrip
PROPERTY ImplementsStore
