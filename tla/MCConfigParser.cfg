\* parse(getToken(file)) over every file of up to MaxItems written items.
CONSTANTS
  Durations <- MCDurations
  Numbers <- MCNumbers
  GroupMethods <- MCGroupMethods
  GrossMethods <- MCGrossMethods
  Regexes <- MCRegexes
  Chunks <- MCChunks
  MaxItems = 10
SPECIFICATION Spec
\* The file is complete once no chunk fits: parsing is one call.
CHECK_DEADLOCK FALSE
INVARIANTS TypeOK TokenRoundTrip AcceptsWellFormed AcceptedPrefix
