\* parse() on a file that ends inside a metric definition.
CONSTANTS
  Durations <- MCDurations
  Numbers <- MCNumbers
  GroupMethods <- MCGroupMethods
  GrossMethods <- MCGrossMethods
  Regexes <- MCRegexes
  Chunks <- MCChunks
  MaxItems = 3
SPECIFICATION Spec
\* The file is complete once no piece fits: parsing is one call.
CHECK_DEADLOCK FALSE
INVARIANT RejectsMalformed
