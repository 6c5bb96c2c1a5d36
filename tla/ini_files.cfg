CONSTANTS
  Words <- MCWords
  Files <- MCFiles
  Names <- MCNames
  Keys <- MCKeys
  Values <- MCValues
  Comments <- MCComments
  FlagLists <- MCFlagLists
  None = None
  MaxCalls = 4
SPECIFICATION Spec
CHECK_DEADLOCK FALSE
INVARIANTS TypeOK OnlyEditsSpoil ReadsBack KeepsItems
