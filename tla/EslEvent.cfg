\* Every sequence of calls on an event and a copy of it.
SPECIFICATION Spec
CONSTANTS
  NULL = NULL
  String <- MCString
  Name <- MCName
  Value <- MCValue
  Body <- MCBody
  Subclass <- MCSubclass
  Priority = {"HIGH"}
  EventType = {"CUSTOM", "CLONE"}
  Prefix = {"SWITCH_EVENT_"}
  Lower <- MCLower
  MaxIndex = 1
  JsonMaxHeaders = 4
  JsonMaxItems = 3
  PlainMaxHeaders = 4
  PlainMaxLine = 6
  MaxCalls = 4
VIEW StateView
INVARIANTS  CopiesSettle
PROPERTIES OthersUntouched PushKeepsItems ValueFollowsArray
CHECK_DEADLOCK FALSE
