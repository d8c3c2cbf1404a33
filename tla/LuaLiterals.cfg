\* Short circuits over the literals of Lua.
CONSTANTS
  Fields = 2
  MaxStack = 30
  Programs <- MCPrograms
INIT Init
NEXT Next
INVARIANT SameMeaning
CHECK_DEADLOCK FALSE
