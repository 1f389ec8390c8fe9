CONSTANTS
  a = a
  b = b
  look = look
  x = x
  y = y
  Tasks = {a, b, look}
  Script <- MCScript
  Rows = {x, y}
  Witnessed = {x}
  OnStale = "squash"
  OnUnreadable = "squash"
  MaxChanges = 1
CHECK_DEADLOCK FALSE
SPECIFICATION Spec
INVARIANT EachWriteIsOnCheckedReads
