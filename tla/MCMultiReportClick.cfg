SPECIFICATION Spec
CONSTANTS
  Depth = 6
  HeaderLen = 1
  DataLen <- MCDataLen
  Modifiers = {shift}
  Keys = {a, b}
  KeyboardReports = {{}, {a}, {a, b}, {shift, b}}
  Codes = {mute}
  Button = left
  MaxReports = 4
  MaxAway = 1
INVARIANTS
  ButtonReleased
