SPECIFICATION Spec
CONSTANTS
  Base = 2
  Sources <- MCSources
  High = {0, 1}
  Argument = {0, 1}
  MaxText = 24
  MaxCommands = 4
PROPERTIES CppSpec PythonSpec
CHECK_DEADLOCK FALSE
