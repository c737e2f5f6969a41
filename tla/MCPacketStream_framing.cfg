CONSTANTS
  Seeds = {0, 3, 5, 6}
  Pairs = {"ChatMessage", "ClickContainer", "UseItemOn", "SetPlayerOnGround"}
  Scripts <- SplitScripts
  Garbage = {{}, {7}}
  CutsAnywhere = TRUE
SPECIFICATION Spec
INVARIANT
  IncompletePacketsWait
CHECK_DEADLOCK FALSE
