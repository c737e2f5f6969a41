CONSTANTS
  Seeds = {0, 3, 5, 6}
  Pairs = {"ChatMessage", "ClickContainer", "UseItemOn", "SetPlayerOnGround"}
  Scripts <- AllScripts
  Garbage = {{}, {7}}
  CutsAnywhere = FALSE
SPECIFICATION Spec
INVARIANTS
  FramesAreHandled
  AnswersAreReadable
  TruncationIsDetected
CHECK_DEADLOCK FALSE
