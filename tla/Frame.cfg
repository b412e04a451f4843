\* One frame of each kind, in real sizes, struck by bursts of four symbols and of 19.
SPECIFICATION Spec
CONSTANTS
  LSDs <- MCLSDs
  FrameNumbers = {32773}
  Payloads <- MCPayloads
  Chunks <- MCChunks
  Bursts <- MCBursts
CHECK_DEADLOCK FALSE
INVARIANTS SurvivesBurst LICHSurvives ErrorsBounded WrongLSFRefused
