\* Every form of schema and every curated action tool; texts of at most two symbols.
\* A call ends when it is rejected, refused, or signed or not.
CONSTANTS
  Names <- MCNames
  Symbols <- MCSymbols
  MaxDepth = 3
  Nodes <- MCNodes
  Depth <- MCDepth
  Schemas <- MCSchemas
  SdkSchema <- MCSdkSchema
  Frames <- FramesOf
  Inputs <- MCInputs
  Texts <- MCTexts
  SecretNames <- MCSecretNames
  StringOf <- StringValue
  Marker = "<redacted:"

SPECIFICATION Spec
CHECK_DEADLOCK FALSE
INVARIANTS
  ArgumentsTypeOK
  InputSatisfiesSchema
  ValidInputArrives
  PreviewHidesSecrets
  ReentryAccepted
