SPECIFICATION CodecSpec
CONSTANTS
  MinSecret = 2
  MaxPayloadBytes = 12
  PreviewSlack = 4
  MarkerBytes = 2
  MaxDiagnosisLines = 2
  MaxDiagnosisBytes = 6
  PayloadLen = 6
  OutputLen = 7
  ContentLen = 5
  NeedleLen = 3
INVARIANTS
  FrameBounded
  NoSecretEchoed
  DiagnosisIsLongestTail
  EditIsExact
\* One call per behaviour.
CHECK_DEADLOCK FALSE
