SPECIFICATION Spec
INVARIANTS FramesRead PartsRead  HandshakesAgree HeadsWritten
  RoutesLead OriginsJudged FilesServed
PROPERTY SessionKept
CHECK_DEADLOCK FALSE
