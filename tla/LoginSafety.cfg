SPECIFICATION Spec
CONSTANTS
  f1 = f1
  f2 = f2
  Nobody = Nobody
  Flows <- TwoFlows
  Channels <- FirstByPanelAndFile
  Polls = {p1}
  MaxLoginSessions = 1
  Timeouts <- ShortTimeout
  MaxTime = 3
  MaxExchanges = 2
INVARIANT TypeOK
INVARIANT NoneLeftRunning
INVARIANT CodeExchangedOnce
PROPERTY FirstCallbackWins
PROPERTY NewestSurvives
