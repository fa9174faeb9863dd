SPECIFICATION PluginSpec
CONSTANTS
  f1 = f1
  f2 = f2
  Nobody = Nobody
  Flows <- OneFlow
  Channels <- FirstByLoopbackAndFile
  Polls = {p1}
  MaxLoginSessions = 1
  Timeouts <- TwoTimeouts
  MaxTime = 4
  MaxExchanges = 2
PROPERTY FlowReleased
PROPERTY FlowAnswered
