SPECIFICATION FairSpec
CONSTANTS
  Provider <- MCProvider
  TopLevel = 4
  Periods <- MCPeriods
  MaximumEscalationLevel <- MCMaximum
  MinimumTimeSinceInitialFailure <- MCGrace
  MinimumTimeSinceStartup = 3
  RetryAfters = {0, 3, 6}
  MaxCalls = 2
INVARIANTS BlockedWithinLevel
PROPERTIES FailuresNeverShorten Recovers
