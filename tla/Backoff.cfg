SPECIFICATION Spec
CONSTANTS
  NotANumber = NotANumber
  RawAttempts <- Attempts
  RawDelays <- Delays
  Uptimes = {10, 299, 300}
  Lags = {0, 30}
  MaxOutage = 15
INVARIANT NotGivenUpEarly
PROPERTY NeverFaster
