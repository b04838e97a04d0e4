\* A periodic and a plain callback timer, an application timer, two events.
SPECIFICATION FairSpec
CONSTANTS
  Callback = {c, p}
  Periodic = {p}
  Plain = {e}
  Ctimer = Ctimer
  App = App
  None = None
  ClockSize = 8
  Intervals <- ShortAndLong
  NumEvents = 2
  MaxLate = 1
  MaxCalls = 4
INVARIANTS
  TypeOK
  NoCallbackLost
  ExpiryNoticed
  ListedOnce
  ExitedHasNoTimer
PROPERTIES
  EarlyOnlyWhenSetAgain
  CallbackComes
