SPECIFICATION Spec
CONSTANTS
  Ticks = 32
  Turn = 2
  Late = 2
  ConfirmDelay = 7
  Period = 5
INVARIANT
  TypeOK
PROPERTIES
  ReportedWhenStable TimesKept
