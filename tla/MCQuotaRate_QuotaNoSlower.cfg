CONSTANTS
  Bandwidth = 1000
  TickMs <- MCTickMs
  ShortMs <- MCShortMs
  MaxElapsed = 12000
SPECIFICATION Spec
INVARIANT QuotaNoSlower
