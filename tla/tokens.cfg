\* Three callers race for a token of an instance.
SPECIFICATION Spec
CONSTANTS
  Ids = {t1}
  Callers = {c1, c2, c3}
  MaxVersion = 2
INVARIANTS
  OneWinner
  VersionTellsRow
