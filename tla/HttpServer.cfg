CONSTANTS
  Tasks = {t1, t2}
  Usernames = {n1, n2}
  Emails = {e1}
  None = None
  Lifetime = 2
  Zones <- ZonesOfServers
  MaxTime = 4
  Default = default
  Names = {default, other, other_read}
  Misnamed = {other_read}
  MaxCalls = 3
SPECIFICATION HttpSpec
CHECK_DEADLOCK FALSE
SYMMETRY TaskSymmetry
INVARIANTS AuthTypeOK TokenlessOnlyByFailure EmailTwiceOnlyByRace NamesKept OnePerName OnlyLatePoolsStray
PROPERTY TokenServesItsLifetime
