SPECIFICATION FairSpec
CONSTANTS
  None = None
  r1 = r1
  r2 = r2
  Requests = {r1, r2}
  FirstEdits = {"gps"}
  SecondEdits = {"gps", "ntp"}
  Edits <- MCEdits
  Fresh = 16
  Delay = 18
  GpsSettle = 0
  NtpSettle = 2
  GpsLag = 1
  NtpLag = 1
  Settle <- MCSettle
  Lag <- MCLag
INVARIANTS
  TypeOK
PROPERTIES
  EditIsShown
  RowSettles
