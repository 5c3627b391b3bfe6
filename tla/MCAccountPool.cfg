CONSTANTS
  Requests = {r1, r2}
  Sessions = {s1, s2, s3}
  Profiles = {a, b}
  Models = {m1}
  Entries = {e1, e2, e3, e4}
  None = None
  Max = 1
  TTL = 1
  QuotaTTL = 1
  QuotaFactor = 1
  MaxTime = 1
SPECIFICATION FairSpec
INVARIANTS TypeOK HistoryPinned Bounded SessionExclusive InUseNeverEvicted
PROPERTIES AffinityMovesOnlyVerified RefinesAffinity WaiterResolved
