\* Overlapping deliveries of one charge's notifications, failures and a crash.
CONSTANTS
  c1 = c1
  None = None
  Charges = {c1}
  Deliveries = {d1, d2}
  Refused <- NoneRefused
  MaxFailures = 1
  MaxCrashes = 1
SPECIFICATION FairSpec
INVARIANTS AppliedOnce AckedIsHandled
PROPERTIES EventuallyHandled
