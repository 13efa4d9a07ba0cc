SPECIFICATION Spec
CONSTANTS
  MaxCerts = 3
  MaxIssuers = 2
  MaxNow = 3
INVARIANTS SleepsOnValid CacheCurrent RequestsLimited
PROPERTIES ServedNeverWorse WorkersEnd EventuallyTrusted WatcherFollows
CHECK_DEADLOCK FALSE
