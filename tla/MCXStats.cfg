SPECIFICATION Spec
CONSTANTS
  Key = {"a", "b", "c", "d", "big"}
  Hash <- MCHash
  Length <- MCLength
  BucketOf <- MCBucketOf
  ChunkSize = 4
  Chunks = 2
  MaxGen = 3
  Buckets = 2
  MaxReports = 5
INVARIANTS ReadableIsIntact TrafficAccounted
PROPERTY EventuallyFlushed
