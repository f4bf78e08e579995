CONSTANTS
  Workers = {w1, w2}
  Keys = {k1}
  Fields = {f1, f2}
  Buffers = {b1, b2}
  MaxCalls = 3
  Engines = {"badger", "boltdb", "tikv", "fdb", "rocksdb", "raw", "redis", "redisHash",
             "redisJson", "etcd", "pegasus", "aerospike"}
  FlushSize = 3
  NoRow = NoRow
  NoBuffer = NoBuffer
SPECIFICATION Spec
INVARIANTS FieldsKeptByAdapter StagedRowIntact ResultMatchesEffect
           SerialBytesExact
SYMMETRY Symmetry
CHECK_DEADLOCK FALSE
