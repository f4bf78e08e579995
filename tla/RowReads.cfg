SPECIFICATION Spec
CONSTANTS
  Workers = {w1, w2}
  Keys = {1, 2}
  FieldNames <- MCFieldNames
  Buffers = {b1, b2, b3}
  Adapters = {"badger", "boltdb", "rocksdb", "tikv", "raw", "fdb", "redisString",
              "redisHash", "redisJson", "etcd", "pegasus", "aerospike"}
  MaxOps = 2
  MaxScan = 2
  NoRow = NoRow
INVARIANTS RowsAuthentic VerifyPasses ReadsExact
SYMMETRY Symmetry
