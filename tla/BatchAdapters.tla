--------------------------- MODULE BatchAdapters ----------------------------
(***************************************************************************)
(* Workers that make batch calls and scans through one of six adapters.    *)
(***************************************************************************)
EXTENDS SQLBatch, SqliteBatch, TikvBatch, S3Batch

adapterVars == <<batchVars, engine, options>>

Options ==
  [overwrite : {engine = "s3", FALSE}, keysOnly : {engine = "s3", FALSE},
   optimistic : {engine = "sqlite", FALSE}]

\* The database is created for a load or a run, with dropdata or without.
AdapterInit ==
  /\ engine \in BatchEngines
  /\ options \in Options
  /\ \E dropData, doTransactions \in BOOLEAN :
       BatchInit(CASE engine = "mysql" -> MysqlCreateTable(dropData, doTransactions)
                   [] engine = "pg" -> PgCreateTable(dropData)
                   [] engine = "sqlite" -> SqliteCreate(dropData)
                   [] OTHER -> LoadedTable)

Step(w) ==
  \/ engine = "mysql" /\ MysqlStep(w)
  \/ engine = "pg" /\ PgStep(w)
  \/ engine = "sqlite" /\ SqliteStep(w)
  \/ engine = "tikv" /\ TxnStep(w)
  \/ engine = "raw" /\ RawStep(w)
  \/ engine = "s3" /\ S3Step(w)

Issue(w) == \E kind \in {"insert", "read", "update", "delete", "scan"} : MakeCall(w, kind)

\* The workload ends when every worker has returned from its last call.
Done == issued = MaxCalls /\ (\A w \in Callers : at[w] = "idle") /\ UNCHANGED adapterVars

AdapterNext ==
  \/ \E w \in Callers : (Issue(w) \/ Step(w)) /\ UNCHANGED <<engine, options>>
  \/ Done

AdapterSpec == AdapterInit /\ [][AdapterNext]_adapterVars
=============================================================================
