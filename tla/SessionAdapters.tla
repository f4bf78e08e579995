-------------------------- MODULE SessionAdapters ---------------------------
(***************************************************************************)
(* One process whose adapter keeps state for its threads between calls:    *)
(* connections and prepared statements (mysql, pg) or the shared bulk      *)
(* indexer (elastic).  Client.Run starts the threads; each makes calls and *)
(* cleans up; Run then lets the adapter analyze the table.                 *)
(***************************************************************************)
EXTENDS BulkIndexer

VARIABLES adapter,  \* the adapter of this run
          main      \* the main goroutine: waiting for the threads, or done

vars == <<adapter, main, threads, pc, callVars, connVars, faultVars, panicked,
          bulkVars>>

Init ==
  /\ adapter \in {"sql", "elastic"}
  /\ main = "wait"
  /\ threads \in (SUBSET Workers) \ {{}}
  /\ pc = [w \in Workers |-> IF w \in threads THEN "start" ELSE "absent"]
  /\ failed = [w \in Workers |-> FALSE]
  /\ faults = 0
  /\ panicked = FALSE
  /\ SessionInit
  /\ BulkInit

\* Analyze of mysql: db.Exec takes a connection of its own from the pool, and
\* returns it.  Elasticsearch has no Analyze.
Analyze ==
  /\ main = "wait"
  /\ \A w \in threads : pc[w] = "finished"
  /\ adapter = "sql" => pool < MaxOpenConns
  /\ main' = "done"
  /\ UNCHANGED <<pc, callVars, connVars, faultVars, panicked, bulkVars>>

WorkerStep(w) ==
  /\ \/ adapter = "sql" /\ SessionStep(w) /\ UNCHANGED bulkVars
     \/ adapter = "elastic" /\ BulkStep(w)
  /\ UNCHANGED main

IndexerStep == adapter = "elastic" /\ (Take \/ Flush) /\ UNCHANGED main

ConnBreaks(w) == Break(w) /\ UNCHANGED <<bulkVars, main>>

Alive(A) == ~panicked /\ A /\ UNCHANGED <<adapter, threads>>

Next ==
  Alive(\/ \E w \in threads : WorkerStep(w) \/ ConnBreaks(w)
        \/ IndexerStep
        \/ Analyze)

Fairness ==
  /\ \A w \in Workers : WF_vars(Alive(w \in threads /\ WorkerStep(w)))
  /\ WF_vars(Alive(IndexerStep))
  /\ WF_vars(Alive(Analyze))

Spec == Init /\ [][Next]_vars /\ Fairness
-----------------------------------------------------------------------------
\* Types of the threads' state and of the indexer.
TypeOK ==
  /\ adapter \in {"sql", "elastic"} /\ main \in {"wait", "done"}
  /\ threads \subseteq Workers
  /\ pc \in [Workers -> {"absent", "start", "idle", "prepare", "reconnect",
                         "reprepare", "exec", "clear", "drain", "finished"}]
  /\ query \in [Workers -> Queries]
  /\ failed \in [Workers -> BOOLEAN]
  /\ conn \in [Workers -> {"none", "live", "broken", "done", "nil"}]
  /\ stmtCache \in [Workers -> [Queries -> {"absent", "cur", "old"}]]
  /\ open \in [Workers -> SUBSET Queries]
  /\ pool \in 0 .. MaxOpenConns
  /\ faults \in 0 .. MaxFaults
  /\ {refused, panicked, biClosed} \subseteq BOOLEAN
  /\ {queue, buffered} \subseteq 0 .. QueueSize
  /\ accepted \in 0 .. 2 * QueueSize

\* Types, and a process panics for two reasons only: an error of db.Conn (the server
\* refused the connection, or the context is cancelled), at InitThread or when
\* getAndCacheStmt rebuilds one (mysql/db.go:223 leaves state.conn nil, for the next
\* statement or CleanupThread to use), and a second thread that uses or closes the
\* bulk indexer after the first has cleaned up (elasticsearch/db.go:66).
PanicCauses ==
  /\ TypeOK
  /\ panicked => \/ adapter = "sql" /\ refused
                 \/ adapter = "elastic" /\ Cardinality(threads) > 1

\* Broken connections are overcome (mysql/db.go:213-246): after the last fault
\* only finitely many calls fail, although every statement cached before it is
\* bound to a connection that is gone.
Recovers == <>[](panicked \/ \A w \in threads : ~failed[w])
=============================================================================
