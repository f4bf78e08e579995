----------------------------- MODULE SQLSession -----------------------------
(***************************************************************************)
(* The per-thread state of the MySQL and PostgreSQL adapters               *)
(* (db/mysql/db.go, db/pg/db.go; the two files have the same code here): a *)
(* connection taken from the pool of database/sql and a cache of the       *)
(* statements prepared on it.  A connection may break between any two      *)
(* steps; the thread notices when it next uses it.                         *)
(*                                                                         *)
(* database/sql is external.  A *sql.Conn whose driver connection turned   *)
(* out bad is done: it has left the pool, and every use of it, or of a     *)
(* statement prepared on it, returns ErrConnDone.  A nil *sql.Conn panics  *)
(* when it is used.                                                        *)
(***************************************************************************)
EXTENDS Integers, FiniteSets

CONSTANTS Workers,   \* the worker goroutines
          Queries,   \* the statement texts of the workload
          MaxFaults  \* bound on broken connections, refused ones, failed statements

ASSUME SessionAssumption ==
  MaxFaults \in Nat /\ IsFiniteSet(Workers) /\ Queries # {}

VARIABLES threads,    \* the workers of this run (threadcount)
          pc,         \* program point of each worker
          query,      \* the statement text a worker executes
          failed,     \* the last call of the worker returned an error
          conn,       \* state.conn
          stmtCache,  \* state.stmtCache: absent, on the current or on an old connection
          open,       \* the statements open on the worker's current connection
          pool,       \* connections taken from the pool (database/sql)
          faults,     \* faults so far
          refused,    \* db.Conn has failed
          panicked    \* a goroutine panicked: the process is gone

connVars == <<conn, stmtCache, open, pool>>
callVars == <<query, failed>>
faultVars == <<faults, refused>>

\* db.SetMaxOpenConns(threadCount * 2).
MaxOpenConns == 2 * Cardinality(threads)

HoldsConn(w) == conn[w] \in {"live", "broken"}

Goto(w, point) == pc' = [pc EXCEPT ![w] = point]

Fault == faults < MaxFaults /\ faults' = faults + 1

SessionInit ==
  /\ query = [w \in Workers |-> CHOOSE q \in Queries : TRUE]
  /\ conn = [w \in Workers |-> "none"]
  /\ stmtCache = [w \in Workers |-> [q \in Queries |-> "absent"]]
  /\ open = [w \in Workers |-> {}]
  /\ pool = 0
  /\ refused = FALSE

\* The server drops a connection: nobody notices yet.
Break(w) ==
  /\ conn[w] = "live"
  /\ Fault
  /\ conn' = [conn EXCEPT ![w] = "broken"]
  /\ open' = [open EXCEPT ![w] = {}]
  /\ UNCHANGED <<pc, callVars, stmtCache, pool, refused, panicked>>

\* database/sql finds the driver's connection bad and gives it up.
Discard(w) ==
  /\ conn' = [conn EXCEPT ![w] = "done"]
  /\ stmtCache' = [stmtCache EXCEPT ![w] =
                     [q \in Queries |-> IF @[q] = "cur" THEN "old" ELSE @[q]]]
  /\ open' = [open EXCEPT ![w] = {}]
  /\ pool' = pool - 1

Fail(w) == failed' = [failed EXCEPT ![w] = TRUE] /\ Goto(w, "idle")

\* db.Conn fails: the server refuses the connection, or a signal has cancelled the
\* context.
Refuse == Fault /\ refused' = TRUE

\* InitThread: a thread without a connection panics.
InitThread(w) ==
  /\ pc[w] = "start"
  /\ \/ /\ pool < MaxOpenConns
        /\ conn' = [conn EXCEPT ![w] = "live"]
        /\ pool' = pool + 1
        /\ Goto(w, "idle")
        /\ UNCHANGED <<faultVars, panicked>>
     \/ /\ Refuse
        /\ panicked' = TRUE
        /\ UNCHANGED <<conn, pool, pc>>
  /\ UNCHANGED <<callVars, stmtCache, open>>

\* Read, Scan, Update, Insert or Delete builds the text of its statement.
Call(w, q) ==
  /\ pc[w] = "idle"
  /\ query' = [query EXCEPT ![w] = q]
  /\ failed' = [failed EXCEPT ![w] = FALSE]
  /\ Goto(w, IF stmtCache[w][q] = "absent" THEN "prepare" ELSE "exec")
  /\ UNCHANGED <<connVars, faultVars, panicked>>

\* conn.PrepareContext on a connection that still works; the statement is cached.
PrepareOn(w) ==
  \/ /\ conn[w] = "live"
     /\ stmtCache' = [stmtCache EXCEPT ![w][query[w]] = "cur"]
     /\ open' = [open EXCEPT ![w] = @ \cup {query[w]}]
     /\ Goto(w, "exec")
     /\ UNCHANGED <<conn, pool, failed, faultVars>>
  \/ /\ conn[w] = "live"
     /\ Fault
     /\ Fail(w)
     /\ UNCHANGED <<connVars, refused>>
  \/ /\ conn[w] = "broken"
     /\ Discard(w)
     /\ Fail(w)
     /\ UNCHANGED faultVars

\* getAndCacheStmt, up to the first PrepareContext.
Prepare(w) ==
  /\ pc[w] = "prepare"
  /\ \/ PrepareOn(w) /\ UNCHANGED panicked
     \/ /\ conn[w] = "done"
        /\ Goto(w, "reconnect")
        /\ UNCHANGED <<connVars, faultVars, failed, panicked>>
     \/ /\ conn[w] = "nil"
        /\ panicked' = TRUE
        /\ UNCHANGED <<connVars, faultVars, failed, pc>>
  /\ UNCHANGED query

\* state.conn, err = db.db.Conn(ctx): on an error the connection becomes nil.
Reconnect(w) ==
  /\ pc[w] = "reconnect"
  /\ \/ /\ pool < MaxOpenConns
        /\ conn' = [conn EXCEPT ![w] = "live"]
        /\ pool' = pool + 1
        /\ Goto(w, "reprepare")
        /\ UNCHANGED <<faultVars, failed>>
     \/ /\ Refuse
        /\ conn' = [conn EXCEPT ![w] = "nil"]
        /\ Fail(w)
        /\ UNCHANGED pool
  /\ UNCHANGED <<stmtCache, open, query, panicked>>

\* The second PrepareContext, on the new connection.
Reprepare(w) ==
  pc[w] = "reprepare" /\ PrepareOn(w) /\ UNCHANGED <<query, panicked>>

\* stmt.ExecContext or QueryContext, and reading the rows.
Exec(w) ==
  /\ pc[w] = "exec"
  /\ \/ /\ stmtCache[w][query[w]] = "cur" /\ conn[w] = "live"
        /\ \/ Goto(w, "idle") /\ UNCHANGED faultVars
           \/ Fault /\ Goto(w, "clear") /\ UNCHANGED refused
        /\ UNCHANGED connVars
     \/ /\ stmtCache[w][query[w]] = "cur" /\ conn[w] = "broken"
        /\ Discard(w)
        /\ Goto(w, "clear")
        /\ UNCHANGED faultVars
     \/ /\ stmtCache[w][query[w]] = "old"
        /\ Goto(w, "clear")
        /\ UNCHANGED <<connVars, faultVars>>
  /\ UNCHANGED <<callVars, panicked>>

\* Mutant: a failed statement stays in the cache.
ClearNothing(w) ==
  /\ pc[w] = "clear" /\ Fail(w)
  /\ UNCHANGED <<connVars, query, faultVars, panicked>>

\* Mutant: the connection is dropped too, for the next call to build again.
ClearDropsConn(w) ==
  /\ pc[w] = "clear"
  /\ stmtCache' = [stmtCache EXCEPT ![w] = [q \in Queries |-> "absent"]]
  /\ open' = [open EXCEPT ![w] = {}]
  /\ pool' = IF HoldsConn(w) THEN pool - 1 ELSE pool
  /\ conn' = [conn EXCEPT ![w] = "nil"]
  /\ Fail(w)
  /\ UNCHANGED <<query, faultVars, panicked>>

\* Mutant: the statement is dropped from the cache and not closed.
ClearWithoutClose(w) ==
  /\ pc[w] = "clear"
  /\ stmtCache' = [stmtCache EXCEPT ![w][query[w]] = "absent"]
  /\ Fail(w)
  /\ UNCHANGED <<conn, open, pool, query, faultVars, panicked>>

\* clearCacheIfFailed, and the error is returned.
ClearCacheIfFailed(w) ==
  /\ pc[w] = "clear"
  /\ stmtCache' = [stmtCache EXCEPT ![w][query[w]] = "absent"]
  /\ open' = [open EXCEPT ![w] = @ \ {query[w]}]
  /\ Fail(w)
  /\ UNCHANGED <<conn, pool, query, faultVars, panicked>>

\* Mutant: a connection that is done is given back a second time.
CleanupReleasesTwice(w) ==
  /\ pc[w] = "idle"
  /\ pool' = pool - 1
  /\ conn' = [conn EXCEPT ![w] = "none"]
  /\ open' = [open EXCEPT ![w] = {}]
  /\ stmtCache' = [stmtCache EXCEPT ![w] = [q \in Queries |-> "absent"]]
  /\ failed' = [failed EXCEPT ![w] = FALSE]
  /\ Goto(w, "finished")
  /\ UNCHANGED <<panicked, query, faultVars>>

\* CleanupThread: the statements and the connection are closed.
CleanupThread(w) ==
  /\ pc[w] = "idle"
  /\ \/ /\ conn[w] # "nil"
        /\ pool' = IF HoldsConn(w) THEN pool - 1 ELSE pool
        /\ conn' = [conn EXCEPT ![w] = "none"]
        /\ open' = [open EXCEPT ![w] = {}]
        /\ stmtCache' = [stmtCache EXCEPT ![w] = [q \in Queries |-> "absent"]]
        /\ failed' = [failed EXCEPT ![w] = FALSE]
        /\ Goto(w, "finished")
        /\ UNCHANGED panicked
     \/ /\ conn[w] = "nil"
        /\ panicked' = TRUE
        /\ UNCHANGED <<connVars, failed, pc>>
  /\ UNCHANGED <<query, faultVars>>

SessionStep(w) ==
  \/ InitThread(w) \/ (\E q \in Queries : Call(w, q)) \/ Prepare(w)
  \/ Reconnect(w) \/ Reprepare(w) \/ Exec(w) \/ ClearCacheIfFailed(w)
  \/ CleanupThread(w)
-----------------------------------------------------------------------------
\* Nothing leaks however often connections break: the statements open on a
\* thread's connection are the ones its cache finds (getAndCacheStmt,
\* clearCacheIfFailed), and the connections taken from the pool are the ones the
\* threads still hold, so that the pool of 2 * threadcount never runs dry.
NothingLeaks ==
  /\ \A w \in threads :
       open[w] = IF conn[w] = "live"
                 THEN {q \in Queries : stmtCache[w][q] = "cur"} ELSE {}
  /\ pool = Cardinality({w \in threads : HoldsConn(w)})
=============================================================================
