---------------------------- MODULE AdapterProofs ---------------------------
(***************************************************************************)
(* Proofs about the adapters that keep state between calls: for any number *)
(* of threads, statements and faults no statement and no connection leaks, *)
(* no item of the bulk indexer is lost, and a process panics only for the  *)
(* reasons that PanicCauses names.  And about the batch calls and scans of *)
(* the adapters (BatchAdapters), for any number of callers, keys, calls    *)
(* and records per call and any fault: what an error leaves, that a batch  *)
(* call is like single calls, and which rows reads and scans return.       *)
(***************************************************************************)
EXTENDS SessionAdapters, BatchAdapters, FiniteSetTheorems, WellFoundedInduction,
        TLAPS

Points == {"absent", "start", "idle", "prepare", "reconnect", "reprepare", "exec",
           "clear", "drain", "finished"}

Holders == {w \in threads : HoldsConn(w)}

-----------------------------------------------------------------------------
(* The inductive invariant. *)

StateType ==
  /\ adapter \in {"sql", "elastic"} /\ main \in {"wait", "done"}
  /\ threads \subseteq Workers
  /\ pc \in [Workers -> Points]
  /\ query \in [Workers -> Queries]
  /\ faults \in 0 .. MaxFaults
  /\ queue \in 0 .. QueueSize /\ buffered \in 0 .. QueueSize

ConnType ==
  /\ conn \in [Workers -> {"none", "live", "broken", "done", "nil"}]
  /\ stmtCache \in [Workers -> [Queries -> {"absent", "cur", "old"}]]
  /\ open \in [Workers -> SUBSET Queries]

FlagType ==
  /\ failed \in [Workers -> BOOLEAN]
  /\ refused \in BOOLEAN
  /\ panicked \in BOOLEAN
  /\ biClosed \in BOOLEAN

\* The cache and the open statements agree, and what the cache holds of a connection
\* that is gone is not taken for current.
CacheAgrees(w) ==
  /\ open[w] = IF conn[w] = "live"
               THEN {q \in Queries : stmtCache[w][q] = "cur"} ELSE {}
  /\ ~HoldsConn(w) => \A q \in Queries : stmtCache[w][q] # "cur"

CacheInv == \A w \in threads : CacheAgrees(w)

PoolInv == pool = Cardinality(Holders)

\* The threads' connections.
ConnPart == ConnType /\ CacheInv /\ PoolInv

\* A thread asks the pool for a connection only when it holds none, and is left with a
\* nil connection only by a refusal.
ConnInv ==
  \A w \in threads :
    /\ pc[w] = "start" => conn[w] = "none"
    /\ pc[w] = "reconnect" => conn[w] = "done"
    /\ conn[w] = "nil" => refused

\* The indexer is closed by the first thread that cleans up, which drains it.
ItemsInv ==
  /\ accepted = queue + buffered
  /\ biClosed <=> adapter = "elastic" /\ \E w \in threads : pc[w] \in {"drain", "finished"}
  /\ (\E w \in threads : pc[w] = "finished") /\ biClosed => accepted = 0

PanicInv ==
  panicked => \/ adapter = "sql" /\ refused
              \/ adapter = "elastic" /\ Cardinality(threads) > 1

IInv == StateType /\ ConnPart /\ FlagType /\ ConnInv /\ ItemsInv /\ PanicInv
-----------------------------------------------------------------------------
(* The pool is counted by the threads that hold a connection. *)

LEMMA HoldersFinite ==
  ASSUME threads \subseteq Workers
  PROVE  /\ IsFiniteSet(threads) /\ IsFiniteSet(Holders)
         /\ Cardinality(threads) \in Nat /\ Cardinality(Holders) \in Nat
         /\ Cardinality(Holders) <= Cardinality(threads)
<1>1. IsFiniteSet(threads)
  BY FS_Subset, SessionAssumption
<1>2. Holders \subseteq threads
  BY DEF Holders
<1> QED
  BY <1>1, <1>2, FS_Subset, FS_CardinalityType

LEMMA PoolKept ==
  ASSUME IInv, UNCHANGED <<threads, pool>>, \A v \in threads : HoldsConn(v)' <=> HoldsConn(v)
  PROVE  PoolInv'
<1>1. Holders' = Holders
  BY DEF Holders
<1> QED
  BY <1>1 DEF IInv, ConnPart, PoolInv

LEMMA PoolTaken ==
  ASSUME IInv, UNCHANGED threads, NEW w \in threads, ~HoldsConn(w), HoldsConn(w)',
         \A v \in threads \ {w} : conn'[v] = conn[v], pool' = pool + 1
  PROVE  PoolInv'
<1>1. Holders' = Holders \cup {w}
  BY DEF Holders, HoldsConn
<1>2. w \notin Holders
  BY DEF Holders
<1>3. IsFiniteSet(Holders)
  BY HoldersFinite DEF IInv, StateType
<1>4. Cardinality(Holders') = Cardinality(Holders) + 1
  BY <1>1, <1>2, <1>3, FS_AddElement
<1> QED
  BY <1>4 DEF IInv, ConnPart, PoolInv

LEMMA PoolGiven ==
  ASSUME IInv, UNCHANGED threads, NEW w \in threads, HoldsConn(w), ~HoldsConn(w)',
         \A v \in threads \ {w} : conn'[v] = conn[v], pool' = pool - 1
  PROVE  PoolInv'
<1>1. Holders' = Holders \ {w}
  BY DEF Holders, HoldsConn
<1>2. w \in Holders
  BY DEF Holders
<1>3. IsFiniteSet(Holders)
  BY HoldersFinite DEF IInv, StateType
<1>4. Cardinality(Holders') = Cardinality(Holders) - 1
  BY <1>1, <1>2, <1>3, FS_RemoveElement
<1> QED
  BY <1>4 DEF IInv, ConnPart, PoolInv

\* Two different threads are more than one.
LEMMA TwoThreads ==
  ASSUME threads \subseteq Workers, NEW v \in threads, NEW w \in threads, v # w
  PROVE  Cardinality(threads) > 1
<1>1. IsFiniteSet({v}) /\ Cardinality({v}) = 1
  BY FS_Singleton
<1>2. IsFiniteSet({v} \cup {w}) /\ Cardinality({v} \cup {w}) = 2
  <2>1. /\ IsFiniteSet({v} \cup {w})
        /\ Cardinality({v} \cup {w}) =
             IF w \in {v} THEN Cardinality({v}) ELSE Cardinality({v}) + 1
    BY <1>1, FS_AddElement
  <2>2. w \notin {v}
    OBVIOUS
  <2> QED BY <1>1, <2>1, <2>2
<1>3. {v} \cup {w} \subseteq threads
  OBVIOUS
<1>4. Cardinality({v} \cup {w}) <= Cardinality(threads)
  BY <1>3, HoldersFinite, FS_Subset
<1> QED
  BY <1>2, <1>4, HoldersFinite
-----------------------------------------------------------------------------
(* What the steps do to the connections and statements. *)

LEMMA ConnUnchanged ==
  ASSUME IInv, UNCHANGED <<threads, connVars>>
  PROVE  ConnPart'
<1>1. Holders' = Holders
  BY DEF Holders, HoldsConn, connVars
<1> QED
  BY <1>1 DEF IInv, ConnPart, ConnType, CacheInv, CacheAgrees, PoolInv, HoldsConn, connVars

\* It is enough to look at the thread that moves.
LEMMA CacheElsewhere ==
  ASSUME IInv, UNCHANGED threads, NEW w \in threads, CacheAgrees(w)',
         \A v \in Workers \ {w} : /\ conn'[v] = conn[v] /\ open'[v] = open[v]
                                  /\ stmtCache'[v] = stmtCache[v]
  PROVE  CacheInv'
<1>1. ASSUME NEW v \in threads, v # w PROVE CacheAgrees(v)'
  <2>1. v \in Workers \ {w} /\ CacheAgrees(v)
    BY <1>1 DEF IInv, StateType, ConnPart, CacheInv
  <2> QED
    BY <2>1 DEF CacheAgrees, HoldsConn
<1> QED
  BY <1>1 DEF CacheInv

\* A statement is prepared on a connection that works.
LEMMA ConnPrepared ==
  ASSUME NEW w \in threads, IInv, UNCHANGED <<threads, conn, pool>>, conn[w] = "live",
         stmtCache' = [stmtCache EXCEPT ![w][query[w]] = "cur"],
         open' = [open EXCEPT ![w] = @ \cup {query[w]}]
  PROVE  ConnPart'
<1>1. w \in Workers /\ query[w] \in Queries
  BY DEF IInv, StateType
<1>2. /\ \A v \in Workers \ {w} : stmtCache'[v] = stmtCache[v] /\ open'[v] = open[v]
      /\ open'[w] = open[w] \cup {query[w]}
      /\ stmtCache'[w] = [stmtCache[w] EXCEPT ![query[w]] = "cur"]
  BY <1>1 DEF IInv, ConnPart, ConnType
<1>3. stmtCache[w] \in [Queries -> {"absent", "cur", "old"}] /\ open[w] \in SUBSET Queries
  BY <1>1 DEF IInv, ConnPart, ConnType
<1>4. \A q \in Queries : stmtCache'[w][q] = IF q = query[w] THEN "cur" ELSE stmtCache[w][q]
  BY <1>2, <1>3
<1>5. ConnType'
  BY <1>1 DEF IInv, ConnPart, ConnType
<1>6. CacheInv'
  <2>1. open[w] = {q \in Queries : stmtCache[w][q] = "cur"}
    BY DEF IInv, ConnPart, CacheInv, CacheAgrees
  <2>2. open'[w] = {q \in Queries : stmtCache'[w][q] = "cur"}
    BY <1>1, <1>2, <1>4, <2>1
  <2> QED
    BY <1>2, <2>2, CacheElsewhere DEF CacheAgrees, HoldsConn
<1>7. PoolInv'
  BY PoolKept DEF HoldsConn
<1> QED
  BY <1>5, <1>6, <1>7 DEF ConnPart

\* database/sql gives up a broken connection, and every statement of it.
LEMMA ConnDiscarded ==
  ASSUME NEW w \in threads, IInv, UNCHANGED threads, conn[w] = "broken", Discard(w)
  PROVE  ConnPart'
<1> USE DEF Discard
<1>1. w \in Workers
  BY DEF IInv, StateType
<1>2. /\ \A v \in Workers \ {w} : /\ stmtCache'[v] = stmtCache[v] /\ open'[v] = open[v]
                                  /\ conn'[v] = conn[v]
      /\ open'[w] = {} /\ conn'[w] = "done"
      /\ stmtCache'[w] = [q \in Queries |-> IF stmtCache[w][q] = "cur" THEN "old"
                                            ELSE stmtCache[w][q]]
  BY <1>1 DEF IInv, ConnPart, ConnType
<1>3. stmtCache[w] \in [Queries -> {"absent", "cur", "old"}]
  BY <1>1 DEF IInv, ConnPart, ConnType
<1>4. stmtCache'[w] \in [Queries -> {"absent", "cur", "old"}]
  BY <1>2, <1>3
<1>5. ConnType'
  BY <1>1, <1>2, <1>4 DEF IInv, ConnPart, ConnType
<1>6. CacheInv'
  <2>1. CacheAgrees(w)
    BY DEF IInv, ConnPart, CacheInv
  <2>2. CacheAgrees(w)'
    BY <1>2, <2>1 DEF CacheAgrees, HoldsConn
  <2> QED
    BY <1>2, <2>2, CacheElsewhere
<1>7. PoolInv'
  BY <1>2, PoolGiven DEF IInv, StateType, HoldsConn
<1> QED
  BY <1>5, <1>6, <1>7 DEF ConnPart

\* A thread without a connection takes one.
LEMMA ConnTaken ==
  ASSUME NEW w \in threads, IInv, UNCHANGED <<threads, stmtCache, open>>, ~HoldsConn(w),
         conn' = [conn EXCEPT ![w] = "live"], pool' = pool + 1
  PROVE  ConnPart'
<1>1. w \in Workers
  BY DEF IInv, StateType
<1>2. conn'[w] = "live" /\ \A v \in Workers \ {w} : conn'[v] = conn[v]
  BY <1>1 DEF IInv, ConnPart, ConnType
<1>3. ConnType'
  BY <1>1 DEF IInv, ConnPart, ConnType
<1>4. CacheInv'
  <2>1. open[w] = {} /\ \A q \in Queries : stmtCache[w][q] # "cur"
    BY DEF IInv, ConnPart, CacheInv, CacheAgrees, HoldsConn
  <2> QED
    BY <1>2, <2>1, CacheElsewhere DEF CacheAgrees, HoldsConn
<1>5. PoolInv'
  BY <1>2, PoolTaken DEF IInv, StateType, HoldsConn
<1> QED
  BY <1>3, <1>4, <1>5 DEF ConnPart

\* The connection of a thread that holds none becomes nil.
LEMMA ConnRefused ==
  ASSUME NEW w \in threads, IInv, UNCHANGED <<threads, stmtCache, open, pool>>,
         ~HoldsConn(w), conn' = [conn EXCEPT ![w] = "nil"]
  PROVE  ConnPart'
<1>1. w \in Workers
  BY DEF IInv, StateType
<1>2. conn'[w] = "nil" /\ \A v \in Workers \ {w} : conn'[v] = conn[v]
  BY <1>1 DEF IInv, ConnPart, ConnType
<1>3. ConnType'
  BY <1>1 DEF IInv, ConnPart, ConnType
<1>4. CacheInv'
  <2>1. CacheAgrees(w)
    BY DEF IInv, ConnPart, CacheInv
  <2>2. CacheAgrees(w)'
    BY <1>2, <2>1 DEF CacheAgrees, HoldsConn
  <2> QED
    BY <1>2, <2>2, CacheElsewhere
<1>5. PoolInv'
  BY <1>2, PoolKept DEF IInv, StateType, HoldsConn
<1> QED
  BY <1>3, <1>4, <1>5 DEF ConnPart

\* The server breaks a connection.
LEMMA ConnBroken ==
  ASSUME NEW w \in threads, IInv, UNCHANGED <<threads, stmtCache, pool>>,
         conn[w] = "live", conn' = [conn EXCEPT ![w] = "broken"],
         open' = [open EXCEPT ![w] = {}]
  PROVE  ConnPart'
<1>1. w \in Workers
  BY DEF IInv, StateType
<1>2. /\ conn'[w] = "broken" /\ open'[w] = {}
      /\ \A v \in Workers \ {w} : conn'[v] = conn[v] /\ open'[v] = open[v]
  BY <1>1 DEF IInv, ConnPart, ConnType
<1>3. ConnType'
  BY <1>1 DEF IInv, ConnPart, ConnType
<1>4. CacheInv'
  <2>1. CacheAgrees(w)
    BY DEF IInv, ConnPart, CacheInv
  <2>2. CacheAgrees(w)'
    BY <1>2, <2>1 DEF CacheAgrees, HoldsConn
  <2> QED
    BY <1>2, <2>2, CacheElsewhere
<1>5. PoolInv'
  BY <1>2, PoolKept DEF IInv, StateType, HoldsConn
<1> QED
  BY <1>3, <1>4, <1>5 DEF ConnPart

\* A statement is closed and leaves the cache.
LEMMA ConnCleared ==
  ASSUME NEW w \in threads, IInv, UNCHANGED <<threads, conn, pool>>,
         stmtCache' = [stmtCache EXCEPT ![w][query[w]] = "absent"],
         open' = [open EXCEPT ![w] = @ \ {query[w]}]
  PROVE  ConnPart'
<1>1. w \in Workers /\ query[w] \in Queries
  BY DEF IInv, StateType
<1>2. /\ \A v \in Workers \ {w} : stmtCache'[v] = stmtCache[v] /\ open'[v] = open[v]
      /\ open'[w] = open[w] \ {query[w]}
      /\ stmtCache'[w] = [stmtCache[w] EXCEPT ![query[w]] = "absent"]
  BY <1>1 DEF IInv, ConnPart, ConnType
<1>3. stmtCache[w] \in [Queries -> {"absent", "cur", "old"}] /\ open[w] \in SUBSET Queries
  BY <1>1 DEF IInv, ConnPart, ConnType
<1>4. \A q \in Queries : stmtCache'[w][q] = IF q = query[w] THEN "absent" ELSE stmtCache[w][q]
  BY <1>2, <1>3
<1>5. ConnType'
  BY <1>1 DEF IInv, ConnPart, ConnType
<1>6. CacheInv'
  <2>1. open'[w] = IF conn[w] = "live"
                   THEN {q \in Queries : stmtCache'[w][q] = "cur"} ELSE {}
    <3>1. CASE conn[w] = "live"
      <4>1. open[w] = {q \in Queries : stmtCache[w][q] = "cur"}
        BY <3>1 DEF IInv, ConnPart, CacheInv, CacheAgrees
      <4> QED
        BY <1>1, <1>2, <1>4, <3>1, <4>1
    <3>2. CASE conn[w] # "live"
      <4>1. open[w] = {}
        BY <3>2 DEF IInv, ConnPart, CacheInv, CacheAgrees
      <4> QED
        BY <1>2, <3>2, <4>1
    <3> QED
      BY <3>1, <3>2
  <2>2. ~HoldsConn(w) => \A q \in Queries : stmtCache'[w][q] # "cur"
    <3>1. ~HoldsConn(w) => \A q \in Queries : stmtCache[w][q] # "cur"
      BY DEF IInv, ConnPart, CacheInv, CacheAgrees
    <3> QED
      BY <1>4, <3>1
  <2> QED
    BY <1>1, <1>2, <2>1, <2>2, CacheElsewhere DEF CacheAgrees, HoldsConn
<1>7. PoolInv'
  BY PoolKept DEF HoldsConn
<1> QED
  BY <1>5, <1>6, <1>7 DEF ConnPart

\* A thread closes all its statements and gives its connection back.
LEMMA ConnCleanedUp ==
  ASSUME NEW w \in threads, IInv, UNCHANGED threads,
         pool' = IF HoldsConn(w) THEN pool - 1 ELSE pool,
         conn' = [conn EXCEPT ![w] = "none"], open' = [open EXCEPT ![w] = {}],
         stmtCache' = [stmtCache EXCEPT ![w] = [q \in Queries |-> "absent"]]
  PROVE  ConnPart'
<1>1. w \in Workers
  BY DEF IInv, StateType
<1>2. /\ conn'[w] = "none" /\ open'[w] = {}
      /\ \A q \in Queries : stmtCache'[w][q] = "absent"
      /\ \A v \in Workers \ {w} : /\ conn'[v] = conn[v] /\ open'[v] = open[v]
                                  /\ stmtCache'[v] = stmtCache[v]
  BY <1>1 DEF IInv, ConnPart, ConnType
<1>3. ConnType'
  BY <1>1 DEF IInv, ConnPart, ConnType
<1>4. CacheInv'
  <2>1. CacheAgrees(w)
    BY DEF IInv, ConnPart, CacheInv
  <2>2. CacheAgrees(w)'
    BY <1>2, <2>1 DEF CacheAgrees, HoldsConn
  <2> QED
    BY <1>2, <2>2, CacheElsewhere
<1>5. PoolInv'
  <2>1. CASE HoldsConn(w)
    BY <1>2, <2>1, PoolGiven DEF IInv, StateType, HoldsConn
  <2>2. CASE ~HoldsConn(w)
    BY <1>2, <2>2, PoolKept DEF IInv, StateType, HoldsConn
  <2> QED
    BY <2>1, <2>2
<1> QED
  BY <1>3, <1>4, <1>5 DEF ConnPart
-----------------------------------------------------------------------------
(* The initial states, and the steps of mysql and pg. *)

LEMMA InitIInv == Init => IInv
<1> SUFFICES ASSUME Init PROVE IInv
  OBVIOUS
<1> USE SessionAssumption, QueueAssumption DEF Init, SessionInit, BulkInit
<1>1. StateType
  <2>1. (CHOOSE q \in Queries : TRUE) \in Queries
    OBVIOUS
  <2>2. query \in [Workers -> Queries]
    BY <2>1
  <2> QED
    BY <2>2 DEF StateType, Points
<1>2. FlagType
  BY Zenon DEF FlagType
<1>3. CacheInv /\ ConnInv
  BY DEF CacheInv, CacheAgrees, ConnInv, HoldsConn
<1>4. PoolInv
  <2>1. Holders = {}
    BY DEF Holders, HoldsConn
  <2> QED
    BY <2>1, FS_EmptySet DEF PoolInv
<1>5. ConnType
  BY DEF ConnType
<1>6. ItemsInv
  BY DEF ItemsInv
<1>7. PanicInv
  BY DEF PanicInv
<1> QED
  BY <1>1, <1>2, <1>3, <1>4, <1>5, <1>6, <1>7 DEF IInv, ConnPart

\* The adapters of SQL databases have no indexer.
LEMMA ItemsKept ==
  ASSUME IInv, adapter = "sql", UNCHANGED <<adapter, threads, bulkVars>>
  PROVE  ItemsInv'
  BY DEF IInv, ItemsInv, bulkVars

LEMMA InitThreadIInv ==
  ASSUME NEW w \in threads, IInv, ~panicked, adapter = "sql",
         UNCHANGED <<adapter, threads, main, bulkVars>>, InitThread(w)
  PROVE  IInv'
<1> USE SessionAssumption, QueueAssumption
    DEF InitThread, callVars, connVars, faultVars, bulkVars, Goto, Refuse, Fault
<1>1. StateType'
  BY DEF IInv, StateType, Points
<1>2. FlagType'
  BY Zenon DEF IInv, FlagType
<1>3. ConnPart'
  BY ConnTaken, ConnUnchanged DEF IInv, ConnInv, HoldsConn
<1>4. ConnInv'
  BY DEF IInv, StateType, ConnPart, ConnType, ConnInv
<1>5. ItemsInv'
  BY ItemsKept
<1>6. PanicInv'
  BY DEF IInv, PanicInv
<1> QED
  BY <1>1, <1>2, <1>3, <1>4, <1>5, <1>6 DEF IInv

LEMMA CallIInv ==
  ASSUME NEW w \in threads, IInv, ~panicked, adapter = "sql",
         UNCHANGED <<adapter, threads, main, bulkVars>>, NEW q \in Queries, Call(w, q)
  PROVE  IInv'
<1> USE SessionAssumption, QueueAssumption
    DEF Call, callVars, connVars, faultVars, bulkVars, Goto
<1>1. StateType'
  BY DEF IInv, StateType, Points
<1>2. FlagType'
  BY Zenon DEF IInv, FlagType
<1>3. ConnPart'
  BY ConnUnchanged
<1>4. ConnInv'
  BY DEF IInv, StateType, ConnPart, ConnType, ConnInv
<1>5. ItemsInv'
  BY ItemsKept
<1>6. PanicInv'
  BY DEF IInv, PanicInv
<1> QED
  BY <1>1, <1>2, <1>3, <1>4, <1>5, <1>6 DEF IInv

LEMMA PrepareIInv ==
  ASSUME NEW w \in threads, IInv, ~panicked, adapter = "sql",
         UNCHANGED <<adapter, threads, main, bulkVars>>, Prepare(w)
  PROVE  IInv'
<1> USE SessionAssumption, QueueAssumption
    DEF Prepare, callVars, connVars, faultVars, bulkVars, Goto, PrepareOn, Fail, Fault, Discard
<1>1. StateType'
  BY DEF IInv, StateType, Points
<1>2. FlagType'
  BY Zenon DEF IInv, FlagType
<1>3. ConnPart'
  BY ConnPrepared, ConnDiscarded, ConnUnchanged
<1>4. ConnInv'
  BY DEF IInv, StateType, ConnPart, ConnType, ConnInv
<1>5. ItemsInv'
  BY ItemsKept
<1>6. PanicInv'
  <2>1. CASE conn[w] = "nil"
    <3>1. refused
      BY <2>1 DEF IInv, ConnInv
    <3> QED
      BY <3>1 DEF PanicInv
  <2>2. CASE UNCHANGED panicked
    BY <2>2 DEF PanicInv
  <2> QED
    BY <2>1, <2>2
<1> QED
  BY <1>1, <1>2, <1>3, <1>4, <1>5, <1>6 DEF IInv

LEMMA ReconnectIInv ==
  ASSUME NEW w \in threads, IInv, ~panicked, adapter = "sql",
         UNCHANGED <<adapter, threads, main, bulkVars>>, Reconnect(w)
  PROVE  IInv'
<1> USE SessionAssumption, QueueAssumption
    DEF Reconnect, callVars, connVars, faultVars, bulkVars, Goto, Refuse, Fault, Fail
<1>1. StateType'
  BY DEF IInv, StateType, Points
<1>2. FlagType'
  BY Zenon DEF IInv, FlagType
<1>3. ConnPart'
  BY ConnTaken, ConnRefused DEF IInv, ConnInv, HoldsConn
<1>4. ConnInv'
  BY DEF IInv, StateType, ConnPart, ConnType, ConnInv
<1>5. ItemsInv'
  BY ItemsKept
<1>6. PanicInv'
  BY DEF IInv, PanicInv
<1> QED
  BY <1>1, <1>2, <1>3, <1>4, <1>5, <1>6 DEF IInv

LEMMA ReprepareIInv ==
  ASSUME NEW w \in threads, IInv, ~panicked, adapter = "sql",
         UNCHANGED <<adapter, threads, main, bulkVars>>, Reprepare(w)
  PROVE  IInv'
<1> USE SessionAssumption, QueueAssumption
    DEF Reprepare, callVars, connVars, faultVars, bulkVars, Goto, PrepareOn, Fail, Fault, Discard
<1>1. StateType'
  BY DEF IInv, StateType, Points
<1>2. FlagType'
  BY Zenon DEF IInv, FlagType
<1>3. ConnPart'
  BY ConnPrepared, ConnDiscarded, ConnUnchanged
<1>4. ConnInv'
  BY DEF IInv, StateType, ConnPart, ConnType, ConnInv
<1>5. ItemsInv'
  BY ItemsKept
<1>6. PanicInv'
  BY DEF IInv, PanicInv
<1> QED
  BY <1>1, <1>2, <1>3, <1>4, <1>5, <1>6 DEF IInv

LEMMA ExecIInv ==
  ASSUME NEW w \in threads, IInv, ~panicked, adapter = "sql",
         UNCHANGED <<adapter, threads, main, bulkVars>>, Exec(w)
  PROVE  IInv'
<1> USE SessionAssumption, QueueAssumption
    DEF Exec, callVars, connVars, faultVars, bulkVars, Goto, Fault, Discard
<1>1. StateType'
  BY DEF IInv, StateType, Points
<1>2. FlagType'
  BY Zenon DEF IInv, FlagType
<1>3. ConnPart'
  BY ConnPrepared, ConnDiscarded, ConnUnchanged
<1>4. ConnInv'
  BY DEF IInv, StateType, ConnPart, ConnType, ConnInv
<1>5. ItemsInv'
  BY ItemsKept
<1>6. PanicInv'
  BY DEF IInv, PanicInv
<1> QED
  BY <1>1, <1>2, <1>3, <1>4, <1>5, <1>6 DEF IInv

LEMMA ClearCacheIfFailedIInv ==
  ASSUME NEW w \in threads, IInv, ~panicked, adapter = "sql",
         UNCHANGED <<adapter, threads, main, bulkVars>>, ClearCacheIfFailed(w)
  PROVE  IInv'
<1> USE SessionAssumption, QueueAssumption
    DEF ClearCacheIfFailed, callVars, connVars, faultVars, bulkVars, Goto, Fail
<1>1. StateType'
  BY DEF IInv, StateType, Points
<1>2. FlagType'
  BY Zenon DEF IInv, FlagType
<1>3. ConnPart'
  BY ConnCleared
<1>4. ConnInv'
  BY DEF IInv, StateType, ConnPart, ConnType, ConnInv
<1>5. ItemsInv'
  BY ItemsKept
<1>6. PanicInv'
  BY DEF IInv, PanicInv
<1> QED
  BY <1>1, <1>2, <1>3, <1>4, <1>5, <1>6 DEF IInv

LEMMA CleanupThreadIInv ==
  ASSUME NEW w \in threads, IInv, ~panicked, adapter = "sql",
         UNCHANGED <<adapter, threads, main, bulkVars>>, CleanupThread(w)
  PROVE  IInv'
<1> USE SessionAssumption, QueueAssumption
    DEF CleanupThread, callVars, connVars, faultVars, bulkVars, Goto
<1>1. StateType'
  BY DEF IInv, StateType, Points
<1>2. FlagType'
  BY Zenon DEF IInv, FlagType
<1>3. ConnPart'
  BY ConnCleanedUp, ConnUnchanged
<1>4. ConnInv'
  BY DEF IInv, StateType, ConnPart, ConnType, ConnInv
<1>5. ItemsInv'
  BY ItemsKept
<1>6. PanicInv'
  <2>1. CASE conn[w] = "nil"
    <3>1. refused
      BY <2>1 DEF IInv, ConnInv
    <3> QED
      BY <3>1 DEF PanicInv
  <2>2. CASE UNCHANGED panicked
    BY <2>2 DEF PanicInv
  <2> QED
    BY <2>1, <2>2
<1> QED
  BY <1>1, <1>2, <1>3, <1>4, <1>5, <1>6 DEF IInv

LEMMA BreakIInv ==
  ASSUME NEW w \in threads, IInv, UNCHANGED <<adapter, threads, main, bulkVars>>, Break(w)
  PROVE  IInv'
<1> USE SessionAssumption, QueueAssumption
    DEF Break, Fault, callVars, connVars, faultVars, bulkVars
<1>1. StateType'
  BY DEF IInv, StateType, Points
<1>2. FlagType'
  BY DEF IInv, FlagType
<1>3. ConnPart'
  BY ConnBroken
<1>4. ConnInv'
  BY DEF IInv, StateType, ConnPart, ConnType, ConnInv
<1>5. ItemsInv' /\ PanicInv'
  BY DEF IInv, ItemsInv, PanicInv
<1> QED
  BY <1>1, <1>2, <1>3, <1>4, <1>5 DEF IInv
-----------------------------------------------------------------------------
(* The steps of elastic. *)

\* Everything but the indexer stays as it is.
LEMMA SessionKept ==
  ASSUME IInv, UNCHANGED <<threads, sessionVars>>,
         \A w \in threads : pc'[w] \in {"start", "reconnect"} => pc'[w] = pc[w]
  PROVE  ConnPart' /\ ConnInv'
<1> USE DEF sessionVars, callVars, faultVars
<1>1. ConnPart'
  BY ConnUnchanged
<1>2. ConnInv'
  BY DEF IInv, ConnInv, connVars
<1> QED
  BY <1>1, <1>2

\* A second thread that meets the closed indexer.
LEMMA ClosedByAnother ==
  ASSUME IInv, NEW w \in threads, pc[w] = "idle", biClosed
  PROVE  adapter = "elastic" /\ Cardinality(threads) > 1
<1>1. adapter = "elastic" /\ \E v \in threads : pc[v] \in {"drain", "finished"}
  BY DEF IInv, ItemsInv
<1>2. PICK v \in threads : pc[v] \in {"drain", "finished"}
  BY <1>1
<1>3. v # w
  BY <1>2
<1> QED
  BY <1>1, <1>3, TwoThreads DEF IInv, StateType

LEMMA StartThreadIInv ==
  ASSUME NEW w \in threads, IInv, ~panicked, adapter = "elastic",
         UNCHANGED <<adapter, threads, main>>, StartThread(w)
  PROVE  IInv'
<1> USE SessionAssumption, QueueAssumption DEF StartThread, Goto, bulkVars
<1>1. StateType'
  BY DEF IInv, StateType, Points, sessionVars, callVars, faultVars
<1>2. FlagType'
  BY DEF IInv, FlagType, sessionVars, callVars, faultVars
<1>3. ConnPart' /\ ConnInv'
  BY SessionKept DEF IInv, StateType
<1>4. ItemsInv'
  <2>1. \A v \in threads : \A p \in {"drain", "finished"} : pc'[v] = p <=> pc[v] = p
    BY DEF IInv, StateType
  <2> QED
    BY <2>1 DEF IInv, ItemsInv
<1>5. PanicInv'
  BY DEF PanicInv
<1> QED
  BY <1>1, <1>2, <1>3, <1>4, <1>5 DEF IInv

LEMMA AddIInv ==
  ASSUME NEW w \in threads, IInv, ~panicked, adapter = "elastic",
         UNCHANGED <<adapter, threads, main>>, Add(w)
  PROVE  IInv'
<1> USE SessionAssumption, QueueAssumption DEF Add, bulkVars
<1>1. StateType'
  BY DEF IInv, StateType, sessionVars, callVars, faultVars
<1>2. FlagType'
  BY Zenon DEF IInv, FlagType, sessionVars, callVars, faultVars
<1>3. ConnPart' /\ ConnInv'
  BY SessionKept
<1>4. ItemsInv'
  <2>1. accepted' = queue' + buffered'
    BY DEF IInv, StateType, ItemsInv
  <2>2. biClosed => accepted' = accepted
    OBVIOUS
  <2> QED
    BY <2>1, <2>2 DEF IInv, ItemsInv
<1>5. PanicInv'
  BY ClosedByAnother DEF PanicInv
<1> QED
  BY <1>1, <1>2, <1>3, <1>4, <1>5 DEF IInv

LEMMA CloseBulkIInv ==
  ASSUME NEW w \in threads, IInv, ~panicked, adapter = "elastic",
         UNCHANGED <<adapter, threads, main>>, CloseBulk(w)
  PROVE  IInv'
<1> USE SessionAssumption, QueueAssumption DEF CloseBulk, Goto, bulkVars
<1>1. StateType'
  BY DEF IInv, StateType, Points, sessionVars, callVars, faultVars
<1>2. FlagType'
  BY Zenon DEF IInv, FlagType, sessionVars, callVars, faultVars
<1>3. ConnPart' /\ ConnInv'
  BY SessionKept DEF IInv, StateType
<1>4. ItemsInv'
  <2>1. CASE ~biClosed
    <3>1. biClosed' /\ pc'[w] = "drain"
      BY <2>1 DEF IInv, StateType
    <3>2. \A v \in threads : pc'[v] # "finished"
      BY <2>1, <3>1 DEF IInv, StateType, ItemsInv
    <3> QED
      BY <3>1, <3>2 DEF IInv, ItemsInv
  <2>2. CASE biClosed
    BY <2>2 DEF IInv, ItemsInv
  <2> QED
    BY <2>1, <2>2
<1>5. PanicInv'
  BY ClosedByAnother DEF PanicInv
<1> QED
  BY <1>1, <1>2, <1>3, <1>4, <1>5 DEF IInv

LEMMA DrainIInv ==
  ASSUME NEW w \in threads, IInv, ~panicked, adapter = "elastic",
         UNCHANGED <<adapter, threads, main>>, Drain(w)
  PROVE  IInv'
<1> USE SessionAssumption, QueueAssumption DEF Drain, Goto, bulkVars
<1>1. StateType'
  BY DEF IInv, StateType, Points, sessionVars, callVars, faultVars
<1>2. FlagType'
  BY DEF IInv, FlagType, sessionVars, callVars, faultVars
<1>3. ConnPart' /\ ConnInv'
  BY SessionKept DEF IInv, StateType
<1>4. ItemsInv'
  <2>1. accepted' = 0 /\ queue' = 0 /\ buffered' = 0
    BY DEF IInv, StateType, ItemsInv
  <2>2. biClosed /\ pc'[w] = "finished"
    BY DEF IInv, StateType, ItemsInv
  <2> QED
    BY <2>1, <2>2 DEF ItemsInv
<1>5. PanicInv'
  BY DEF PanicInv
<1> QED
  BY <1>1, <1>2, <1>3, <1>4, <1>5 DEF IInv

LEMMA IndexerIInv ==
  ASSUME IInv, ~panicked, UNCHANGED <<adapter, threads, main>>, Take \/ Flush
  PROVE  IInv'
<1> USE SessionAssumption, QueueAssumption DEF Take, Flush, bulkVars
<1>1. StateType'
  BY DEF IInv, StateType, sessionVars, callVars, faultVars
<1>2. FlagType'
  BY DEF IInv, FlagType, sessionVars, callVars, faultVars
<1>3. ConnPart' /\ ConnInv'
  BY SessionKept
<1>4. ItemsInv'
  <2>1. accepted' = queue' + buffered'
    BY DEF IInv, StateType, ItemsInv
  <2>2. accepted = 0 => accepted' = 0
    BY DEF IInv, StateType, ItemsInv
  <2> QED
    BY <2>1, <2>2 DEF IInv, ItemsInv
<1>5. PanicInv'
  BY DEF PanicInv
<1> QED
  BY <1>1, <1>2, <1>3, <1>4, <1>5 DEF IInv

LEMMA AnalyzeIInv ==
  ASSUME IInv, UNCHANGED <<adapter, threads>>, Analyze
  PROVE  IInv'
<1> USE DEF Analyze, callVars, connVars, faultVars, bulkVars
<1>1. StateType' /\ FlagType'
  BY DEF IInv, StateType, FlagType
<1>2. ConnPart'
  BY ConnUnchanged
<1>3. ConnInv' /\ ItemsInv' /\ PanicInv'
  BY DEF IInv, ConnInv, ItemsInv, PanicInv
<1> QED
  BY <1>1, <1>2, <1>3 DEF IInv

LEMMA StutterIInv == ASSUME IInv, UNCHANGED vars PROVE IInv'
<1> USE DEF vars, callVars, connVars, faultVars, bulkVars
<1>1. StateType' /\ FlagType'
  BY DEF IInv, StateType, FlagType
<1>2. ConnPart'
  BY ConnUnchanged
<1>3. ConnInv' /\ ItemsInv' /\ PanicInv'
  BY DEF IInv, ConnInv, ItemsInv, PanicInv
<1> QED
  BY <1>1, <1>2, <1>3 DEF IInv

LEMMA NextIInv == IInv /\ [Next]_vars => IInv'
<1> SUFFICES ASSUME IInv, [Next]_vars PROVE IInv'
  OBVIOUS
<1>1. CASE UNCHANGED vars
  BY <1>1, StutterIInv
<1>2. CASE Next
  <2>1. ~panicked /\ UNCHANGED <<adapter, threads>>
    BY <1>2 DEF Next, Alive
  <2>2. ASSUME NEW w \in threads, WorkerStep(w) PROVE IInv'
    <3>1. UNCHANGED main
      BY <2>2 DEF WorkerStep
    <3>2. CASE adapter = "sql" /\ SessionStep(w) /\ UNCHANGED bulkVars
      BY <2>1, <3>1, <3>2, InitThreadIInv, CallIInv, PrepareIInv, ReconnectIInv,
         ReprepareIInv, ExecIInv, ClearCacheIfFailedIInv, CleanupThreadIInv
      DEF SessionStep
    <3>3. CASE adapter = "elastic" /\ BulkStep(w)
      BY <2>1, <3>1, <3>3, StartThreadIInv, AddIInv, CloseBulkIInv, DrainIInv
      DEF BulkStep
    <3> QED
      BY <2>2, <3>2, <3>3 DEF WorkerStep
  <2>3. ASSUME NEW w \in threads, ConnBreaks(w) PROVE IInv'
    BY <2>1, <2>3, BreakIInv DEF ConnBreaks
  <2>4. CASE IndexerStep
    BY <2>1, <2>4, IndexerIInv DEF IndexerStep
  <2>5. CASE Analyze
    BY <2>1, <2>5, AnalyzeIInv
  <2> QED
    BY <1>2, <2>2, <2>3, <2>4, <2>5 DEF Next, Alive
<1> QED
  BY <1>1, <1>2
-----------------------------------------------------------------------------
(* The theorems. *)

LEMMA Invariance == Spec => []IInv
  BY InitIInv, NextIInv, PTL DEF Spec

\* However often and wherever connections break: the statements open on a thread's
\* connection are the ones its cache finds, and the pool counts the connections that
\* threads hold (mysql/db.go and pg/db.go, getAndCacheStmt, clearCacheIfFailed,
\* CleanupThread).
THEOREM NothingLeaksHolds == Spec => []NothingLeaks
<1>1. IInv => NothingLeaks
  BY DEF IInv, ConnPart, CacheInv, CacheAgrees, PoolInv, Holders, NothingLeaks
<1> QED
  BY <1>1, Invariance, PTL

\* Every item whose Add returned nil is in the queue, in a buffer or sent, and sent once
\* a thread has closed the indexer (elasticsearch/db.go, CleanupThread, Insert).
THEOREM AddedItemsSentHolds == Spec => []AddedItemsSent
<1>1. IInv => AddedItemsSent
  BY DEF IInv, ItemsInv, AddedItemsSent
<1> QED
  BY <1>1, Invariance, PTL

\* Types, with a pool that never exceeds its 2 * threadcount connections; and a panic
\* has one of the two causes.
THEOREM PanicCausesHolds == Spec => []PanicCauses
<1>1. IInv => PanicCauses
  <2> SUFFICES ASSUME IInv PROVE PanicCauses
    OBVIOUS
  <2> USE SessionAssumption, QueueAssumption
  <2>1. pool \in 0 .. MaxOpenConns
    BY HoldersFinite DEF IInv, StateType, ConnPart, PoolInv, MaxOpenConns
  <2>2. accepted \in 0 .. 2 * QueueSize
    BY DEF IInv, StateType, ItemsInv
  <2>3. {refused, panicked, biClosed} \subseteq BOOLEAN /\ failed \in [Workers -> BOOLEAN]
    BY Zenon DEF IInv, FlagType
  <2>4. {queue, buffered} \subseteq 0 .. QueueSize
    BY DEF IInv, StateType
  <2>5. TypeOK
    BY <2>1, <2>2, <2>3, <2>4 DEF IInv, StateType, ConnPart, ConnType, TypeOK, Points
  <2> QED
    BY <2>5 DEF IInv, PanicInv, PanicCauses
<1> QED
  BY <1>1, Invariance, PTL

-----------------------------------------------------------------------------
(* Batch calls and scans. *)

\* Where a caller can be, what it can call and what comes back.
CallPoints == {"idle", "begin", "run", "commit", "list", "item", "merge"}
WriteKinds == {"insert", "update", "delete"}
Kinds == WriteKinds \cup {"read", "scan"}
Tables == [Keys -> AnyRow]
Results == {"none", "nil", "error"}

\* The calls that the callers make.
CallRecords ==
  [id : 0 .. MaxCalls, kind : Kinds \cup {"none"}, keys : Seq(Keys),
   fields : Seq(SUBSET Fields), count : Nat]

\* The records of an insert or update have fields.
GoodCall(c) ==
  /\ c \in CallRecords
  /\ c.kind \in {"insert", "update"} => Len(c.fields) = Len(c.keys)

\* A call is in progress.
Busy(w) == at[w] # "idle"

\* The keys of a list of rows.
KeysOf(rs) == [i \in DOMAIN rs |-> rs[i][1]]

\* Rows whose values are in the fields they were built for.
OwnRow == {r \in AnyRow : r # NoRow => \A f \in Fields : r[f] # Null => r[f][2] = f}

\* The types of the variables.
BatchTypes ==
  /\ engine \in BatchEngines
  /\ options \in [overwrite : BOOLEAN, keysOnly : BOOLEAN, optimistic : BOOLEAN]
  /\ table \in Tables /\ expect \in Tables
  /\ version \in [Keys -> Nat]
  /\ issued \in 0 .. MaxCalls
  /\ at \in [Callers -> CallPoints]
  /\ call \in [Callers -> CallRecords]
  /\ next \in [Callers -> Nat \ {0}]
  /\ snap \in [Callers -> [table : Tables, version : [Keys -> Nat]]]
  /\ out \in [Callers -> RowList]
  /\ page \in [Callers -> Seq(Keys)]
  /\ steady \in [Callers -> SUBSET Keys] /\ skipped \in [Callers -> SUBSET Keys]
  /\ retried \in [Callers -> BOOLEAN]
  /\ done \in [Calls -> Seq({0, 1})]
  /\ result \in [Calls -> Results]
  /\ rows \in [Calls -> RowList]

\* Each call has a number of its own, and no result before it returns.
IdsInv ==
  /\ \A w \in Callers : /\ call[w].id <= issued
                        /\ call[w].id = 0 => call[w].kind = "none"
                        /\ Busy(w) => call[w].id # 0 /\ result[call[w].id] = "none"
  /\ \A v, w \in Callers : v # w /\ call[v].id = call[w].id => call[v].id = 0
  /\ \A id \in Calls : id > issued => result[id] = "none"

\* What a call in progress looks like, and where it can be.
CallInv(w) ==
  LET c == call[w]
      n == Len(c.keys) IN
  Busy(w) =>
    /\ c.kind \in Kinds /\ n >= 1
    /\ c.kind \in {"insert", "update"} => Len(c.fields) = n
    /\ c.kind = "scan" => n = 1 /\ c.count >= 1
    /\ c.kind # "scan" => next[w] <= n + 1
    /\ at[w] = "run" => engine \in {"sqlite", "tikv"}
    /\ at[w] = "commit" => engine = "sqlite" /\ next[w] > n
    /\ at[w] = "merge" => /\ engine = "s3" /\ c.kind = "update"
                          /\ ~options.overwrite /\ next[w] <= n
    /\ at[w] \in {"list", "item"} => engine = "s3" /\ c.kind = "scan"

\* Calls that are executed record by record, outside of a transaction.
Looped(w) == engine \in {"pg", "s3"} \/ (engine = "mysql" /\ call[w].kind = "update")

\* How far a write in progress is executed.
ExecInv(w) ==
  LET d == done[call[w].id] IN
  Busy(w) =>
    /\ Len(d) = IF call[w].kind \in WriteKinds THEN Len(call[w].keys) ELSE 0
    /\ engine # "raw" =>
         \A i \in 1 .. Len(d) : d[i] = IF Looped(w) /\ i < next[w] THEN 1 ELSE 0

\* What a write leaves, for the call with number id.
Executed(id) == {i \in DOMAIN done[id] : done[id][i] > 0}

\* A call that returned nil has executed all of its records; a transaction that failed,
\* none; whatever is not raw executes them in order.
LeavesInv(id) ==
  /\ result[id] = "nil" => Executed(id) = DOMAIN done[id]
  /\ result[id] = "error" /\ engine \in {"sqlite", "tikv"} => Executed(id) = {}
  /\ engine # "raw" => \A i \in Executed(id), j \in DOMAIN done[id] :
                         j < i => j \in Executed(id)

\* sqlite: a transaction that has written holds the lock, and what it has written is
\* what the records so far do to the table; one that has not sees the table it can write.
TxInv(w) ==
  LET c == call[w] IN
  InTx(w) /\ IsWrite(w) =>
    /\ \A k \in Keys : snap[w].version[k] <= version[k]
    /\ next[w] = 1 /\ snap[w].version = version => snap[w].table = table
    /\ next[w] > 1 =>
         /\ snap[w].version = version
         /\ snap[w].table = After(table, c, Does(c, SqliteSingle))[next[w] - 1]

\* sqlite: one transaction at most has written.
LockInv ==
  engine = "sqlite" =>
    /\ \A w \in Callers : TxInv(w)
    /\ \A v, w \in Callers : HoldsWriteLock(v) /\ HoldsWriteLock(w) => v = w

\* The table is what single calls would have made of it.
SinglesInv ==
  engine \in {"pg", "sqlite"} \/ (engine = "s3" /\ options.overwrite) => table = expect

\* Whatever does not write the first record's columns keeps each value in its field.
OwnInv ==
  engine # "mysql" =>
    /\ table \in [Keys -> OwnRow]
    /\ \A w \in Callers : snap[w].table \in [Keys -> OwnRow]

\* The rows that a read has so far.
ReadSoFar(rs, ks, n) ==
  Len(rs) = n - 1 /\ \A i \in 1 .. Len(rs) : i <= Len(ks) /\ rs[i][1] = ks[i]

\* A read has the rows of the records before the next one, except after a retry.
ReadInv(w) ==
  /\ Busy(w) /\ call[w].kind = "read" /\ engine \in {"sqlite", "raw", "s3"}
  /\ ~(engine = "sqlite" /\ retried[w])
  => /\ ReadSoFar(out[w], call[w].keys, next[w])
     /\ engine = "sqlite" /\ at[w] = "begin" => next[w] = 1

\* What is present since the call began is in the table and in the snapshot of a Scan.
SteadyInv(w) ==
  /\ steady[w] \subseteq Present(table)
  /\ at[w] = "run" /\ call[w].kind = "scan" => steady[w] \subseteq Present(snap[w].table)

\* The list of keys of a Scan that found the keys of S, as ScanExact says.
Increasing(ks) == \A i, j \in 1 .. Len(ks) : i < j => ks[i] < ks[j]

\* At most count keys, from the start key on, without a gap.
Scanned(ks, c, S) ==
  /\ Len(ks) <= c.count
  /\ \A i \in 1 .. Len(ks) : ks[i] >= c.keys[1]
  /\ Increasing(ks)
  /\ \A k \in S : k >= c.keys[1] /\ (Len(ks) < c.count \/ k < ks[Len(ks)]) =>
       \E i \in 1 .. Len(ks) : ks[i] = k

\* s3: a Scan has all records up to key n.
ScannedTo(ks, c, S, n) ==
  /\ n \in Keys /\ c.keys[1] <= n
  /\ Len(ks) <= c.count
  /\ \A i \in 1 .. Len(ks) : c.keys[1] <= ks[i] /\ ks[i] <= n
  /\ Increasing(ks)
  /\ \A k \in S : c.keys[1] <= k /\ k <= n => \E i \in 1 .. Len(ks) : ks[i] = k

\* s3: page p lists what follows key n, up to its last key or to the end.
Listed(p, n, S, truncated) ==
  /\ \A j \in 1 .. Len(p) : p[j] > n
  /\ Increasing(p)
  /\ \A k \in S : k > n => \/ \E j \in 1 .. Len(p) : p[j] = k
                           \/ truncated /\ \A j \in 1 .. Len(p) : p[j] < k

\* A Scan in progress has not left out a record that is there since it began.
ScanInv(w) ==
  LET c == call[w]
      ks == KeysOf(out[w])
      S == steady[w] \ skipped[w] IN
  Busy(w) /\ c.kind = "scan" =>
    /\ engine = "s3" /\ at[w] = "begin" => out[w] = <<>>
    /\ engine = "sqlite" /\ InTx(w) /\ next[w] > 1 => Scanned(ks, c, S)
    /\ at[w] \in {"list", "item"} => ScannedTo(ks, c, S, next[w])
    /\ at[w] = "item" => /\ Len(out[w]) + Len(page[w]) <= c.count
                         /\ Listed(page[w], next[w], steady[w], retried[w])

\* ReadsAligned and ScanExact for one caller.
ReadDone(w) ==
  LET id == call[w].id IN
  /\ at[w] = "idle" /\ call[w].kind = "read"
  /\ result[id] = "nil" /\ engine \in {"sqlite", "tikv", "raw", "s3"}
  /\ ~(engine = "sqlite" /\ retried[w])
  => KeysOf(rows[id]) = call[w].keys

\* What a Scan that returned nil has found; pg does not order its rows.
Found(e, ks, c, S) ==
  /\ e # "pg" => Scanned(ks, c, S)
  /\ e = "pg" => /\ Len(ks) <= c.count
                 /\ \A i \in 1 .. Len(ks) : ks[i] >= c.keys[1]
                 /\ \A i, j \in 1 .. Len(ks) : i # j => ks[i] # ks[j]

\* And for a Scan.
ScanDone(w) ==
  LET c == call[w] IN
  at[w] = "idle" /\ c.kind = "scan" /\ result[c.id] = "nil" =>
    Found(engine, KeysOf(rows[c.id]), c, steady[w] \ skipped[w])

\* What holds for one caller.
CallerInv(w) ==
  /\ CallInv(w) /\ ExecInv(w) /\ ReadInv(w) /\ SteadyInv(w) /\ ScanInv(w)
  /\ ReadDone(w) /\ ScanDone(w)

\* The inductive invariant of the batch calls.
BatchInv ==
  /\ BatchTypes /\ IdsInv
  /\ \A w \in Callers : CallerInv(w)
  /\ \A id \in Calls : LeavesInv(id)
  /\ LockInv /\ SinglesInv /\ OwnInv

\* The order of the numbers, for least counterexamples.
Smaller == {p \in Nat \X Nat : p[1] < p[2]}

-----------------------------------------------------------------------------
(* Numbers, loops and lists. *)

\* There is no endless descent among the numbers.
LEMMA SmallerWellFounded == IsWellFoundedOn(Smaller, Nat)
  BY NatLessThanWellFounded DEF Smaller, OpToRel

\* A set of numbers has a least one.
LEMMA Least ==
  ASSUME NEW S \in SUBSET Nat, S # {}
  PROVE  \E m \in S : \A n \in S : m <= n
<1>1. PICK m \in S : \A n \in S : ~(<<n, m>> \in Smaller)
  BY SmallerWellFounded, WFMin
<1>2. ASSUME NEW n \in S PROVE m <= n
  <2>1. m \in Nat /\ n \in Nat
    OBVIOUS
  <2>2. ~(n < m)
    BY <1>1, <2>1 DEF Smaller
  <2> QED BY <2>1, <2>2
<1> QED
  BY <1>1, <1>2

\* Record n of a call is done to table u.
DoneTo(u, c, does, n) == [u EXCEPT ![c.keys[n]] = does[n][@]]

\* The loop over the records of a call is what its definition says.
LEMMA AfterSteps ==
  ASSUME NEW t, NEW c, Len(c.keys) \in Nat, NEW does
  PROVE  /\ After(t, c, does)[0] = t
         /\ \A n \in 1 .. Len(c.keys) :
              After(t, c, does)[n] = DoneTo(After(t, c, does)[n - 1], c, does, n)
<1> DEFINE step(n, u) == DoneTo(u, c, does, n)
           Loop(g, N) == g = [n \in 0 .. N |-> IF n = 0 THEN t ELSE step(n, g[n - 1])]
           A == {N \in Nat : ~\E g : Loop(g, N)}
<1>1. A = {}
  <2> SUFFICES ASSUME A # {} PROVE FALSE
    OBVIOUS
  <2>1. PICK m \in A : \A n \in A : m <= n
    <3>1. A \in SUBSET Nat
      OBVIOUS
    <3> HIDE DEF A
    <3> QED BY <3>1, Least
  <2>2. m \in Nat /\ ~\E g : Loop(g, m)
    BY <2>1
  <2> HIDE DEF step
  <2>3. CASE m = 0
    <3>1. Loop([n \in 0 .. 0 |-> t], 0)
      OBVIOUS
    <3> QED BY <2>2, <2>3, <3>1
  <2>4. CASE m # 0
    <3>1. m - 1 \in Nat /\ ~(m <= m - 1)
      BY <2>2, <2>4
    <3>2. m - 1 \notin A
      BY <2>1, <3>1
    <3>3. PICK g : Loop(g, m - 1)
      BY <3>1, <3>2
    <3> DEFINE h == [n \in 0 .. m |-> IF n = m THEN step(m, g[m - 1]) ELSE g[n]]
    <3>4. ASSUME NEW n \in 0 .. m
          PROVE  h[n] = IF n = 0 THEN t ELSE step(n, h[n - 1])
      <4>1. CASE n = m
        <5>1. n # 0 /\ n - 1 \in 0 .. m /\ n - 1 # m /\ h[n - 1] = g[m - 1]
          BY <2>2, <2>4, <4>1
        <5> QED BY <4>1, <5>1
      <4>2. CASE n # m
        <5>1. n \in 0 .. m - 1 /\ h[n] = g[n]
          BY <2>2, <4>2
        <5>2. g[n] = IF n = 0 THEN t ELSE step(n, g[n - 1])
          BY <3>3, <5>1
        <5>3. n # 0 => n - 1 \in 0 .. m /\ n - 1 # m /\ h[n - 1] = g[n - 1]
          BY <2>2, <5>1
        <5> QED BY <5>1, <5>2, <5>3
      <4> QED BY <4>1, <4>2
    <3>5. Loop(h, m)
      <4>1. [n \in 0 .. m |-> h[n]] = [n \in 0 .. m |-> IF n = 0 THEN t ELSE step(n, h[n - 1])]
        <5> HIDE DEF h
        <5> QED BY <3>4
      <4>2. h = [n \in 0 .. m |-> h[n]]
        OBVIOUS
      <4> HIDE DEF h
      <4> QED BY <4>1, <4>2
    <3> QED BY <2>2, <3>5
  <2> QED BY <2>3, <2>4
<1>2. \E g : Loop(g, Len(c.keys))
  BY <1>1
<1>3. After(t, c, does) = CHOOSE g : Loop(g, Len(c.keys))
  BY DEF After, DoneTo
<1>4. Loop(After(t, c, does), Len(c.keys))
  <2> HIDE DEF Loop
  <2> QED BY <1>2, <1>3
<1> DEFINE f == After(t, c, does)
           N == Len(c.keys)
<1>5. f = [n \in 0 .. N |-> IF n = 0 THEN t ELSE step(n, f[n - 1])] /\ N \in Nat
  BY <1>4
<1> HIDE DEF f, N, step
<1>6. f[0] = t /\ \A n \in 1 .. N : f[n] = step(n, f[n - 1])
  BY <1>5
<1> QED BY <1>6 DEF f, N, step

\* Rows that every record keeps in X stay in X.
LEMMA AfterIn ==
  ASSUME NEW X, NEW t \in [Keys -> X], NEW c, c.keys \in Seq(Keys), NEW does,
         \A i \in 1 .. Len(c.keys) : \A row \in X : does[i][row] \in X
  PROVE  \A n \in 0 .. Len(c.keys) : After(t, c, does)[n] \in [Keys -> X]
<1> DEFINE f == After(t, c, does)
           A == {n \in 0 .. Len(c.keys) : f[n] \notin [Keys -> X]}
<1>1. Len(c.keys) \in Nat /\ \A i \in 1 .. Len(c.keys) : c.keys[i] \in Keys
  OBVIOUS
<1>2. f[0] = t /\ \A n \in 1 .. Len(c.keys) :
                    f[n] = DoneTo(f[n - 1], c, does, n)
  BY <1>1, AfterSteps
<1> HIDE DEF f
<1>3. A = {}
  <2> SUFFICES ASSUME A # {} PROVE FALSE
    OBVIOUS
  <2>1. PICK m \in A : \A n \in A : m <= n
    <3>1. A \in SUBSET Nat
      BY <1>1
    <3> HIDE DEF A
    <3> QED BY <3>1, Least
  <2>2. m \in 0 .. Len(c.keys) /\ f[m] \notin [Keys -> X]
    OBVIOUS
  <2>3. m # 0
    BY <1>2, <2>2
  <2>4. m \in 1 .. Len(c.keys) /\ m - 1 \in 0 .. Len(c.keys) /\ ~(m <= m - 1)
    BY <1>1, <2>2, <2>3
  <2>5. f[m - 1] \in [Keys -> X]
    BY <2>1, <2>4
  <2>6. f[m] = [f[m - 1] EXCEPT ![c.keys[m]] = does[m][@]]
    BY <1>2, <2>4 DEF DoneTo
  <2>7. does[m][f[m - 1][c.keys[m]]] \in X
    BY <1>1, <2>4, <2>5
  <2> QED BY <2>2, <2>5, <2>6, <2>7
<1> QED BY <1>3 DEF f

\* A finite set of numbers can be put in order: the place of a number is how many are
\* smaller.
LEMMA InOrderFacts ==
  ASSUME NEW S \in SUBSET Int, IsFiniteSet(S)
  PROVE  /\ Cardinality(S) \in Nat
         /\ InOrder(S) \in Seq(S)
         /\ Len(InOrder(S)) = Cardinality(S)
         /\ Increasing(InOrder(S))
         /\ \A k \in S : \E i \in 1 .. Cardinality(S) : InOrder(S)[i] = k
<1> DEFINE n == Cardinality(S)
           below(k) == {j \in S : j < k}
           rank == [k \in S |-> Cardinality(below(k)) + 1]
<1>1. n \in Nat
  BY FS_CardinalityType
<1>2. ASSUME NEW k \in S
      PROVE  /\ IsFiniteSet(below(k)) /\ Cardinality(below(k)) \in Nat
             /\ Cardinality(below(k)) < n
  <2>1. below(k) \in SUBSET S /\ k \notin below(k)
    OBVIOUS
  <2> HIDE DEF below
  <2>2. IsFiniteSet(below(k)) /\ Cardinality(below(k)) <= n
    BY <2>1, FS_Subset
  <2>3. Cardinality(below(k)) # n
    BY <2>1, FS_Subset
  <2>4. Cardinality(below(k)) \in Nat
    BY <2>2, FS_CardinalityType
  <2> HIDE DEF n
  <2> QED BY <1>1, <2>2, <2>3, <2>4
<1>3. ASSUME NEW j \in S, NEW k \in S, j < k
      PROVE  Cardinality(below(j)) < Cardinality(below(k))
  <2>1. below(j) \in SUBSET below(k) /\ j \in below(k) /\ j \notin below(j)
    <3>1. j \in Int /\ k \in Int /\ \A i \in S : i \in Int
      OBVIOUS
    <3>2. \A i \in S : i < j => i < k
      BY <1>3, <3>1
    <3>3. ~(j < j)
      BY <3>1
    <3>4. j < k
      BY <1>3
    <3> QED BY <3>2, <3>3, <3>4
  <2>2. IsFiniteSet(below(k))
    BY <1>2
  <2>3. Cardinality(below(j)) \in Nat /\ Cardinality(below(k)) \in Nat
    BY <1>2
  <2> HIDE DEF below
  <2>4. /\ Cardinality(below(j)) <= Cardinality(below(k))
        /\ Cardinality(below(k)) # Cardinality(below(j))
    BY <2>1, <2>2, FS_Subset
  <2> QED BY <2>3, <2>4
<1>4. \A k \in S : rank[k] \in 1 .. n
  <2> TAKE k \in S
  <2>1. Cardinality(below(k)) \in Nat /\ Cardinality(below(k)) < n
    BY <1>2
  <2> HIDE DEF below, n
  <2> QED BY <1>1, <2>1
<1>5. \A j, k \in S : j < k => rank[j] < rank[k]
  <2> SUFFICES ASSUME NEW j \in S, NEW k \in S, j < k PROVE rank[j] < rank[k]
    OBVIOUS
  <2>1. /\ Cardinality(below(j)) \in Nat /\ Cardinality(below(k)) \in Nat
        /\ Cardinality(below(j)) < Cardinality(below(k))
    BY <1>2, <1>3
  <2>2. rank[j] = Cardinality(below(j)) + 1 /\ rank[k] = Cardinality(below(k)) + 1
    OBVIOUS
  <2> HIDE DEF below, rank
  <2> QED BY <2>1, <2>2
<1>6. rank \in [S -> 1 .. n]
  BY <1>4
<1> HIDE DEF rank
<1>7. \A j, k \in S : rank[j] = rank[k] => j = k
  <2> SUFFICES ASSUME NEW j \in S, NEW k \in S, rank[j] = rank[k], j # k PROVE FALSE
    OBVIOUS
  <2>1. j \in Int /\ k \in Int /\ rank[j] \in Int /\ rank[k] \in Int
    BY <1>1, <1>4
  <2>2. j < k \/ k < j
    BY <2>1
  <2> QED BY <1>5, <2>1, <2>2
<1>8. rank \in Injection(S, 1 .. n)
  BY <1>6, <1>7 DEF Injection, IsInjective
<1>9. IsFiniteSet(1 .. n) /\ Cardinality(1 .. n) = n
  <2>1. 1 \in Int /\ n \in Int
    BY <1>1
  <2> HIDE DEF n
  <2>2. /\ IsFiniteSet(1 .. n)
        /\ Cardinality(1 .. n) = IF 1 > n THEN 0 ELSE n - 1 + 1
    BY <2>1, FS_Interval
  <2> QED BY <1>1, <2>1, <2>2
<1>10. rank \in Surjection(S, 1 .. n)
  BY <1>8, <1>9, FS_Injection
<1>11. \A i \in 1 .. n : \E k \in S : rank[k] = i
  BY <1>10 DEF Surjection
<1> DEFINE s == [i \in 1 .. n |-> CHOOSE k \in S : rank[k] = i]
           Ordered(u) == \A i, j \in 1 .. n : i < j => u[i] < u[j]
<1>12. \A i \in 1 .. n : s[i] \in S /\ rank[s[i]] = i
  BY <1>11
<1>13. s \in [1 .. n -> S]
  BY <1>12
<1> HIDE DEF s
<1>14. Ordered(s)
  <2> SUFFICES ASSUME NEW i \in 1 .. n, NEW j \in 1 .. n, i < j PROVE s[i] < s[j]
    OBVIOUS
  <2>1. s[i] \in S /\ s[j] \in S /\ rank[s[i]] = i /\ rank[s[j]] = j
    BY <1>12
  <2>2. s[i] \in Int /\ s[j] \in Int /\ i \in Int /\ j \in Int
    <3>1. \A k \in S : k \in Int
      OBVIOUS
    <3>2. s[i] \in Int /\ s[j] \in Int
      BY <2>1, <3>1
    <3>3. i \in Int /\ j \in Int
      BY <1>1
    <3> QED BY <3>2, <3>3
  <2>3. s[i] # s[j] /\ ~(s[j] < s[i])
    BY <1>5, <2>1, <2>2
  <2> QED BY <2>2, <2>3
<1>15. InOrder(S) \in [1 .. n -> S] /\ Ordered(InOrder(S))
  BY <1>13, <1>14 DEF InOrder
<1>16. InOrder(S) \in Seq(S) /\ Len(InOrder(S)) = n
  <2> HIDE DEF n
  <2> QED BY <1>1, <1>15
<1>17. \A k \in S : \E i \in 1 .. n : InOrder(S)[i] = k
  <2> DEFINE o == InOrder(S)
  <2> HIDE DEF o, n
  <2>1. o \in [1 .. n -> S] /\ Ordered(o)
    BY <1>15 DEF o
  <2>2. \A i, j \in 1 .. n : o[i] = o[j] => i = j
    <3> SUFFICES ASSUME NEW i \in 1 .. n, NEW j \in 1 .. n, o[i] = o[j], i # j PROVE FALSE
      OBVIOUS
    <3>1. o[i] \in S /\ \A k \in S : k \in Int
      BY <2>1
    <3>2. i < j \/ j < i
      BY <1>1
    <3>3. o[i] < o[j] \/ o[j] < o[i]
      BY <2>1, <3>2
    <3>4. o[i] \in Int /\ o[i] < o[i]
      BY <3>1, <3>3
    <3> QED BY <3>4
  <2>3. o \in Injection(1 .. n, S)
    BY <2>1, <2>2 DEF Injection, IsInjective
  <2>4. Cardinality(1 .. n) = Cardinality(S)
    BY <1>9 DEF n
  <2>5. o \in Surjection(1 .. n, S)
    BY <2>3, <2>4, FS_Injection
  <2> QED BY <2>5 DEF Surjection, o
<1>18. Increasing(InOrder(S))
  BY <1>15, <1>16 DEF Increasing
<1> QED BY <1>1, <1>16, <1>17, <1>18

\* The elements of a finite set in some order.
LEMMA SetToSeqFacts ==
  ASSUME NEW S, IsFiniteSet(S)
  PROVE  /\ Cardinality(S) \in Nat
         /\ SetToSeq(S) \in Seq(S)
         /\ Len(SetToSeq(S)) = Cardinality(S)
         /\ \A i, j \in 1 .. Cardinality(S) :
              SetToSeq(S)[i] = SetToSeq(S)[j] => i = j
<1> DEFINE n == Cardinality(S)
<1>1. n \in Nat /\ ExistsBijection(1 .. n, S)
  BY FS_CardinalityType
<1>2. PICK f \in [1 .. n -> S] : IsInjective(f)
  BY <1>1 DEF ExistsBijection, Bijection, Injection
<1>3. SetToSeq(S) \in [1 .. n -> S] /\ IsInjective(SetToSeq(S))
  BY <1>2 DEF SetToSeq
<1> HIDE DEF n
<1>4. SetToSeq(S) \in Seq(S) /\ Len(SetToSeq(S)) = n
  BY <1>1, <1>3
<1>5. \A i, j \in 1 .. n : SetToSeq(S)[i] = SetToSeq(S)[j] => i = j
  BY <1>3 DEF IsInjective
<1> QED BY <1>1, <1>4, <1>5 DEF n

\* A list without repetitions has as many elements as places.
LEMMA DistinctElements ==
  ASSUME NEW T, NEW ks \in Seq(T), \A i, j \in 1 .. Len(ks) : i # j => ks[i] # ks[j]
  PROVE  Cardinality({ks[i] : i \in DOMAIN ks}) = Len(ks)
<1> DEFINE n == Len(ks)
           R == {ks[i] : i \in DOMAIN ks}
<1>1. n \in Nat /\ DOMAIN ks = 1 .. n
  OBVIOUS
<1>2. ks \in Surjection(1 .. n, R)
  BY <1>1 DEF Surjection
<1>3. ks \in Injection(1 .. n, R)
  BY <1>1, <1>2 DEF Surjection, Injection, IsInjective
<1>4. IsFiniteSet(1 .. n) /\ Cardinality(1 .. n) = n
  <2>1. 1 \in Int /\ n \in Int
    BY <1>1
  <2> HIDE DEF n
  <2>2. /\ IsFiniteSet(1 .. n)
        /\ Cardinality(1 .. n) = IF 1 > n THEN 0 ELSE n - 1 + 1
    BY <2>1, FS_Interval
  <2> QED BY <1>1, <2>1, <2>2
<1> HIDE DEF R
<1>5. Cardinality(R) = Cardinality(1 .. n)
  BY <1>2, <1>3, <1>4, FS_Surjection
<1> QED BY <1>4, <1>5 DEF R

-----------------------------------------------------------------------------
(* Rows. *)

\* No row is a row with each value in its field.
LEMMA OwnIsRow == OwnRow \subseteq AnyRow /\ NoRow \in OwnRow
  BY DEF OwnRow, AnyRow

\* The fields of a record and their values.
LEMMA ValsType ==
  ASSUME NEW c, GoodCall(c), c.kind \in {"insert", "update"}, NEW i \in DOMAIN c.keys
  PROVE  /\ DOMAIN Vals(c, i) \subseteq Fields
         /\ \A f \in DOMAIN Vals(c, i) : Vals(c, i)[f] = <<c.id, f>>
         /\ \A f \in Fields : <<c.id, f>> \in Values
<1>1. /\ c.keys \in Seq(Keys) /\ c.fields \in Seq(SUBSET Fields)
      /\ Len(c.fields) = Len(c.keys) /\ c.id \in 0 .. MaxCalls
  BY DEF GoodCall, CallRecords
<1>2. c.fields[i] \in SUBSET Fields
  BY <1>1
<1> QED BY <1>1, <1>2 DEF Vals, Values

\* A new row, and a row with new values, are rows with each value in its field.
LEMMA NewRowOwn ==
  ASSUME NEW c, GoodCall(c), c.kind \in {"insert", "update"}, NEW i \in DOMAIN c.keys
  PROVE  NewRow(Vals(c, i)) \in OwnRow
<1>1. NewRow(Vals(c, i)) \in Rows
  BY ValsType DEF NewRow, Over, Rows
<1>2. ASSUME NEW f \in Fields, NewRow(Vals(c, i))[f] # Null
      PROVE  NewRow(Vals(c, i))[f][2] = f
  <2>1. f \in DOMAIN Vals(c, i)
    BY <1>2 DEF NewRow, Over
  <2>2. NewRow(Vals(c, i))[f] = <<c.id, f>>
    BY <2>1, ValsType DEF NewRow, Over
  <2> QED BY <2>2
<1> QED BY <1>1, <1>2 DEF OwnRow, AnyRow

\* So is a row with the values of a record written over it.
LEMMA OverType ==
  ASSUME NEW c, GoodCall(c), c.kind \in {"insert", "update"}, NEW i \in DOMAIN c.keys,
         NEW row \in AnyRow, row # NoRow
  PROVE  /\ Over(row, Vals(c, i)) \in AnyRow
         /\ row \in OwnRow => Over(row, Vals(c, i)) \in OwnRow
<1>1. row \in Rows
  BY DEF AnyRow
<1>2. Over(row, Vals(c, i)) \in Rows
  BY <1>1, ValsType DEF Over, Rows
<1>3. ASSUME row \in OwnRow, NEW f \in Fields, Over(row, Vals(c, i))[f] # Null
      PROVE  Over(row, Vals(c, i))[f][2] = f
  <2>1. CASE f \in DOMAIN Vals(c, i)
    <3>1. Over(row, Vals(c, i))[f] = <<c.id, f>>
      BY <2>1, ValsType DEF Over
    <3> QED BY <3>1
  <2>2. CASE f \notin DOMAIN Vals(c, i)
    <3>1. Over(row, Vals(c, i))[f] = row[f]
      BY <2>2 DEF Over
    <3> QED BY <1>3, <3>1 DEF OwnRow
  <2> QED BY <2>1, <2>2
<1> QED BY <1>2, <1>3 DEF OwnRow, AnyRow

\* What the adapters' calls for one record do to a row is a row, with each value in its
\* field if it was so before.
LEMMA SinglesType ==
  ASSUME NEW c, GoodCall(c), NEW i \in DOMAIN c.keys, NEW row \in AnyRow
  PROVE  /\ MysqlSingle(c, i, row) \in AnyRow
         /\ PgSingle(c, i, row) \in AnyRow
         /\ SqliteSingle(c, i, row) \in AnyRow
         /\ S3Single(c, i, row) \in AnyRow
         /\ TikvBatchRow(c, i, row) \in AnyRow
         /\ TxnSingle(c, i, row) \in AnyRow
         /\ RawSingle(c, i, row) \in AnyRow
         /\ row \in OwnRow => /\ PgSingle(c, i, row) \in OwnRow
                              /\ SqliteSingle(c, i, row) \in OwnRow
                              /\ S3Single(c, i, row) \in OwnRow
                              /\ TikvBatchRow(c, i, row) \in OwnRow
<1> DEFINE v == Vals(c, i)
<1>1. c.kind \in {"insert", "update"} => NewRow(v) \in OwnRow /\ NewRow(v) \in AnyRow
  BY NewRowOwn, OwnIsRow
<1>2. c.kind \in {"insert", "update"} /\ row # NoRow =>
        Over(row, v) \in AnyRow /\ (row \in OwnRow => Over(row, v) \in OwnRow)
  BY OverType
<1>3. NoRow \in AnyRow /\ NoRow \in OwnRow
  BY OwnIsRow
<1> HIDE DEF v
<1> USE <1>1, <1>2, <1>3
<1>4. CASE c.kind = "insert"
  BY <1>4 DEF MysqlSingle, MysqlInsert, PgSingle, PgInsert, SqliteSingle, SqliteInsert,
              S3Single, TikvBatchRow, TxnSingle, RawSingle, v
<1>5. CASE c.kind = "update"
  BY <1>5 DEF MysqlSingle, MysqlUpdate, PgSingle, PgUpdate, SqliteSingle, SqliteUpdate,
              S3Single, TikvBatchRow, TxnSingle, RawSingle, v
<1>6. CASE c.kind = "delete"
  BY <1>6 DEF MysqlSingle, PgSingle, SqliteSingle, S3Single, TikvBatchRow, TxnSingle,
              RawSingle
<1>7. CASE c.kind \notin {"insert", "update", "delete"}
  BY <1>7 DEF MysqlSingle, PgSingle, SqliteSingle, S3Single, TikvBatchRow, TxnSingle,
              RawSingle
<1> QED BY <1>4, <1>5, <1>6, <1>7

\* The row of a mysql BatchInsert has the columns of the first record.
LEMMA BatchInsertRowType ==
  ASSUME NEW c, GoodCall(c), c.kind = "insert", NEW i \in DOMAIN c.keys,
         \A j \in DOMAIN c.fields : Cardinality(c.fields[j]) = Cardinality(c.fields[1])
  PROVE  BatchInsertRow(c, i) \in AnyRow
<1> USE BatchAssumption
<1>1. /\ c.keys \in Seq(Keys) /\ c.fields \in Seq(SUBSET Fields)
      /\ Len(c.fields) = Len(c.keys) /\ c.id \in 0 .. MaxCalls
  BY DEF GoodCall, CallRecords
<1>2. i \in DOMAIN c.fields /\ 1 \in DOMAIN c.fields
  BY <1>1
<1>3. c.fields[i] \in SUBSET Fields /\ c.fields[1] \in SUBSET Fields
  BY <1>1, <1>2
<1> DEFINE A == c.fields[1]
           B == c.fields[i]
           cols == SortedFields(A)
           mine == SortedFields(B)
<1>4. A \in SUBSET Int /\ B \in SUBSET Int /\ IsFiniteSet(A) /\ IsFiniteSet(B)
  <2>1. Fields \subseteq Int /\ IsFiniteSet(Fields)
    OBVIOUS
  <2>2. A \in SUBSET Fields /\ B \in SUBSET Fields
    BY <1>3
  <2> HIDE DEF A, B
  <2>3. IsFiniteSet(A) /\ IsFiniteSet(B)
    BY <2>1, <2>2, FS_Subset
  <2> QED BY <2>1, <2>2, <2>3
<1>5. Cardinality(B) = Cardinality(A)
  BY <1>2
<1> HIDE DEF A, B
<1>6. cols \in Seq(A) /\ Len(cols) = Cardinality(A)
  BY <1>4, InOrderFacts DEF SortedFields
<1>7. mine \in Seq(B) /\ Len(mine) = Cardinality(B)
  BY <1>4, InOrderFacts DEF SortedFields
<1> HIDE DEF cols, mine
<1>8. DOMAIN cols = DOMAIN mine
  BY <1>5, <1>6, <1>7
<1>9. ASSUME NEW f \in Fields, \E j \in DOMAIN cols : cols[j] = f
      PROVE  <<c.id, mine[CHOOSE j \in DOMAIN cols : cols[j] = f]>> \in Values
  <2> DEFINE j == CHOOSE k \in DOMAIN cols : cols[k] = f
  <2>1. j \in DOMAIN mine
    BY <1>8, <1>9
  <2> HIDE DEF j
  <2>2. mine[j] \in B
    BY <1>7, <2>1
  <2>3. mine[j] \in Fields
    BY <1>3, <2>2 DEF B
  <2> QED BY <1>1, <2>3 DEF Values, j
<1>10. BatchInsertRow(c, i) \in Rows
  BY <1>9 DEF BatchInsertRow, Rows, cols, mine, A, B
<1> QED BY <1>10 DEF AnyRow

\* A step of caller w changes nothing of another caller and of another call.
Frame(w, id) ==
  /\ UNCHANGED <<engine, options>>
  /\ \A v \in Callers \ {w} :
       /\ call'[v] = call[v] /\ at'[v] = at[v] /\ next'[v] = next[v] /\ snap'[v] = snap[v]
       /\ out'[v] = out[v] /\ page'[v] = page[v]
       /\ skipped'[v] = skipped[v] /\ retried'[v] = retried[v]
  /\ \A k \in Calls \ {id} :
       done'[k] = done[k] /\ result'[k] = result[k] /\ rows'[k] = rows[k]

\* Records only leave the sets of the callers, and leave them when they are deleted.
Steadier == \A v \in Callers : steady'[v] \subseteq steady[v] \cap Present(table)'

\* What was found is enough for fewer records.
LEMMA ScannedLess ==
  ASSUME NEW ks, NEW c, NEW S, NEW R \in SUBSET S
  PROVE  /\ Scanned(ks, c, S) => Scanned(ks, c, R)
         /\ \A n : ScannedTo(ks, c, S, n) => ScannedTo(ks, c, R, n)
         /\ \A n, b : Listed(ks, n, S, b) => Listed(ks, n, R, b)
<1>1. Scanned(ks, c, S) => Scanned(ks, c, R)
  BY DEF Scanned
<1>2. \A n : ScannedTo(ks, c, S, n) => ScannedTo(ks, c, R, n)
  BY DEF ScannedTo
<1>3. \A n, b : Listed(ks, n, S, b) => Listed(ks, n, R, b)
  BY DEF Listed
<1> QED BY <1>1, <1>2, <1>3

\* The other callers are where they were.
LEMMA OthersKept ==
  ASSUME BatchInv, NEW w \in Callers, NEW id, Frame(w, id), NEW v \in Callers \ {w},
         steady'[v] \subseteq steady[v] \cap Present(table)',
         call[v].id # id \/ call[v].id = 0
  PROVE  CallerInv(v)'
<1>1. /\ engine' = engine /\ options' = options
      /\ call'[v] = call[v] /\ at'[v] = at[v] /\ next'[v] = next[v] /\ snap'[v] = snap[v]
      /\ out'[v] = out[v] /\ page'[v] = page[v]
      /\ skipped'[v] = skipped[v] /\ retried'[v] = retried[v]
      /\ steady'[v] \subseteq steady[v] /\ steady'[v] \subseteq Present(table)'
  BY DEF Frame
<1>2. /\ CallInv(v) /\ ExecInv(v) /\ ReadInv(v) /\ SteadyInv(v) /\ ScanInv(v)
      /\ ReadDone(v) /\ ScanDone(v)
  BY DEF BatchInv, CallerInv
<1>3. /\ call[v].id = 0 => call[v].kind = "none" /\ ~Busy(v)
      /\ call[v].id \in 0 .. MaxCalls
  BY DEF BatchInv, IdsInv, BatchTypes, CallRecords
<1>4. call[v].id # 0 =>
        /\ done'[call[v].id] = done[call[v].id] /\ result'[call[v].id] = result[call[v].id]
        /\ rows'[call[v].id] = rows[call[v].id]
  BY <1>3 DEF Frame, Calls
<1>5. CallInv(v)'
  BY <1>1, <1>2 DEF CallInv, Busy
<1>6. ExecInv(v)'
  BY <1>1, <1>2, <1>3, <1>4 DEF ExecInv, Busy, Looped
<1>7. ReadInv(v)'
  BY <1>1, <1>2 DEF ReadInv, Busy
<1>8. SteadyInv(v)'
  BY <1>1, <1>2 DEF SteadyInv
<1> DEFINE S == steady[v] \ skipped[v]
           R == steady'[v] \ skipped[v]
<1>9. R \in SUBSET S /\ steady'[v] \in SUBSET steady[v]
  BY <1>1
<1>10. ScanInv(v)'
  <2>1. \A ks, c : Scanned(ks, c, S) => Scanned(ks, c, R)
    BY <1>9, ScannedLess
  <2>2. \A ks, c, n : ScannedTo(ks, c, S, n) => ScannedTo(ks, c, R, n)
    <3> HIDE DEF S, R
    <3> QED BY <1>9, ScannedLess
  <2>3. \A ks, n, b : Listed(ks, n, steady[v], b) => Listed(ks, n, steady'[v], b)
    BY <1>9, ScannedLess
  <2> QED BY <1>1, <1>2, <2>1, <2>2, <2>3 DEF ScanInv, Busy, InTx, KeysOf
<1>11. ReadDone(v)'
  BY <1>1, <1>2, <1>3, <1>4 DEF ReadDone, KeysOf
<1>12. ScanDone(v)'
  <2> SUFFICES ASSUME ~Busy(v), call[v].kind = "scan", result'[call[v].id] = "nil"
               PROVE  ScanDone(v)'
    BY <1>1 DEF ScanDone, Busy
  <2>1. call[v].id # 0 /\ result[call[v].id] = "nil" /\ rows'[call[v].id] = rows[call[v].id]
    BY <1>3, <1>4
  <2> DEFINE ks == KeysOf(rows[call[v].id])
  <2>2. KeysOf(rows'[call'[v].id]) = ks
    BY <1>1, <2>1
  <2>3. Found(engine, ks, call[v], S)
    BY <1>2, <2>1 DEF ScanDone, Busy
  <2>4. Scanned(ks, call[v], S) => Scanned(ks, call[v], R)
    BY <1>9, ScannedLess
  <2>5. Found(engine, ks, call[v], R)
    <3> HIDE DEF ks, S, R
    <3> QED BY <2>3, <2>4 DEF Found
  <2> HIDE DEF ks
  <2> QED BY <1>1, <2>2, <2>5 DEF ScanDone
<1> QED BY <1>5, <1>6, <1>7, <1>8, <1>10, <1>11, <1>12 DEF CallerInv

\* The other calls have left what they left.
LEMMA LeftKept ==
  ASSUME BatchInv, NEW w \in Callers, NEW id, Frame(w, id), NEW k \in Calls \ {id}
  PROVE  LeavesInv(k)'
<1>1. engine' = engine /\ done'[k] = done[k] /\ result'[k] = result[k]
  BY DEF Frame
<1>2. Executed(k)' = Executed(k)
  BY <1>1 DEF Executed
<1>3. LeavesInv(k)
  BY DEF BatchInv
<1> QED BY <1>1, <1>2, <1>3 DEF LeavesInv

\* A step of a busy caller, put together.
LEMMA StepKeeps ==
  ASSUME BatchInv, NEW w \in Callers, Busy(w), Frame(w, call[w].id), Steadier,
         UNCHANGED <<issued, call>>, BatchTypes', CallerInv(w)', LeavesInv(call[w].id)',
         Busy(w)' => result'[call[w].id] = "none",
         LockInv', SinglesInv', OwnInv'
  PROVE  BatchInv'
<1> DEFINE id == call[w].id
<1>1. /\ \A v \in Callers : /\ call[v].id <= issued
                            /\ call[v].id = 0 => call[v].kind = "none"
                            /\ Busy(v) => call[v].id # 0 /\ result[call[v].id] = "none"
      /\ \A u, v \in Callers : u # v /\ call[u].id = call[v].id => call[u].id = 0
      /\ \A k \in Calls : k > issued => result[k] = "none"
  BY DEF BatchInv, IdsInv
<1>2. id \in Calls /\ id # 0 /\ id <= issued
  BY <1>1 DEF BatchInv, BatchTypes, CallRecords, Calls
<1>3. \A v \in Callers : call[v].id \in 0 .. MaxCalls
  BY DEF BatchInv, BatchTypes, CallRecords
<1>4. \A v \in Callers \ {w} : call[v].id # id \/ call[v].id = 0
  BY <1>1
<1>5. \A v \in Callers : CallerInv(v)'
  <2>1. \A v \in Callers \ {w} : steady'[v] \subseteq steady[v] \cap Present(table)'
    BY DEF Steadier
  <2> QED BY <1>4, <2>1, OthersKept
<1>6. \A k \in Calls : LeavesInv(k)'
  BY LeftKept
<1>7. IdsInv'
  <2>1. ASSUME NEW v \in Callers, Busy(v)'
        PROVE  call'[v].id # 0 /\ result'[call'[v].id] = "none"
    <3>1. CASE v = w
      BY <1>2, <2>1, <3>1
    <3>2. CASE v # w
      <4>1. Busy(v) /\ call[v].id # id
        BY <1>1, <1>4, <2>1, <3>2 DEF Frame, Busy
      <4>2. call[v].id \in Calls /\ call[v].id # 0 /\ result[call[v].id] = "none"
        BY <1>1, <1>3, <4>1 DEF Calls
      <4>3. result'[call[v].id] = result[call[v].id]
        BY <4>1, <4>2 DEF Frame
      <4> QED BY <4>2, <4>3
    <3> QED BY <3>1, <3>2
  <2>2. ASSUME NEW k \in Calls, k > issued PROVE result'[k] = "none"
    <3>1. k # id
      BY <1>2, <2>2 DEF Calls, BatchInv, BatchTypes
    <3>2. result'[k] = result[k]
      BY <3>1 DEF Frame
    <3> QED BY <1>1, <2>2, <3>2
  <2> QED BY <1>1, <2>1, <2>2 DEF IdsInv
<1> QED BY <1>5, <1>6, <1>7 DEF BatchInv

-----------------------------------------------------------------------------
(* Steps. *)

\* The types of what belongs to a caller.
LEMMA CallerType ==
  ASSUME BatchInv, NEW w \in Callers
  PROVE  /\ call[w] \in CallRecords /\ call[w].id \in 0 .. MaxCalls
         /\ call[w].keys \in Seq(Keys) /\ Len(call[w].keys) \in Nat
         /\ DOMAIN call[w].keys = 1 .. Len(call[w].keys)
         /\ next[w] \in Nat \ {0} /\ at[w] \in CallPoints
         /\ snap[w].table \in Tables /\ snap[w].version \in [Keys -> Nat]
         /\ out[w] \in RowList /\ page[w] \in Seq(Keys)
         /\ Busy(w) => call[w].id \in Calls /\ GoodCall(call[w])
<1>1. /\ call[w] \in CallRecords /\ next[w] \in Nat \ {0} /\ at[w] \in CallPoints
      /\ snap[w] \in [table : Tables, version : [Keys -> Nat]]
      /\ out[w] \in RowList /\ page[w] \in Seq(Keys)
  BY DEF BatchInv, BatchTypes
<1>2. call[w].id \in 0 .. MaxCalls /\ call[w].keys \in Seq(Keys)
  BY <1>1 DEF CallRecords
<1>3. Busy(w) => call[w].id \in Calls
  BY <1>2 DEF BatchInv, IdsInv, Calls
<1>4. Busy(w) => GoodCall(call[w])
  BY <1>1 DEF BatchInv, CallerInv, CallInv, GoodCall
<1> QED BY <1>1, <1>2, <1>3, <1>4

\* A transaction that takes no new lock leaves the lock with whoever has it.
LEMMA LockKept ==
  ASSUME BatchInv, NEW w \in Callers, NEW id, Frame(w, id),
         UNCHANGED <<table, version>>,
         engine = "sqlite" => TxInv(w)',
         engine = "sqlite" /\ HoldsWriteLock(w)' =>
           HoldsWriteLock(w) \/ \A v \in Callers : ~HoldsWriteLock(v)
  PROVE  LockInv'
<1> SUFFICES ASSUME engine = "sqlite" PROVE LockInv'
  BY DEF LockInv, Frame
<1>1. ASSUME NEW v \in Callers, v # w
      PROVE  TxInv(v)' /\ (HoldsWriteLock(v)' <=> HoldsWriteLock(v))
  <2>1. at'[v] = at[v] /\ next'[v] = next[v] /\ snap'[v] = snap[v] /\ call'[v] = call[v]
    BY <1>1 DEF Frame
  <2>2. /\ InTx(v)' <=> InTx(v)
        /\ IsWrite(v)' <=> IsWrite(v)
        /\ HoldsWriteLock(v)' <=> HoldsWriteLock(v)
    BY <2>1 DEF InTx, IsWrite, HoldsWriteLock
  <2>3. TxInv(v)
    BY DEF BatchInv, LockInv
  <2>4. After(table', call'[v], Does(call'[v], SqliteSingle))
          = After(table, call[v], Does(call[v], SqliteSingle))
    BY <2>1
  <2>5. TxInv(v)'
    <3> DEFINE f == After(table, call[v], Does(call[v], SqliteSingle))
               g == After(table', call'[v], Does(call'[v], SqliteSingle))
    <3>1. f = g
      BY <2>4
    <3>2. TxInv(v)' <=>
            (InTx(v)' /\ IsWrite(v)' =>
               /\ \A k \in Keys : snap'[v].version[k] <= version'[k]
               /\ next'[v] = 1 /\ snap'[v].version = version' => snap'[v].table = table'
               /\ next'[v] > 1 => snap'[v].version = version'
                                  /\ snap'[v].table = g[next'[v] - 1])
      BY DEF TxInv, Does, SqliteSingle
    <3>3. TxInv(v) <=>
            (InTx(v) /\ IsWrite(v) =>
               /\ \A k \in Keys : snap[v].version[k] <= version[k]
               /\ next[v] = 1 /\ snap[v].version = version => snap[v].table = table
               /\ next[v] > 1 => snap[v].version = version
                                 /\ snap[v].table = f[next[v] - 1])
      BY DEF TxInv
    <3> HIDE DEF f, g
    <3> QED BY <2>1, <2>2, <2>3, <3>1, <3>2, <3>3
  <2> QED BY <2>2, <2>5
<1>2. \A v \in Callers : TxInv(v)'
  BY <1>1
<1>3. \A u, v \in Callers : HoldsWriteLock(u) /\ HoldsWriteLock(v) => u = v
  BY DEF BatchInv, LockInv
<1>4. \A u, v \in Callers : HoldsWriteLock(u)' /\ HoldsWriteLock(v)' => u = v
  BY <1>1, <1>3
<1> QED BY <1>2, <1>4 DEF LockInv

\* A call returns without having changed the table.
LEMMA ReturnKeeps ==
  ASSUME BatchInv, NEW w \in Callers, Busy(w),
         NEW r \in {"nil", "error"}, NEW rs \in RowList, ReturnRows(w, r, rs),
         UNCHANGED <<engine, options, tableVars, steady, issueVars, readVars, next>>,
         r = "nil" => Executed(call[w].id) = DOMAIN done[call[w].id],
         r = "nil" /\ call[w].kind = "read" /\ engine \in {"sqlite", "tikv", "raw", "s3"} =>
           (engine = "sqlite" /\ retried[w]) \/ KeysOf(rs) = call[w].keys,
         r = "nil" /\ call[w].kind = "scan" =>
           Found(engine, KeysOf(rs), call[w], steady[w] \ skipped[w])
  PROVE  BatchInv'
<1> DEFINE id == call[w].id
<1>1. /\ result' = [result EXCEPT ![id] = r] /\ rows' = [rows EXCEPT ![id] = rs]
      /\ at' = [at EXCEPT ![w] = "idle"]
      /\ UNCHANGED <<engine, options, table, version, expect, done, steady, issued, call,
                     snap, out, page, skipped, retried, next>>
  BY DEF ReturnRows, MoveTo, tableVars, issueVars, readVars
<1>2. id \in Calls /\ BatchTypes
  BY CallerType DEF BatchInv
<1>3. BatchTypes'
  <2>1. at' \in [Callers -> CallPoints] /\ result' \in [Calls -> Results]
    BY <1>1, <1>2 DEF BatchTypes, CallPoints, Results
  <2>2. rows' \in [Calls -> RowList]
    BY <1>1, <1>2 DEF BatchTypes
  <2> QED BY <1>1, <1>2, <2>1, <2>2 DEF BatchTypes
<1>4. at'[w] = "idle" /\ result'[id] = r /\ rows'[id] = rs
  BY <1>1, <1>2 DEF BatchTypes
<1>5. Frame(w, id)
  BY <1>1, <1>2 DEF Frame, BatchTypes
<1>6. \A v \in Callers : SteadyInv(v)
  BY DEF BatchInv, CallerInv
<1>7. Steadier
  BY <1>1, <1>6 DEF Steadier, SteadyInv, Present
<1>8. CallerInv(w)'
  <2>1. ~Busy(w)' /\ ~InTx(w)' /\ at'[w] # "run"
    BY <1>4 DEF Busy, InTx
  <2>2. CallInv(w)' /\ ExecInv(w)' /\ ReadInv(w)' /\ ScanInv(w)'
    BY <2>1 DEF CallInv, ExecInv, ReadInv, ScanInv
  <2>3. SteadyInv(w)'
    BY <1>1, <1>6, <2>1 DEF SteadyInv, Present
  <2>4. ReadDone(w)'
    BY <1>1, <1>4 DEF ReadDone
  <2>5. ScanDone(w)'
    BY <1>1, <1>4 DEF ScanDone
  <2> QED BY <2>2, <2>3, <2>4, <2>5 DEF CallerInv
<1>9. LeavesInv(id)'
  <2>1. Executed(id)' = Executed(id) /\ done' = done /\ call' = call /\ engine' = engine
    BY <1>1 DEF Executed
  <2>2. result[id] = "none" /\ ExecInv(w) /\ LeavesInv(id)
    BY <1>2 DEF BatchInv, IdsInv, CallerInv
  <2>3. engine \in {"sqlite", "tikv"} => Executed(id) = {}
    <3>1. done[id] \in Seq({0, 1})
      BY <1>2 DEF BatchTypes
    <3> QED BY <2>2, <3>1 DEF ExecInv, Executed, Looped
  <2> QED BY <1>4, <2>1, <2>2, <2>3 DEF LeavesInv
<1>10. LockInv'
  <2>1. ~InTx(w)' /\ UNCHANGED <<table, version, call>>
    BY <1>1, <1>4 DEF InTx
  <2>2. TxInv(w)' /\ ~HoldsWriteLock(w)'
    BY <2>1 DEF TxInv, HoldsWriteLock
  <2> QED BY <1>5, <2>1, <2>2, LockKept
<1>11. SinglesInv' /\ OwnInv'
  BY <1>1 DEF BatchInv, SinglesInv, OwnInv
<1>12. ~Busy(w)' /\ UNCHANGED <<issued, call>>
  BY <1>1, <1>4 DEF Busy
<1> QED BY <1>3, <1>5, <1>7, <1>8, <1>9, <1>10, <1>11, <1>12, StepKeeps

\* A step of a call that changes nothing for others.
LEMMA InternalKeeps ==
  ASSUME BatchInv, NEW w \in Callers, Busy(w), Busy(w)', Frame(w, call[w].id), BatchTypes',
         UNCHANGED <<tableVars, steady, issueVars, returnVars>>,
         CallInv(w)', ExecInv(w)', ReadInv(w)', ScanInv(w)',
         at'[w] = "run" /\ call[w].kind = "scan" => steady[w] \subseteq Present(snap'[w].table),
         engine = "sqlite" => TxInv(w)',
         engine = "sqlite" /\ HoldsWriteLock(w)' =>
           (HoldsWriteLock(w) \/ \A v \in Callers : ~HoldsWriteLock(v)),
         engine # "mysql" => snap'[w].table \in [Keys -> OwnRow]
  PROVE  BatchInv'
<1> DEFINE id == call[w].id
<1>1. /\ UNCHANGED <<table, version, expect, done, steady, issued, call, result, rows>>
      /\ engine' = engine /\ options' = options
  BY DEF tableVars, issueVars, returnVars, Frame
<1>2. id \in Calls
  BY CallerType
<1>3. \A v \in Callers : SteadyInv(v)
  BY DEF BatchInv, CallerInv
<1>4. Steadier
  BY <1>1, <1>3 DEF Steadier, SteadyInv, Present
<1>5. CallerInv(w)'
  <2>1. SteadyInv(w)'
    BY <1>1, <1>3 DEF SteadyInv, Present
  <2>2. ReadDone(w)' /\ ScanDone(w)'
    BY DEF ReadDone, ScanDone, Busy
  <2> QED BY <2>1, <2>2 DEF CallerInv
<1>6. LeavesInv(id)'
  <2>1. Executed(id)' = Executed(id)
    BY <1>1 DEF Executed
  <2>2. LeavesInv(id)
    BY <1>2 DEF BatchInv
  <2> QED BY <1>1, <2>1, <2>2 DEF LeavesInv
<1>7. LockInv'
  BY <1>1, LockKept
<1>8. SinglesInv'
  BY <1>1 DEF BatchInv, SinglesInv
<1>9. OwnInv'
  <2>1. ASSUME engine # "mysql", NEW v \in Callers PROVE snap'[v].table \in [Keys -> OwnRow]
    <3>1. CASE v = w
      BY <2>1, <3>1
    <3>2. CASE v # w
      <4>1. snap'[v] = snap[v]
        BY <3>2 DEF Frame
      <4> QED BY <2>1, <4>1 DEF BatchInv, OwnInv
    <3> QED BY <3>1, <3>2
  <2> QED BY <1>1, <2>1 DEF BatchInv, OwnInv
<1>10. result'[id] = "none"
  BY <1>1 DEF BatchInv, IdsInv
<1>11. UNCHANGED <<issued, call>>
  BY <1>1
<1> QED BY <1>4, <1>5, <1>6, <1>7, <1>8, <1>9, <1>10, <1>11, StepKeeps

\* A call returns an error.
LEMMA ErrorKeeps ==
  ASSUME BatchInv, NEW w \in Callers, Busy(w), Return(w, "error"),
         UNCHANGED <<engine, options, tableVars, steady, issueVars, readVars, next>>
  PROVE  BatchInv'
<1>1. "error" \in {"nil", "error"} /\ "error" # "nil" /\ <<>> \in RowList
  BY DEF RowList
<1>2. ReturnRows(w, "error", <<>>)
  BY DEF Return
<1>3. PICK r \in {"nil", "error"} : r = "error"
  BY <1>1
<1>4. PICK rs \in RowList : rs = <<>>
  BY <1>1
<1>5. r # "nil" /\ ReturnRows(w, r, rs)
  BY <1>2, <1>3, <1>4
<1> QED BY <1>5, ReturnKeeps

\* Reads and scans have nothing to execute.
LEMMA NothingToExecute ==
  ASSUME BatchInv, NEW w \in Callers, Busy(w), call[w].kind \notin WriteKinds
  PROVE  Executed(call[w].id) = DOMAIN done[call[w].id] /\ done[call[w].id] = <<>>
<1>1. done[call[w].id] \in Seq({0, 1})
  BY CallerType DEF BatchInv, BatchTypes
<1>2. Len(done[call[w].id]) = 0
  BY DEF BatchInv, CallerInv, ExecInv
<1> QED BY <1>1, <1>2 DEF Executed

\* Every set of keys is finite.
LEMMA KeysFinite ==
  ASSUME NEW S \in SUBSET Keys
  PROVE  S \in SUBSET Int /\ IsFiniteSet(S)
<1>1. 1 \in Int /\ NumKeys \in Int
  BY BatchAssumption
<1>2. IsFiniteSet(Keys)
  BY <1>1, FS_Interval DEF Keys
<1>3. IsFiniteSet(S)
  BY <1>2, FS_Subset
<1>4. \A k \in S : k \in Int
  BY <1>1 DEF Keys
<1> QED BY <1>3, <1>4

\* The first rows of a table are what a Scan of it returns.
LEMMA FirstRowsScanned ==
  ASSUME NEW t \in Tables, NEW c, NEW S \in SUBSET Present(t), c.keys[1] \in Keys,
         c.count \in Nat \ {0}
  PROVE  /\ FirstRows(t, c.keys[1], c.count) \in RowList
         /\ Scanned(KeysOf(FirstRows(t, c.keys[1], c.count)), c, S)
<1> DEFINE F == {k \in Present(t) : k >= c.keys[1]}
           ks == InOrder(F)
           n == Len(ks)
           m == IF n < c.count THEN n ELSE c.count
           rs == [i \in 1 .. m |-> <<ks[i], t[ks[i]]>>]
           us == KeysOf(rs)
           start == c.keys[1]
<1>1. rs = FirstRows(t, c.keys[1], c.count)
  BY DEF FirstRows
<1>2. F \in SUBSET Int /\ IsFiniteSet(F) /\ \A k \in F : k \in Keys
  <2>1. F \in SUBSET Keys
    BY DEF Present
  <2> HIDE DEF F
  <2> QED BY <2>1, KeysFinite
<1>3. /\ n \in Nat /\ \A i \in 1 .. n : ks[i] \in F
      /\ Increasing(ks) /\ \A k \in F : \E i \in 1 .. n : ks[i] = k
  <2> HIDE DEF F
  <2>1. /\ Cardinality(F) \in Nat /\ ks \in Seq(F) /\ n = Cardinality(F) /\ Increasing(ks)
        /\ \A k \in F : \E i \in 1 .. Cardinality(F) : ks[i] = k
    BY <1>2, InOrderFacts
  <2> HIDE DEF ks
  <2> QED BY <2>1
<1>4. \A k \in F : k \in Int /\ k >= start /\ k \in Keys
  BY <1>2
<1> HIDE DEF ks
<1>5. m \in Nat /\ m <= n /\ m <= c.count
  BY <1>3
<1>6. rs \in RowList
  <2>1. \A i \in 1 .. m : <<ks[i], t[ks[i]]>> \in Keys \X AnyRow
    BY <1>3, <1>4, <1>5 DEF Tables
  <2> HIDE DEF m
  <2>2. rs \in [1 .. m -> Keys \X AnyRow]
    BY <2>1
  <2> QED BY <1>5, <2>2 DEF RowList
<1>7. DOMAIN us = 1 .. m /\ \A i \in 1 .. m : us[i] = ks[i]
  <2> HIDE DEF m
  <2> QED BY DEF KeysOf
<1>8. Len(us) = m
  <2>1. us \in Seq(Keys)
    <3>1. \A i \in 1 .. m : us[i] \in Keys
      BY <1>3, <1>4, <1>5, <1>7
    <3>2. us = [i \in 1 .. m |-> us[i]]
      <4> HIDE DEF m
      <4> QED BY DEF KeysOf
    <3> HIDE DEF us, m
    <3> QED BY <1>5, <3>1, <3>2
  <2> HIDE DEF us, m
  <2> QED BY <1>5, <1>7, <2>1
<1> HIDE DEF us, rs
<1>9. \A i \in 1 .. m : us[i] >= start
  <2> TAKE i \in 1 .. m
  <2>1. i \in 1 .. n
    BY <1>3, <1>5
  <2> HIDE DEF m
  <2> QED BY <1>3, <1>4, <1>7, <2>1
<1>10. Increasing(us)
  <2>1. \A i \in 1 .. m : i \in 1 .. n
    BY <1>3, <1>5
  <2> HIDE DEF m
  <2> QED BY <1>3, <1>7, <1>8, <2>1 DEF Increasing
<1>11. ASSUME NEW k \in S, k >= start, m < c.count \/ k < us[m]
       PROVE  \E i \in 1 .. m : us[i] = k
  <2>1. k \in F
    BY <1>11
  <2>2. PICK i \in 1 .. n : ks[i] = k
    BY <1>3, <2>1
  <2>3. CASE i <= m
    <3>1. i \in 1 .. m
      BY <1>5, <2>2, <2>3
    <3> HIDE DEF m
    <3> QED BY <1>7, <2>2, <3>1
  <2>4. CASE ~(i <= m)
    <3>1. m = c.count /\ m \in 1 .. m /\ m \in 1 .. n /\ m < i
      BY <1>3, <1>5, <2>2, <2>4
    <3> HIDE DEF m
    <3>2. k < us[m]
      BY <1>5, <1>11, <3>1
    <3>3. us[m] = ks[m]
      BY <1>7, <3>1
    <3>4. ks[m] < ks[i]
      BY <1>3, <3>1, <2>2 DEF Increasing
    <3>5. ks[m] \in Int /\ ks[i] \in Int
      BY <1>3, <1>4, <2>2, <3>1
    <3> QED BY <2>2, <3>2, <3>3, <3>4, <3>5
  <2> QED BY <2>3, <2>4
<1>12. Scanned(us, c, S)
  <2> HIDE DEF m
  <2> QED BY <1>5, <1>8, <1>9, <1>10, <1>11 DEF Scanned
<1> QED BY <1>1, <1>6, <1>12 DEF us

\* What a Scan in progress asks for.
LEMMA ScanCall ==
  ASSUME BatchInv, NEW w \in Callers, Busy(w), call[w].kind = "scan"
  PROVE  call[w].keys[1] \in Keys /\ call[w].count \in Nat \ {0}
<1>1. call[w] \in CallRecords /\ call[w].keys \in Seq(Keys)
  BY CallerType
<1>2. Len(call[w].keys) = 1 /\ call[w].count >= 1
  BY DEF BatchInv, CallerInv, CallInv
<1>3. call[w].count \in Nat
  BY <1>1 DEF CallRecords
<1> QED BY <1>1, <1>2, <1>3

\* The rows of a set of records, in some order.
LEMMA RowsOfSet ==
  ASSUME NEW t \in Tables, NEW S \in SUBSET Keys
  PROVE  LET rs == SetToSeq({<<k, t[k]>> : k \in S}) IN
         /\ rs \in RowList /\ Cardinality(S) \in Nat
         /\ KeysOf(rs) \in Seq(S) /\ Len(KeysOf(rs)) <= Cardinality(S)
         /\ \A i, j \in 1 .. Len(KeysOf(rs)) : i # j => KeysOf(rs)[i] # KeysOf(rs)[j]
<1> DEFINE R == {<<k, t[k]>> : k \in S}
           rs == SetToSeq(R)
           ks == KeysOf(rs)
<1>1. IsFiniteSet(S) /\ Cardinality(S) \in Nat
  BY KeysFinite, FS_CardinalityType
<1>2. IsFiniteSet(R) /\ Cardinality(R) <= Cardinality(S)
  <2> DEFINE pair == [k \in S |-> <<k, t[k]>>]
  <2>1. pair \in Surjection(S, R)
    BY DEF Surjection
  <2> HIDE DEF R, pair
  <2> QED BY <1>1, <2>1, FS_Surjection
<1>3. /\ Cardinality(R) \in Nat /\ rs \in Seq(R) /\ Len(rs) = Cardinality(R)
      /\ \A i, j \in 1 .. Cardinality(R) : rs[i] = rs[j] => i = j
  <2> HIDE DEF R
  <2> QED BY <1>2, SetToSeqFacts
<1>4. \A r \in R : r \in Keys \X AnyRow /\ r[1] \in S /\ r = <<r[1], t[r[1]]>>
  BY DEF Tables
<1> HIDE DEF R, rs
<1>5. rs \in RowList
  <2>1. \A r \in R : r \in Keys \X AnyRow
    BY <1>4
  <2> QED BY <1>3, <2>1 DEF RowList
<1>6. DOMAIN rs = 1 .. Cardinality(R) /\ \A i \in DOMAIN rs : rs[i] \in R
  BY <1>3
<1>7. DOMAIN ks = 1 .. Cardinality(R) /\ \A i \in DOMAIN ks : ks[i] = rs[i][1] /\ ks[i] \in S
  BY <1>4, <1>6 DEF KeysOf
<1>8. ks \in Seq(S) /\ Len(ks) = Cardinality(R)
  <2>1. ks = [i \in 1 .. Cardinality(R) |-> ks[i]]
    BY <1>6 DEF KeysOf
  <2> HIDE DEF ks
  <2>2. ks \in Seq(S)
    BY <1>3, <1>7, <2>1
  <2> QED BY <1>3, <1>7, <2>2
<1>9. \A i, j \in 1 .. Len(ks) : i # j => ks[i] # ks[j]
  <2> HIDE DEF ks
  <2> QED BY <1>3, <1>4, <1>6, <1>7, <1>8
<1> QED BY <1>1, <1>2, <1>3, <1>5, <1>8, <1>9 DEF rs, R

\* A call that does not write returns.
LEMMA ReadReturns ==
  ASSUME BatchInv, NEW w \in Callers, Busy(w), call[w].kind \notin WriteKinds,
         NEW rs \in RowList, ReturnRows(w, "nil", rs),
         UNCHANGED <<engine, options, tableVars, steady, issueVars, readVars, next>>,
         call[w].kind = "read" /\ engine \in {"sqlite", "tikv", "raw", "s3"} =>
           (engine = "sqlite" /\ retried[w]) \/ KeysOf(rs) = call[w].keys,
         call[w].kind = "scan" => Found(engine, KeysOf(rs), call[w], steady[w] \ skipped[w])
  PROVE  BatchInv'
<1>1. PICK r \in {"nil", "error"} : r = "nil"
  OBVIOUS
<1>2. ReturnRows(w, r, rs)
  BY <1>1
<1>3. Executed(call[w].id) = DOMAIN done[call[w].id]
  BY NothingToExecute
<1> QED BY <1>2, <1>3, ReturnKeeps

\* A Scan returns the first rows of a table.
LEMMA ScanReturns ==
  ASSUME BatchInv, NEW w \in Callers, Busy(w), call[w].kind = "scan", engine # "pg",
         NEW t \in Tables, steady[w] \subseteq Present(t),
         ReturnRows(w, "nil", FirstRows(t, call[w].keys[1], call[w].count)),
         UNCHANGED <<engine, options, tableVars, steady, issueVars, readVars, next>>
  PROVE  BatchInv'
<1>1. PICK S \in SUBSET Present(t) : S = steady[w] \ skipped[w]
  OBVIOUS
<1>2. call[w].keys[1] \in Keys /\ call[w].count \in Nat \ {0}
  BY ScanCall
<1>3. /\ FirstRows(t, call[w].keys[1], call[w].count) \in RowList
      /\ Scanned(KeysOf(FirstRows(t, call[w].keys[1], call[w].count)), call[w], S)
  BY <1>2, FirstRowsScanned
<1>4. Found(engine, KeysOf(FirstRows(t, call[w].keys[1], call[w].count)), call[w],
            steady[w] \ skipped[w])
  BY <1>1, <1>3 DEF Found
<1>5. call[w].kind \notin WriteKinds /\ call[w].kind # "read"
  BY DEF WriteKinds
<1> HIDE DEF FirstRows
<1> QED BY <1>3, <1>4, <1>5, ReadReturns

\* The table and the steady records of a caller.
LEMMA TableFacts ==
  ASSUME BatchInv, NEW w \in Callers
  PROVE  table \in Tables /\ expect \in Tables /\ steady[w] \subseteq Present(table)
BY DEF BatchInv, BatchTypes, CallerInv, SteadyInv

-----------------------------------------------------------------------------
(* The steps of the adapters. *)

\* mysql: Scan reads the first rows of the table in one statement.
LEMMA MysqlScanKeeps ==
  ASSUME BatchInv, NEW w \in Callers, engine = "mysql", UNCHANGED <<engine, options>>,
         MysqlScan(w)
  PROVE  BatchInv'
<1>1. Busy(w) /\ call[w].kind = "scan" /\ engine # "pg"
      /\ UNCHANGED <<engine, options, tableVars, steady, issueVars, readVars, next>>
  BY DEF MysqlScan, Busy
<1>2. \/ ReturnRows(w, "nil", FirstRows(table, call[w].keys[1], call[w].count))
      \/ Return(w, "error")
  BY DEF MysqlScan
<1>3. table \in Tables /\ steady[w] \subseteq Present(table)
  BY TableFacts
<1> QED BY <1>1, <1>2, <1>3, ScanReturns, ErrorKeeps

\* raw: Scan reads the first rows of the table in one call.
LEMMA RawScanKeeps ==
  ASSUME BatchInv, NEW w \in Callers, engine = "raw", UNCHANGED <<engine, options>>,
         RawScan(w)
  PROVE  BatchInv'
<1>1. Busy(w) /\ call[w].kind = "scan" /\ engine # "pg"
      /\ UNCHANGED <<engine, options, tableVars, steady, issueVars, readVars, next>>
  BY DEF RawScan, Busy
<1>2. \/ ReturnRows(w, "nil", FirstRows(table, call[w].keys[1], call[w].count))
      \/ Return(w, "error")
  BY DEF RawScan
<1>3. table \in Tables /\ steady[w] \subseteq Present(table)
  BY TableFacts
<1> QED BY <1>1, <1>2, <1>3, ScanReturns, ErrorKeeps

\* tikv: Scan reads the first rows of its snapshot.
LEMMA TxnScanKeeps ==
  ASSUME BatchInv, NEW w \in Callers, engine = "tikv", UNCHANGED <<engine, options>>,
         TxnScan(w)
  PROVE  BatchInv'
<1>1. Busy(w) /\ call[w].kind = "scan" /\ engine # "pg" /\ at[w] = "run"
      /\ UNCHANGED <<engine, options, tableVars, steady, issueVars, readVars, next>>
  BY DEF TxnScan, Busy
<1>2. \/ ReturnRows(w, "nil", FirstRows(snap[w].table, call[w].keys[1], call[w].count))
      \/ Return(w, "error")
  BY DEF TxnScan
<1>3. snap[w].table \in Tables
  BY CallerType
<1>4. steady[w] \subseteq Present(snap[w].table)
  BY <1>1 DEF BatchInv, CallerInv, SteadyInv
<1> QED BY <1>1, <1>2, <1>3, <1>4, ScanReturns, ErrorKeeps

\* mysql: BatchRead returns the rows that the statement finds, in any order.
LEMMA MysqlBatchReadKeeps ==
  ASSUME BatchInv, NEW w \in Callers, engine = "mysql", UNCHANGED <<engine, options>>,
         MysqlBatchRead(w)
  PROVE  BatchInv'
<1> DEFINE found == {k \in Present(table) : \E i \in DOMAIN call[w].keys :
                                              call[w].keys[i] = k}
           rs == SetToSeq({<<k, table[k]>> : k \in found})
<1>1. Busy(w) /\ call[w].kind = "read"
      /\ UNCHANGED <<engine, options, tableVars, steady, issueVars, readVars, next>>
  BY DEF MysqlBatchRead, Busy
<1>2. ReturnRows(w, "nil", rs) \/ Return(w, "error")
  BY DEF MysqlBatchRead
<1>3. found \in SUBSET Keys
  BY DEF Present
<1> HIDE DEF found
<1>4. rs \in RowList
  BY <1>3, TableFacts, RowsOfSet
<1>5. call[w].kind \notin WriteKinds /\ call[w].kind # "scan"
      /\ engine \notin {"sqlite", "tikv", "raw", "s3"}
  BY <1>1 DEF WriteKinds
<1> HIDE DEF rs
<1> QED BY <1>1, <1>2, <1>4, <1>5, ReadReturns, ErrorKeeps

\* pg: Scan returns count rows from the start key on, not the first ones.
LEMMA PgScanKeeps ==
  ASSUME BatchInv, NEW w \in Callers, engine = "pg", UNCHANGED <<engine, options>>,
         PgScan(w)
  PROVE  BatchInv'
<1> DEFINE from == {k \in Present(table) : k >= call[w].keys[1]}
<1>1. Busy(w) /\ call[w].kind = "scan"
      /\ UNCHANGED <<engine, options, tableVars, steady, issueVars, readVars, next>>
  BY DEF PgScan, Busy
<1>2. \/ \E S \in SUBSET from :
           /\ Cardinality(S) = call[w].count \/ (Cardinality(S) < call[w].count /\ S = from)
           /\ ReturnRows(w, "nil", SetToSeq({<<k, table[k]>> : k \in S}))
      \/ Return(w, "error")
  BY DEF PgScan
<1>3. ASSUME NEW S \in SUBSET from,
             Cardinality(S) = call[w].count \/ (Cardinality(S) < call[w].count /\ S = from),
             ReturnRows(w, "nil", SetToSeq({<<k, table[k]>> : k \in S}))
      PROVE  BatchInv'
  <2> DEFINE rs == SetToSeq({<<k, table[k]>> : k \in S})
             ks == KeysOf(rs)
  <2>1. S \in SUBSET Keys /\ \A k \in S : k >= call[w].keys[1]
    BY DEF Present
  <2>2. /\ rs \in RowList /\ Cardinality(S) \in Nat
        /\ ks \in Seq(S) /\ Len(ks) <= Cardinality(S)
        /\ \A i, j \in 1 .. Len(ks) : i # j => ks[i] # ks[j]
    BY <2>1, TableFacts, RowsOfSet
  <2>3. call[w].count \in Nat
    BY <1>1, ScanCall
  <2>5. call[w].kind \notin WriteKinds /\ call[w].kind # "read" /\ ReturnRows(w, "nil", rs)
    BY <1>1, <1>3 DEF WriteKinds
  <2> HIDE DEF rs, from
  <2>4. Found(engine, ks, call[w], steady[w] \ skipped[w])
    <3> HIDE DEF ks
    <3>1. Len(ks) \in Nat /\ Len(ks) <= call[w].count
      BY <1>3, <2>2, <2>3
    <3>2. \A i \in 1 .. Len(ks) : ks[i] \in S
      BY <2>2
    <3>3. \A i \in 1 .. Len(ks) : ks[i] >= call[w].keys[1]
      BY <2>1, <3>2
    <3> QED BY <2>2, <3>1, <3>3 DEF Found
  <2> QED BY <1>1, <2>2, <2>4, <2>5, ReadReturns
<1> QED BY <1>1, <1>2, <1>3, ErrorKeeps

\* tikv: BatchRead returns a row for each key of the call, from its snapshot.
LEMMA TxnBatchReadKeeps ==
  ASSUME BatchInv, NEW w \in Callers, engine = "tikv", UNCHANGED <<engine, options>>,
         TxnBatchRead(w)
  PROVE  BatchInv'
<1> DEFINE c == call[w]
           row(F, i) == IF i \in F THEN NoRow ELSE snap[w].table[c.keys[i]]
<1>1. Busy(w) /\ call[w].kind = "read"
      /\ UNCHANGED <<engine, options, tableVars, steady, issueVars, readVars, next>>
  BY DEF TxnBatchRead, Busy
<1>2. PICK F : ReturnRows(w, "nil", [i \in DOMAIN c.keys |-> <<c.keys[i], row(F, i)>>])
  BY DEF TxnBatchRead
<1> DEFINE rs == [i \in DOMAIN c.keys |-> <<c.keys[i], row(F, i)>>]
<1>3. /\ c.keys \in Seq(Keys) /\ Len(c.keys) \in Nat /\ DOMAIN c.keys = 1 .. Len(c.keys)
      /\ snap[w].table \in [Keys -> AnyRow]
  BY CallerType DEF Tables
<1>4. \A i \in 1 .. Len(c.keys) : c.keys[i] \in Keys /\ row(F, i) \in AnyRow
  BY <1>3 DEF AnyRow
<1>5. rs \in RowList
  <2> HIDE DEF row
  <2>1. \A i \in 1 .. Len(c.keys) : <<c.keys[i], row(F, i)>> \in Keys \X AnyRow
    BY <1>4
  <2> QED BY <1>3, <2>1 DEF RowList
<1>6. KeysOf(rs) = c.keys
  <2> HIDE DEF row
  <2>1. KeysOf(rs) = [i \in DOMAIN c.keys |-> c.keys[i]]
    BY DEF KeysOf
  <2> QED BY <1>3, <2>1
<1>7. call[w].kind \notin WriteKinds /\ call[w].kind # "scan"
  BY <1>1 DEF WriteKinds
<1> HIDE DEF rs
<1>8. ReturnRows(w, "nil", rs)
  BY <1>2 DEF rs
<1> QED BY <1>1, <1>5, <1>6, <1>7, <1>8, ReadReturns

\* sqlite: a rollback leaves the table as it was.
LEMMA SqliteRollbackKeeps ==
  ASSUME BatchInv, NEW w \in Callers, engine = "sqlite", UNCHANGED <<engine, options>>,
         SqliteRollback(w)
  PROVE  BatchInv'
<1>1. Busy(w) /\ Return(w, "error")
      /\ UNCHANGED <<engine, options, tableVars, steady, issueVars, readVars, next>>
  BY DEF SqliteRollback, Busy
<1> QED BY <1>1, ErrorKeeps

\* raw: the call returns nil when all records are stored, an error at any time.
LEMMA RawBatchWriteKeeps ==
  ASSUME BatchInv, NEW w \in Callers, engine = "raw", UNCHANGED <<engine, options>>,
         RawBatchWrite(w)
  PROVE  BatchInv'
<1>1. Busy(w) /\ call[w].kind \in WriteKinds
      /\ UNCHANGED <<engine, options, tableVars, steady, issueVars, readVars, next>>
  BY DEF RawBatchWrite, Busy, WriteKinds
<1>2. CASE Return(w, "error")
  BY <1>1, <1>2, ErrorKeeps
<1>3. CASE (\A i \in DOMAIN call[w].keys : done[call[w].id][i] > 0) /\ Return(w, "nil")
  <2>1. PICK r \in {"nil", "error"} : r = "nil"
    OBVIOUS
  <2>8. <<>> \in RowList
    BY DEF RowList
  <2>2. PICK rs \in RowList : rs = <<>>
    BY <2>8
  <2>3. ReturnRows(w, r, rs)
    BY <1>3, <2>1, <2>2 DEF Return
  <2>4. done[call[w].id] \in Seq({0, 1}) /\ DOMAIN call[w].keys = 1 .. Len(call[w].keys)
    BY <1>1, CallerType DEF BatchInv, BatchTypes
  <2>5. Len(done[call[w].id]) = Len(call[w].keys)
    BY <1>1 DEF BatchInv, CallerInv, ExecInv
  <2>6. Executed(call[w].id) = DOMAIN done[call[w].id]
    BY <1>3, <2>4, <2>5 DEF Executed
  <2>7. call[w].kind # "read" /\ call[w].kind # "scan"
    BY <1>1 DEF WriteKinds
  <2> QED BY <1>1, <2>3, <2>6, <2>7, ReturnKeeps
<1> QED BY <1>2, <1>3 DEF RawBatchWrite

\* The snapshots that a transaction can have.
Snaps == [table : Tables, version : [Keys -> Nat]]

\* Caller w goes to point a and record n, with snapshot s, rows o, listed keys p, skipped
\* records k and the mark b.
Moves(w, a, n, s, o, p, k, b) ==
  /\ at' = [at EXCEPT ![w] = a] /\ next' = [next EXCEPT ![w] = n]
  /\ snap' = [snap EXCEPT ![w] = s] /\ out' = [out EXCEPT ![w] = o]
  /\ page' = [page EXCEPT ![w] = p] /\ skipped' = [skipped EXCEPT ![w] = k]
  /\ retried' = [retried EXCEPT ![w] = b]

\* Where the call of w may go.
CallOk(w, a, n) ==
  LET c == call[w]
      m == Len(c.keys) IN
  /\ a \in CallPoints \ {"idle"} /\ n \in Nat \ {0}
  /\ c.kind # "scan" => n <= m + 1
  /\ a = "run" => engine \in {"sqlite", "tikv"}
  /\ a = "commit" => engine = "sqlite" /\ n > m
  /\ a = "merge" => /\ engine = "s3" /\ c.kind = "update"
                    /\ ~options.overwrite /\ n <= m
  /\ a \in {"list", "item"} => engine = "s3" /\ c.kind = "scan"
  /\ c.kind \in WriteKinds /\ Looped(w) => n = next[w]

\* The rows it may have then.
RowsOk(w, a, n, o, p, k, b) ==
  LET c == call[w]
      ks == KeysOf(o)
      S == steady[w] \ k IN
  /\ o \in RowList /\ p \in Seq(Keys) /\ k \in SUBSET Keys /\ b \in BOOLEAN
  /\ c.kind = "read" /\ engine \in {"sqlite", "raw", "s3"} =>
       \/ engine = "sqlite" /\ b
       \/ ReadSoFar(o, c.keys, n) /\ (engine = "sqlite" /\ a = "begin" => n = 1)
  /\ c.kind = "scan" =>
       /\ engine = "s3" /\ a = "begin" => o = <<>>
       /\ engine = "sqlite" /\ a \in {"run", "commit"} /\ n > 1 => Scanned(ks, c, S)
       /\ a \in {"list", "item"} => ScannedTo(ks, c, S, n)
       /\ a = "item" => Len(o) + Len(p) <= c.count /\ Listed(p, n, steady[w], b)

\* And its snapshot.
SnapOk(w, a, n, s) ==
  LET c == call[w] IN
  /\ s \in Snaps
  /\ engine # "mysql" => s.table \in [Keys -> OwnRow]
  /\ a = "run" /\ c.kind = "scan" => steady[w] \subseteq Present(s.table)
  /\ engine = "sqlite" /\ a \in {"run", "commit"} /\ IsWrite(w) =>
       /\ \A k \in Keys : s.version[k] <= version[k]
       /\ n = 1 /\ s.version = version => s.table = table
       /\ n > 1 => /\ s.version = version
                   /\ s.table = After(table, c, Does(c, SqliteSingle))[n - 1]
                   /\ HoldsWriteLock(w) \/ \A v \in Callers : ~HoldsWriteLock(v)

\* What the functions of the callers are after such a step.
LEMMA MovesFacts ==
  ASSUME BatchInv, NEW w \in Callers, Busy(w), NEW a, NEW n, NEW s, NEW o, NEW p, NEW k, NEW b,
         Moves(w, a, n, s, o, p, k, b),
         CallOk(w, a, n), RowsOk(w, a, n, o, p, k, b), SnapOk(w, a, n, s),
         UNCHANGED <<engine, options, tableVars, steady, issueVars, returnVars>>
  PROVE  /\ BatchTypes' /\ Frame(w, call[w].id)
         /\ at'[w] = a /\ next'[w] = n /\ snap'[w] = s /\ out'[w] = o /\ page'[w] = p
         /\ skipped'[w] = k /\ retried'[w] = b
<1>1. /\ a \in CallPoints /\ n \in Nat \ {0} /\ s \in [table : Tables, version : [Keys -> Nat]]
      /\ o \in RowList /\ p \in Seq(Keys) /\ k \in SUBSET Keys /\ b \in BOOLEAN
  BY DEF CallOk, RowsOk, SnapOk, Snaps
<1>2. BatchTypes
  BY DEF BatchInv
<1>3. UNCHANGED <<engine, options, table, version, expect, done, steady, issued, call, result,
                  rows>>
  BY DEF tableVars, issueVars, returnVars
<1>4. /\ at' \in [Callers -> CallPoints] /\ next' \in [Callers -> Nat \ {0}]
      /\ at'[w] = a /\ next'[w] = n
      /\ \A v \in Callers \ {w} : at'[v] = at[v] /\ next'[v] = next[v]
  BY <1>1, <1>2 DEF BatchTypes, Moves
<1>5. /\ snap' \in [Callers -> [table : Tables, version : [Keys -> Nat]]]
      /\ snap'[w] = s /\ \A v \in Callers \ {w} : snap'[v] = snap[v]
  BY <1>1, <1>2 DEF BatchTypes, Moves
<1>6. /\ out' \in [Callers -> RowList] /\ page' \in [Callers -> Seq(Keys)]
      /\ out'[w] = o /\ page'[w] = p
      /\ \A v \in Callers \ {w} : out'[v] = out[v] /\ page'[v] = page[v]
  BY <1>1, <1>2 DEF BatchTypes, Moves
<1>7. /\ skipped' \in [Callers -> SUBSET Keys]
      /\ skipped'[w] = k /\ \A v \in Callers \ {w} : skipped'[v] = skipped[v]
  BY <1>1, <1>2 DEF BatchTypes, Moves
<1>8. /\ retried' \in [Callers -> BOOLEAN]
      /\ retried'[w] = b /\ \A v \in Callers \ {w} : retried'[v] = retried[v]
  BY <1>1, <1>2 DEF BatchTypes, Moves
<1>9. BatchTypes'
  BY <1>2, <1>3, <1>4, <1>5, <1>6, <1>7, <1>8 DEF BatchTypes
<1>10. Frame(w, call[w].id)
  BY <1>3, <1>4, <1>5, <1>6, <1>7, <1>8 DEF Frame
<1> QED BY <1>4, <1>5, <1>6, <1>7, <1>8, <1>9, <1>10

\* A step that moves a caller on.
LEMMA MoveKeeps ==
  ASSUME BatchInv, NEW w \in Callers, Busy(w), NEW a, NEW n, NEW s, NEW o, NEW p, NEW k, NEW b,
         Moves(w, a, n, s, o, p, k, b),
         CallOk(w, a, n), RowsOk(w, a, n, o, p, k, b), SnapOk(w, a, n, s),
         UNCHANGED <<engine, options, tableVars, steady, issueVars, returnVars>>
  PROVE  BatchInv'
<1>1. /\ BatchTypes' /\ Frame(w, call[w].id)
      /\ at'[w] = a /\ next'[w] = n /\ snap'[w] = s /\ out'[w] = o /\ page'[w] = p
      /\ skipped'[w] = k /\ retried'[w] = b
  BY MovesFacts
<1>2. UNCHANGED <<engine, options, table, version, expect, done, steady, issued, call, result,
                  rows>>
  BY DEF tableVars, issueVars, returnVars
<1>3. CallInv(w) /\ ExecInv(w) /\ next[w] \in Nat
  BY CallerType DEF BatchInv, CallerInv
<1>4. Busy(w)' /\ a # "idle"
  BY <1>1 DEF Busy, CallOk
<1>5. CallInv(w)'
  BY <1>1, <1>2, <1>3 DEF CallInv, CallOk
<1>6. ExecInv(w)'
  <2>1. done[call[w].id] \in Seq({0, 1})
    BY CallerType DEF BatchInv, BatchTypes
  <2>2. call[w].kind \in WriteKinds /\ Looped(w) => n = next[w]
    BY DEF CallOk
  <2>3. Looped(w)' <=> Looped(w)
    BY <1>2 DEF Looped
  <2> QED BY <1>1, <1>2, <1>3, <1>4, <2>1, <2>2, <2>3 DEF ExecInv
<1>7. ReadInv(w)'
  BY <1>1, <1>2 DEF ReadInv, RowsOk
<1>8. ScanInv(w)'
  BY <1>1, <1>2 DEF ScanInv, RowsOk, InTx
<1>9. /\ at'[w] = "run" /\ call[w].kind = "scan" => steady[w] \subseteq Present(snap'[w].table)
      /\ engine # "mysql" => snap'[w].table \in [Keys -> OwnRow]
  BY <1>1 DEF SnapOk
<1>10. (InTx(w)' <=> a \in {"run", "commit"}) /\ (IsWrite(w)' <=> IsWrite(w))
       /\ (HoldsWriteLock(w)' <=> a \in {"run", "commit"} /\ IsWrite(w) /\ n > 1)
  BY <1>1, <1>2 DEF InTx, IsWrite, HoldsWriteLock
<1>11. engine = "sqlite" /\ HoldsWriteLock(w)' =>
         (HoldsWriteLock(w) \/ \A v \in Callers : ~HoldsWriteLock(v))
  BY <1>10 DEF SnapOk
<1>12. engine = "sqlite" => TxInv(w)'
  <2> SUFFICES ASSUME engine = "sqlite" PROVE TxInv(w)'
    OBVIOUS
  <2> DEFINE f == After(table, call[w], Does(call[w], SqliteSingle))
             g == After(table', call'[w], Does(call'[w], SqliteSingle))
  <2>1. f = g
    BY <1>2
  <2>2. TxInv(w)' <=>
          (InTx(w)' /\ IsWrite(w)' =>
             /\ \A i \in Keys : snap'[w].version[i] <= version'[i]
             /\ next'[w] = 1 /\ snap'[w].version = version' => snap'[w].table = table'
             /\ next'[w] > 1 => snap'[w].version = version'
                                /\ snap'[w].table = g[next'[w] - 1])
    BY DEF TxInv, Does, SqliteSingle
  <2>3. a \in {"run", "commit"} /\ IsWrite(w) =>
          /\ \A i \in Keys : s.version[i] <= version[i]
          /\ n = 1 /\ s.version = version => s.table = table
          /\ n > 1 => s.version = version /\ s.table = f[n - 1]
    BY DEF SnapOk
  <2> HIDE DEF f, g
  <2> QED BY <1>1, <1>2, <1>10, <2>1, <2>2, <2>3
<1>13. UNCHANGED <<tableVars, steady, issueVars, returnVars>>
  OBVIOUS
<1> QED BY <1>1, <1>4, <1>5, <1>6, <1>7, <1>8, <1>9, <1>11, <1>12, <1>13, InternalKeeps

\* What a caller keeps.
LEMMA Stays ==
  ASSUME BatchInv, NEW w \in Callers
  PROVE  /\ at = [at EXCEPT ![w] = at[w]] /\ next = [next EXCEPT ![w] = next[w]]
         /\ snap = [snap EXCEPT ![w] = snap[w]] /\ out = [out EXCEPT ![w] = out[w]]
         /\ page = [page EXCEPT ![w] = page[w]] /\ skipped = [skipped EXCEPT ![w] = skipped[w]]
         /\ retried = [retried EXCEPT ![w] = retried[w]]
         /\ snap[w] \in Snaps /\ skipped[w] \in SUBSET Keys /\ retried[w] \in BOOLEAN
         /\ engine # "mysql" => snap[w].table \in [Keys -> OwnRow]
<1>1. /\ at = [at EXCEPT ![w] = at[w]] /\ next = [next EXCEPT ![w] = next[w]]
      /\ snap = [snap EXCEPT ![w] = snap[w]] /\ out = [out EXCEPT ![w] = out[w]]
      /\ page = [page EXCEPT ![w] = page[w]] /\ skipped = [skipped EXCEPT ![w] = skipped[w]]
      /\ retried = [retried EXCEPT ![w] = retried[w]]
  BY DEF BatchInv, BatchTypes
<1>2. snap[w] \in Snaps /\ skipped[w] \in SUBSET Keys
  BY DEF BatchInv, BatchTypes, Snaps
<1>3. retried[w] \in BOOLEAN
  BY DEF BatchInv, BatchTypes
<1>4. engine # "mysql" => snap[w].table \in [Keys -> OwnRow]
  BY DEF BatchInv, OwnInv
<1> QED BY <1>1, <1>2, <1>3, <1>4

\* The next record of a read.
LEMMA NextRead ==
  ASSUME BatchInv, NEW w \in Callers, next[w] \in DOMAIN call[w].keys, NEW row \in AnyRow
  PROVE  LET o == Append(out[w], <<call[w].keys[next[w]], row>>) IN
         /\ o \in RowList
         /\ next[w] + 1 \in Nat \ {0} /\ next[w] + 1 <= Len(call[w].keys) + 1
         /\ ReadSoFar(out[w], call[w].keys, next[w]) =>
              ReadSoFar(o, call[w].keys, next[w] + 1)
<1> DEFINE ks == call[w].keys
           n == next[w]
           u == out[w]
           r == <<ks[n], row>>
           o == Append(u, r)
<1>1. /\ ks \in Seq(Keys) /\ Len(ks) \in Nat /\ n \in 1 .. Len(ks) /\ n \in Nat
      /\ u \in Seq(Keys \X AnyRow)
  BY CallerType DEF RowList
<1>2. r \in Keys \X AnyRow /\ r[1] = ks[n]
  BY <1>1
<1> HIDE DEF r, ks, n, u
<1>3. /\ o \in RowList /\ Len(o) = Len(u) + 1 /\ Len(u) \in Nat
      /\ \A i \in 1 .. Len(u) : o[i] = u[i]
      /\ o[Len(u) + 1] = r
  BY <1>1, <1>2 DEF RowList
<1> HIDE DEF o
<1>4. n + 1 \in Nat \ {0} /\ n + 1 <= Len(ks) + 1
  BY <1>1
<1>5. ASSUME ReadSoFar(u, ks, n) PROVE ReadSoFar(o, ks, n + 1)
  <2>1. Len(u) = n - 1 /\ \A i \in 1 .. Len(u) : i <= Len(ks) /\ u[i][1] = ks[i]
    BY <1>5 DEF ReadSoFar
  <2>2. Len(o) = n /\ n + 1 - 1 = n
    BY <1>1, <1>3, <2>1
  <2>3. ASSUME NEW i \in 1 .. n PROVE i <= Len(ks) /\ o[i][1] = ks[i]
    <3>1. CASE i = n
      BY <1>1, <1>2, <1>3, <2>1, <3>1
    <3>2. CASE i # n
      <4>1. i \in 1 .. Len(u)
        BY <1>1, <2>1, <2>3, <3>2
      <4> QED BY <1>3, <2>1, <4>1
    <3> QED BY <3>1, <3>2
  <2> QED BY <2>2, <2>3 DEF ReadSoFar
<1> QED BY <1>3, <1>4, <1>5 DEF o, r, ks, n, u

\* A read that has all records.
LEMMA AllRead ==
  ASSUME BatchInv, NEW w \in Callers, Busy(w), call[w].kind = "read",
         next[w] \notin DOMAIN call[w].keys, ReadSoFar(out[w], call[w].keys, next[w])
  PROVE  KeysOf(out[w]) = call[w].keys
<1> DEFINE ks == call[w].keys
           n == next[w]
           u == out[w]
<1>1. /\ ks \in Seq(Keys) /\ Len(ks) \in Nat /\ n \in Nat \ {0} /\ n \notin 1 .. Len(ks)
      /\ u \in Seq(Keys \X AnyRow)
  BY CallerType DEF RowList
<1>2. n <= Len(ks) + 1
  BY DEF BatchInv, CallerInv, CallInv
<1>3. Len(u) = n - 1 /\ \A i \in 1 .. Len(u) : u[i][1] = ks[i]
  BY DEF ReadSoFar
<1> HIDE DEF ks, n, u
<1>4. Len(u) = Len(ks)
  BY <1>1, <1>2, <1>3
<1>5. DOMAIN u = 1 .. Len(u)
  BY <1>1
<1>6. KeysOf(u) = [i \in 1 .. Len(ks) |-> ks[i]]
  BY <1>3, <1>4, <1>5 DEF KeysOf
<1>7. ks = [i \in 1 .. Len(ks) |-> ks[i]]
  BY <1>1
<1>8. KeysOf(u) = ks
  BY <1>6, <1>7
<1> QED BY <1>8 DEF ks, u

\* What a read of raw and s3 has so far.
LEMMA ReadHas ==
  ASSUME BatchInv, NEW w \in Callers, Busy(w), call[w].kind = "read",
         engine \in {"raw", "s3"} \/ (engine = "sqlite" /\ ~retried[w])
  PROVE  ReadSoFar(out[w], call[w].keys, next[w])
BY DEF BatchInv, CallerInv, ReadInv

\* One more record of a read, outside of a transaction.
LEMMA ReadMore ==
  ASSUME BatchInv, NEW w \in Callers, engine \in {"raw", "s3"}, at[w] = "begin",
         call[w].kind = "read", next[w] \in DOMAIN call[w].keys,
         out' = [out EXCEPT ![w] = Append(@, <<call[w].keys[next[w]],
                                               table[call[w].keys[next[w]]]>>)],
         next' = [next EXCEPT ![w] = @ + 1],
         UNCHANGED <<engine, options, at, tableVars, steady, issueVars, snap, page, skipped,
                     retried, returnVars>>
  PROVE  BatchInv'
<1> DEFINE k == call[w].keys[next[w]]
           o == Append(out[w], <<k, table[k]>>)
           n == next[w] + 1
<1>1. Busy(w) /\ call[w].kind \notin WriteKinds
  BY DEF Busy, WriteKinds
<1>2. table[k] \in AnyRow
  <2>1. k \in Keys
    BY CallerType
  <2> QED BY <2>1, TableFacts DEF Tables
<1>3. ReadSoFar(out[w], call[w].keys, next[w])
  BY <1>1, ReadHas
<1>4. /\ o \in RowList /\ n \in Nat \ {0} /\ n <= Len(call[w].keys) + 1
      /\ ReadSoFar(o, call[w].keys, n)
  BY <1>2, <1>3, NextRead
<1>5. Moves(w, at[w], n, snap[w], o, page[w], skipped[w], retried[w])
  BY Stays DEF Moves
<1> HIDE DEF o, n
<1>6. CallOk(w, at[w], n)
  BY <1>1, <1>4 DEF CallOk, CallPoints
<1>7. RowsOk(w, at[w], n, o, page[w], skipped[w], retried[w])
  BY <1>4, Stays, CallerType DEF RowsOk
<1>8. SnapOk(w, at[w], n, snap[w])
  BY Stays DEF SnapOk
<1>9. UNCHANGED <<engine, options, tableVars, steady, issueVars, returnVars>>
  OBVIOUS
<1> QED BY <1>1, <1>5, <1>6, <1>7, <1>8, <1>9, MoveKeeps

\* raw: BatchRead gets one record after the other.
LEMMA RawBatchReadKeeps ==
  ASSUME BatchInv, NEW w \in Callers, engine = "raw", UNCHANGED <<engine, options>>,
         RawBatchRead(w)
  PROVE  BatchInv'
<1>1. /\ at[w] = "begin" /\ Busy(w) /\ call[w].kind = "read" /\ call[w].kind \notin WriteKinds
      /\ UNCHANGED <<engine, options, tableVars, steady, issueVars, snap, page, skipped,
                     retried>>
  BY DEF RawBatchRead, Busy, WriteKinds
<1>2. CASE /\ next[w] \in DOMAIN call[w].keys
           /\ out' = [out EXCEPT ![w] = Append(@, <<call[w].keys[next[w]],
                                                    table[call[w].keys[next[w]]]>>)]
           /\ next' = [next EXCEPT ![w] = @ + 1]
           /\ UNCHANGED <<returnVars, at>>
  <2>1. UNCHANGED <<engine, options, at, tableVars, steady, issueVars, snap, page, skipped,
                    retried, returnVars>>
    BY <1>1, <1>2
  <2> QED BY <1>1, <1>2, <2>1, ReadMore
<1>3. CASE Return(w, "error") /\ UNCHANGED <<out, next>>
  <2>1. UNCHANGED <<engine, options, tableVars, steady, issueVars, readVars, next>>
    BY <1>1, <1>3 DEF readVars
  <2> QED BY <1>1, <1>3, <2>1, ErrorKeeps
<1>4. CASE next[w] \notin DOMAIN call[w].keys /\ ReturnRows(w, "nil", out[w])
           /\ UNCHANGED <<out, next>>
  <2>1. UNCHANGED <<engine, options, tableVars, steady, issueVars, readVars, next>>
    BY <1>1, <1>4 DEF readVars
  <2>2. KeysOf(out[w]) = call[w].keys /\ out[w] \in RowList
    BY <1>1, <1>4, ReadHas, AllRead, CallerType
  <2> QED BY <1>1, <1>4, <2>1, <2>2, ReadReturns
<1> QED BY <1>2, <1>3, <1>4 DEF RawBatchRead

\* s3: BatchRead gets one object after the other.
LEMMA S3BatchReadKeeps ==
  ASSUME BatchInv, NEW w \in Callers, engine = "s3", UNCHANGED <<engine, options>>,
         S3BatchRead(w)
  PROVE  BatchInv'
<1>1. /\ at[w] = "begin" /\ Busy(w) /\ call[w].kind = "read" /\ call[w].kind \notin WriteKinds
      /\ UNCHANGED <<engine, options, tableVars, steady, issueVars, snap, page, skipped,
                     retried>>
  BY DEF S3BatchRead, Busy, WriteKinds
<1>2. CASE /\ next[w] \in DOMAIN call[w].keys
           /\ out' = [out EXCEPT ![w] = Append(@, <<call[w].keys[next[w]],
                                                    table[call[w].keys[next[w]]]>>)]
           /\ next' = [next EXCEPT ![w] = @ + 1]
           /\ UNCHANGED <<returnVars, at>>
  <2>1. UNCHANGED <<engine, options, at, tableVars, steady, issueVars, snap, page, skipped,
                    retried, returnVars>>
    BY <1>1, <1>2
  <2> QED BY <1>1, <1>2, <2>1, ReadMore
<1>3. CASE Return(w, "error") /\ UNCHANGED <<out, next>>
  <2>1. UNCHANGED <<engine, options, tableVars, steady, issueVars, readVars, next>>
    BY <1>1, <1>3 DEF readVars
  <2> QED BY <1>1, <1>3, <2>1, ErrorKeeps
<1>4. CASE next[w] \notin DOMAIN call[w].keys /\ ReturnRows(w, "nil", out[w])
           /\ UNCHANGED <<out, next>>
  <2>1. UNCHANGED <<engine, options, tableVars, steady, issueVars, readVars, next>>
    BY <1>1, <1>4 DEF readVars
  <2>2. KeysOf(out[w]) = call[w].keys /\ out[w] \in RowList
    BY <1>1, <1>4, ReadHas, AllRead, CallerType
  <2> QED BY <1>1, <1>4, <2>1, <2>2, ReadReturns
<1> QED BY <1>2, <1>3, <1>4 DEF S3BatchRead

\* tikv: Begin takes the snapshot.
LEMMA TxnBeginKeeps ==
  ASSUME BatchInv, NEW w \in Callers, engine = "tikv", UNCHANGED <<engine, options>>,
         TxnBegin(w)
  PROVE  BatchInv'
<1> DEFINE s == [table |-> table, version |-> version]
<1>1. /\ at[w] = "begin" /\ Busy(w)
      /\ UNCHANGED <<engine, options, tableVars, steady, issueVars, out, page, skipped,
                     retried, next>>
  BY DEF TxnBegin, Busy
<1>2. CASE snap' = [snap EXCEPT ![w] = s] /\ MoveTo(w, "run") /\ UNCHANGED returnVars
  <2>1. Moves(w, "run", next[w], s, out[w], page[w], skipped[w], retried[w])
    BY <1>1, <1>2, Stays DEF Moves, MoveTo
  <2>2. next[w] \in Nat \ {0} /\ call[w].kind # "scan" => next[w] <= Len(call[w].keys) + 1
    BY <1>1, CallerType DEF BatchInv, CallerInv, CallInv
  <2>3. next[w] \in Nat \ {0}
    BY CallerType
  <2>4. CallOk(w, "run", next[w])
    BY <2>2, <2>3 DEF CallOk, CallPoints
  <2>5. RowsOk(w, "run", next[w], out[w], page[w], skipped[w], retried[w])
    BY Stays, CallerType DEF RowsOk
  <2>6. SnapOk(w, "run", next[w], s)
    <3>1. version \in [Keys -> Nat] /\ table \in Tables /\ table \in [Keys -> OwnRow]
          /\ steady[w] \subseteq Present(table)
      BY TableFacts DEF BatchInv, BatchTypes, OwnInv
    <3> QED BY <3>1 DEF SnapOk, Snaps
  <2>7. UNCHANGED <<engine, options, tableVars, steady, issueVars, returnVars>>
    BY <1>1, <1>2
  <2> QED BY <1>1, <2>1, <2>4, <2>5, <2>6, <2>7, MoveKeeps
<1>3. CASE Return(w, "error") /\ UNCHANGED snap
  <2>1. UNCHANGED <<engine, options, tableVars, steady, issueVars, readVars, next>>
    BY <1>1, <1>3 DEF readVars
  <2> QED BY <1>1, <1>3, <2>1, ErrorKeeps
<1> QED BY <1>2, <1>3 DEF TxnBegin

\* What one record of a call does to a row.
LEMMA DoesOne ==
  ASSUME NEW c, NEW i \in DOMAIN c.keys, NEW row \in AnyRow
  PROVE  /\ Does(c, MysqlSingle)[i][row] = MysqlSingle(c, i, row)
         /\ Does(c, SqliteSingle)[i][row] = SqliteSingle(c, i, row)
         /\ Does(c, TikvBatchRow)[i][row] = TikvBatchRow(c, i, row)
         /\ Does(c, TxnSingle)[i][row] = TxnSingle(c, i, row)
<1>1. Does(c, MysqlSingle)[i][row] = MysqlSingle(c, i, row)
  <2> HIDE DEF MysqlSingle
  <2> QED BY DEF Does
<1>2. Does(c, SqliteSingle)[i][row] = SqliteSingle(c, i, row)
  BY DEF Does
<1>3. Does(c, TikvBatchRow)[i][row] = TikvBatchRow(c, i, row)
  BY DEF Does
<1>4. Does(c, TxnSingle)[i][row] = TxnSingle(c, i, row)
  BY DEF Does
<1> QED BY <1>1, <1>2, <1>3, <1>4

\* sqlite: a transaction begins, with the table as it is.
LEMMA SqliteBeginKeeps ==
  ASSUME BatchInv, NEW w \in Callers, engine = "sqlite", UNCHANGED <<engine, options>>,
         SqliteBegin(w)
  PROVE  BatchInv'
<1> DEFINE s == [table |-> table, version |-> version]
<1>1. /\ at[w] = "begin" /\ Busy(w)
      /\ UNCHANGED <<engine, options, tableVars, steady, issueVars, out, page, skipped,
                     retried>>
  BY DEF SqliteBegin, Busy
<1>2. CASE /\ snap' = [snap EXCEPT ![w] = s] /\ next' = [next EXCEPT ![w] = 1]
           /\ MoveTo(w, "run") /\ UNCHANGED returnVars
  <2>1. Moves(w, "run", 1, s, out[w], page[w], skipped[w], retried[w])
    BY <1>1, <1>2, Stays DEF Moves, MoveTo
  <2>2. CallOk(w, "run", 1)
    <3>1. ~(call[w].kind \in WriteKinds /\ Looped(w)) /\ Len(call[w].keys) \in Nat
      BY CallerType DEF Looped
    <3> QED BY <3>1 DEF CallOk, CallPoints
  <2>3. RowsOk(w, "run", 1, out[w], page[w], skipped[w], retried[w])
    <3>1. call[w].kind = "read" => retried[w] \/ ReadSoFar(out[w], call[w].keys, 1)
      BY <1>1 DEF BatchInv, CallerInv, ReadInv
    <3> QED BY <3>1, Stays, CallerType DEF RowsOk
  <2>4. SnapOk(w, "run", 1, s)
    <3>1. version \in [Keys -> Nat] /\ table \in Tables /\ table \in [Keys -> OwnRow]
          /\ steady[w] \subseteq Present(table)
      BY TableFacts DEF BatchInv, BatchTypes, OwnInv
    <3>2. \A k \in Keys : version[k] <= version[k]
      BY <3>1
    <3> QED BY <3>1, <3>2 DEF SnapOk, Snaps
  <2>5. UNCHANGED <<engine, options, tableVars, steady, issueVars, returnVars>>
    BY <1>1, <1>2
  <2> QED BY <1>1, <2>1, <2>2, <2>3, <2>4, <2>5, MoveKeeps
<1>3. CASE Return(w, "error") /\ UNCHANGED <<snap, next>>
  <2>1. UNCHANGED <<engine, options, tableVars, steady, issueVars, readVars, next>>
    BY <1>1, <1>3 DEF readVars
  <2> QED BY <1>1, <1>3, <2>1, ErrorKeeps
<1> QED BY <1>2, <1>3 DEF SqliteBegin

\* What is known of a call in a transaction of sqlite.
LEMMA InSqlite ==
  ASSUME BatchInv, NEW w \in Callers, engine = "sqlite", Busy(w)
  PROVE  /\ ~Looped(w) /\ next[w] \in Nat \ {0} /\ Len(call[w].keys) \in Nat
         /\ call[w].kind # "scan" => next[w] <= Len(call[w].keys) + 1
         /\ call[w].kind = "scan" => Len(call[w].keys) = 1
         /\ call[w].kind = "read" =>
              \/ retried[w]
              \/ /\ ReadSoFar(out[w], call[w].keys, next[w])
                 /\ at[w] = "begin" => next[w] = 1
         /\ call[w].kind = "scan" /\ InTx(w) /\ next[w] > 1 =>
              Scanned(KeysOf(out[w]), call[w], steady[w] \ skipped[w])
         /\ TxInv(w)
         /\ at[w] = "run" /\ call[w].kind = "scan" => steady[w] \subseteq Present(snap[w].table)
<1>1. ~Looped(w) /\ next[w] \in Nat \ {0} /\ Len(call[w].keys) \in Nat
  BY CallerType DEF Looped
<1>2. /\ call[w].kind # "scan" => next[w] <= Len(call[w].keys) + 1
      /\ call[w].kind = "scan" => Len(call[w].keys) = 1
  BY DEF BatchInv, CallerInv, CallInv
<1>3. call[w].kind = "read" =>
        \/ retried[w]
        \/ /\ ReadSoFar(out[w], call[w].keys, next[w])
           /\ at[w] = "begin" => next[w] = 1
  BY DEF BatchInv, CallerInv, ReadInv
<1>4. call[w].kind = "scan" /\ InTx(w) /\ next[w] > 1 =>
        Scanned(KeysOf(out[w]), call[w], steady[w] \ skipped[w])
  BY DEF BatchInv, CallerInv, ScanInv
<1>5. TxInv(w)
  BY DEF BatchInv, LockInv
<1>6. at[w] = "run" /\ call[w].kind = "scan" => steady[w] \subseteq Present(snap[w].table)
  BY DEF BatchInv, CallerInv, SteadyInv
<1> QED BY <1>1, <1>2, <1>3, <1>4, <1>5, <1>6

\* sqlite: all records are done and the commit comes next.
LEMMA SqliteFnDoneKeeps ==
  ASSUME BatchInv, NEW w \in Callers, engine = "sqlite", UNCHANGED <<engine, options>>,
         SqliteFnDone(w)
  PROVE  BatchInv'
<1>1. /\ at[w] = "run" /\ Busy(w) /\ next[w] > Len(call[w].keys) /\ MoveTo(w, "commit")
      /\ UNCHANGED <<engine, options, tableVars, steady, issueVars, returnVars>>
      /\ UNCHANGED <<snap, out, page, skipped, retried, next>>
  BY DEF SqliteFnDone, Busy, readVars
<1>2. Moves(w, "commit", next[w], snap[w], out[w], page[w], skipped[w], retried[w])
  BY <1>1, Stays DEF Moves, MoveTo
<1>3. InTx(w)
  BY <1>1 DEF InTx
<1>4. CallOk(w, "commit", next[w])
  BY <1>1, InSqlite DEF CallOk, CallPoints
<1>5. RowsOk(w, "commit", next[w], out[w], page[w], skipped[w], retried[w])
  BY <1>1, <1>3, InSqlite, Stays, CallerType DEF RowsOk
<1>6. SnapOk(w, "commit", next[w], snap[w])
  <2>1. snap[w] \in Snaps /\ snap[w].table \in [Keys -> OwnRow]
    BY Stays
  <2>2. IsWrite(w) =>
          /\ \A k \in Keys : snap[w].version[k] <= version[k]
          /\ next[w] = 1 /\ snap[w].version = version => snap[w].table = table
          /\ next[w] > 1 =>
               /\ snap[w].version = version
               /\ snap[w].table
                    = After(table, call[w], Does(call[w], SqliteSingle))[next[w] - 1]
    BY <1>1, <1>3, InSqlite DEF TxInv
  <2>3. IsWrite(w) /\ next[w] > 1 => HoldsWriteLock(w)
    BY <1>3 DEF HoldsWriteLock
  <2> QED BY <2>1, <2>2, <2>3 DEF SnapOk
<1> QED BY <1>1, <1>2, <1>4, <1>5, <1>6, MoveKeeps

\* sqlite: the next record of a BatchRead.
LEMMA SqliteReadKeeps ==
  ASSUME BatchInv, NEW w \in Callers, engine = "sqlite", UNCHANGED <<engine, options>>,
         SqliteRead(w)
  PROVE  BatchInv'
<1> DEFINE k == call[w].keys[next[w]]
           o == Append(out[w], <<k, snap[w].table[k]>>)
           n == next[w] + 1
<1>1. /\ at[w] = "run" /\ Busy(w) /\ call[w].kind = "read" /\ next[w] \in DOMAIN call[w].keys
      /\ UNCHANGED <<engine, options, tableVars, steady, issueVars, returnVars>>
      /\ UNCHANGED <<snap, page, skipped, retried, at>>
      /\ out' = [out EXCEPT ![w] = o] /\ next' = [next EXCEPT ![w] = n]
  BY DEF SqliteRead, Busy
<1>2. Moves(w, at[w], n, snap[w], o, page[w], skipped[w], retried[w])
  BY <1>1, Stays DEF Moves
<1>3. snap[w].table[k] \in AnyRow
  <2>1. k \in Keys
    BY <1>1, CallerType
  <2> QED BY <2>1, CallerType DEF Tables
<1>4. /\ o \in RowList /\ n \in Nat \ {0} /\ n <= Len(call[w].keys) + 1
      /\ ReadSoFar(out[w], call[w].keys, next[w]) => ReadSoFar(o, call[w].keys, n)
  BY <1>1, <1>3, NextRead
<1> HIDE DEF o, n
<1>5. CallOk(w, at[w], n)
  BY <1>1, <1>4, InSqlite DEF CallOk, CallPoints
<1>6. RowsOk(w, at[w], n, o, page[w], skipped[w], retried[w])
  BY <1>1, <1>4, InSqlite, Stays, CallerType DEF RowsOk
<1>7. SnapOk(w, at[w], n, snap[w])
  BY <1>1, Stays DEF SnapOk, IsWrite
<1> QED BY <1>1, <1>2, <1>5, <1>6, <1>7, MoveKeeps

\* sqlite: Scan reads the first rows of what the transaction sees.
LEMMA SqliteScanKeeps ==
  ASSUME BatchInv, NEW w \in Callers, engine = "sqlite", UNCHANGED <<engine, options>>,
         SqliteScan(w)
  PROVE  BatchInv'
<1> DEFINE o == FirstRows(snap[w].table, call[w].keys[1], call[w].count)
<1>1. /\ at[w] = "run" /\ Busy(w) /\ call[w].kind = "scan"
      /\ UNCHANGED <<engine, options, tableVars, steady, issueVars, returnVars>>
      /\ UNCHANGED <<snap, page, skipped, retried, at>>
      /\ out' = [out EXCEPT ![w] = o] /\ next' = [next EXCEPT ![w] = 2]
  BY DEF SqliteScan, Busy
<1>2. Moves(w, at[w], 2, snap[w], o, page[w], skipped[w], retried[w])
  BY <1>1, Stays DEF Moves
<1>3. PICK S \in SUBSET Present(snap[w].table) : S = steady[w] \ skipped[w]
  BY <1>1, InSqlite
<1>4. o \in RowList /\ Scanned(KeysOf(o), call[w], S)
  BY <1>1, CallerType, ScanCall, FirstRowsScanned
<1> HIDE DEF o
<1>5. CallOk(w, at[w], 2)
  <2>1. ~Looped(w) /\ 2 \in Nat \ {0}
    BY DEF Looped
  <2> QED BY <1>1, <2>1 DEF CallOk, CallPoints
<1>6. RowsOk(w, at[w], 2, o, page[w], skipped[w], retried[w])
  BY <1>1, <1>3, <1>4, Stays, CallerType DEF RowsOk
<1>7. SnapOk(w, at[w], 2, snap[w])
  BY <1>1, InSqlite, Stays DEF SnapOk, IsWrite
<1> QED BY <1>1, <1>2, <1>5, <1>6, <1>7, MoveKeeps

\* sqlite: the next record of a write, which takes the lock if it is the first.
LEMMA SqliteWriteKeeps ==
  ASSUME BatchInv, NEW w \in Callers, engine = "sqlite", UNCHANGED <<engine, options>>,
         SqliteWrite(w)
  PROVE  BatchInv'
<1> DEFINE c == call[w]
           i == next[w]
           k == c.keys[i]
           u == snap[w].table
           t == [u EXCEPT ![k] = SqliteSingle(c, i, u[k])]
           s == [table |-> t, version |-> snap[w].version]
           does == Does(c, SqliteSingle)
           f == After(table, c, does)
<1>1. /\ at[w] = "run" /\ Busy(w) /\ IsWrite(w) /\ i \in DOMAIN c.keys /\ InTx(w)
      /\ i = 1 => (\A v \in Callers : ~HoldsWriteLock(v)) /\ snap[w].version = version
      /\ UNCHANGED <<engine, options, tableVars, steady, issueVars, returnVars>>
      /\ UNCHANGED <<out, page, skipped, retried, at>>
      /\ next' = [next EXCEPT ![w] = i + 1]
  BY DEF SqliteWrite, Busy, InTx
<1>2. snap[w] \in [table : Tables, version : [Keys -> Nat]] /\ u \in Tables
  BY Stays, CallerType DEF Snaps
<1>3. snap' = [snap EXCEPT ![w] = s]
  <2>1. snap' = [snap EXCEPT ![w].table[k] = SqliteSingle(c, i, @)]
    BY DEF SqliteWrite
  <2>2. snap' = [snap EXCEPT ![w] = [snap[w] EXCEPT !.table = t]]
    <3> HIDE DEF SqliteSingle
    <3> QED BY <2>1
  <2>3. [snap[w] EXCEPT !.table = t] = s
    <3> HIDE DEF t
    <3> QED BY <1>2
  <2> HIDE DEF s, t
  <2> QED BY <2>2, <2>3
<1>4. Moves(w, at[w], i + 1, s, out[w], page[w], skipped[w], retried[w])
  <2> HIDE DEF s
  <2> QED BY <1>1, <1>3, Stays DEF Moves
<1>5. c.keys \in Seq(Keys) /\ k \in Keys /\ i \in 1 .. Len(c.keys) /\ Len(c.keys) \in Nat
      /\ GoodCall(c)
  BY <1>1, CallerType
<1>6. u[k] \in AnyRow /\ SqliteSingle(c, i, u[k]) \in OwnRow
  <2>1. u \in [Keys -> OwnRow] /\ u[k] \in OwnRow
    BY <1>5, Stays
  <2>2. u[k] \in AnyRow
    BY <2>1, OwnIsRow
  <2> QED BY <1>1, <1>5, <2>1, <2>2, SinglesType
<1>7. t \in Tables /\ t \in [Keys -> OwnRow]
  <2>1. u \in [Keys -> OwnRow]
    BY Stays
  <2> HIDE DEF u
  <2>2. t \in [Keys -> OwnRow]
    BY <1>6, <2>1
  <2> HIDE DEF t
  <2> QED BY <2>2, OwnIsRow DEF Tables
<1>8. /\ \A j \in Keys : snap[w].version[j] <= version[j]
      /\ i = 1 /\ snap[w].version = version => u = table
      /\ i > 1 => snap[w].version = version /\ u = f[i - 1]
  BY <1>1, InSqlite DEF TxInv
<1>9. snap[w].version = version /\ u = f[i - 1] /\ f[i] = DoneTo(f[i - 1], c, does, i)
  <2> HIDE DEF does
  <2>1. f[0] = table /\ \A n \in 1 .. Len(c.keys) : f[n] = DoneTo(f[n - 1], c, does, n)
    BY <1>5, AfterSteps
  <2> HIDE DEF f, u
  <2>2. CASE i = 1
    BY <1>1, <1>5, <1>8, <2>1, <2>2
  <2>3. CASE i # 1
    BY <1>5, <1>8, <2>1, <2>3
  <2> QED BY <2>2, <2>3
<1>10. t = f[i]
  <2>1. Does(c, SqliteSingle)[i][u[k]] = SqliteSingle(c, i, u[k])
    BY <1>1, <1>6, DoesOne
  <2> HIDE DEF f, u, does
  <2>2. f[i] = [u EXCEPT ![k] = does[i][u[k]]]
    BY <1>9 DEF DoneTo, does
  <2> QED BY <2>1, <2>2 DEF does
<1>11. /\ s.version = version /\ s.table = f[i]
  BY <1>9, <1>10
<1>12. s \in Snaps /\ s.table \in [Keys -> OwnRow]
  <2> HIDE DEF t
  <2> QED BY <1>2, <1>7 DEF Snaps
<1> HIDE DEF s, t
<1>13. CallOk(w, at[w], i + 1)
  <2>1. ~Looped(w) /\ i + 1 \in Nat \ {0} /\ i + 1 <= Len(c.keys) + 1
    BY <1>5 DEF Looped
  <2> QED BY <1>1, <2>1 DEF CallOk, CallPoints
<1>14. c.kind # "read" /\ c.kind # "scan"
  BY <1>1 DEF IsWrite
<1>15. RowsOk(w, at[w], i + 1, out[w], page[w], skipped[w], retried[w])
  BY <1>14, Stays, CallerType DEF RowsOk
<1>16. HoldsWriteLock(w) \/ \A v \in Callers : ~HoldsWriteLock(v)
  BY <1>1, <1>5 DEF HoldsWriteLock
<1>17. SnapOk(w, at[w], i + 1, s)
  <2>1. i + 1 # 1 /\ i + 1 - 1 = i /\ \A j \in Keys : version[j] <= version[j]
    BY <1>5 DEF BatchInv, BatchTypes
  <2> HIDE DEF f
  <2>2. \A j \in Keys : s.version[j] <= version[j]
    BY <1>11, <2>1
  <2> DEFINE a == at[w]
             m == i + 1
  <2>4. SnapOk(w, a, m, s) <=>
          /\ s \in Snaps
          /\ engine # "mysql" => s.table \in [Keys -> OwnRow]
          /\ a = "run" /\ c.kind = "scan" => steady[w] \subseteq Present(s.table)
          /\ engine = "sqlite" /\ a \in {"run", "commit"} /\ IsWrite(w) =>
               /\ \A j \in Keys : s.version[j] <= version[j]
               /\ m = 1 /\ s.version = version => s.table = table
               /\ m > 1 => /\ s.version = version
                           /\ s.table = f[m - 1]
                           /\ HoldsWriteLock(w) \/ \A v \in Callers : ~HoldsWriteLock(v)
    BY DEF SnapOk, f, does
  <2>5. m # 1 /\ s.table = f[m - 1] /\ s.version = version
    <3>1. s.version = version
      BY <1>11
    <3>2. m # 1 /\ m - 1 = i
      BY <1>5
    <3>3. s.table = f[i]
      BY <1>11
    <3> HIDE DEF m, f
    <3> QED BY <3>1, <3>2, <3>3
  <2> HIDE DEF does, f, m
  <2>6. SnapOk(w, a, m, s)
    BY <1>12, <1>14, <1>16, <2>2, <2>4, <2>5
  <2> QED BY <2>6 DEF m
<1> QED BY <1>1, <1>4, <1>13, <1>15, <1>17, MoveKeeps

\* sqlite: a commit that fails is retried when the configuration says so.
LEMMA SqliteCommitFailsKeeps ==
  ASSUME BatchInv, NEW w \in Callers, engine = "sqlite", UNCHANGED <<engine, options>>,
         SqliteCommitFails(w)
  PROVE  BatchInv'
<1>1. /\ at[w] = "commit" /\ Busy(w)
      /\ UNCHANGED <<engine, options, tableVars, steady, issueVars, snap, out, page, skipped,
                     next>>
  BY DEF SqliteCommitFails, Busy
<1>2. CASE retried' = [retried EXCEPT ![w] = TRUE] /\ MoveTo(w, "begin") /\ UNCHANGED returnVars
  <2>1. Moves(w, "begin", next[w], snap[w], out[w], page[w], skipped[w], TRUE)
    BY <1>1, <1>2, Stays DEF Moves, MoveTo
  <2>2. CallOk(w, "begin", next[w])
    BY <1>1, InSqlite DEF CallOk, CallPoints
  <2>3. RowsOk(w, "begin", next[w], out[w], page[w], skipped[w], TRUE)
    BY Stays, CallerType DEF RowsOk
  <2>4. SnapOk(w, "begin", next[w], snap[w])
    BY Stays DEF SnapOk
  <2>5. UNCHANGED <<engine, options, tableVars, steady, issueVars, returnVars>>
    BY <1>1, <1>2
  <2> QED BY <1>1, <2>1, <2>2, <2>3, <2>4, <2>5, MoveKeeps
<1>3. CASE Return(w, "error") /\ UNCHANGED retried
  <2>1. UNCHANGED <<engine, options, tableVars, steady, issueVars, readVars, next>>
    BY <1>1, <1>3 DEF readVars
  <2> QED BY <1>1, <1>3, <2>1, ErrorKeeps
<1> QED BY <1>2, <1>3 DEF SqliteCommitFails

\* A Scan reads the next key, k, or skips it.
LEMMA ScannedNext ==
  ASSUME NEW c, c.keys[1] \in Keys, c.count \in Nat, NEW us \in Seq(Keys),
         NEW S \in SUBSET Keys,
         NEW n, NEW k \in Keys, ScannedTo(us, c, S, n), n < k,
         \A j \in S : n < j /\ j <= k => j = k
  PROVE  /\ Len(us) < c.count => ScannedTo(Append(us, k), c, S, k)
         /\ \A R \in SUBSET S : k \notin R => ScannedTo(us, c, R, k)
<1> DEFINE start == c.keys[1]
           m == Len(us)
           vs == Append(us, k)
<1>1. /\ n \in Keys /\ start <= n /\ m <= c.count
      /\ \A i \in 1 .. m : start <= us[i] /\ us[i] <= n
      /\ Increasing(us)
      /\ \A j \in S : start <= j /\ j <= n => \E i \in 1 .. m : us[i] = j
  BY DEF ScannedTo
<1>2. /\ start \in Int /\ n \in Int /\ k \in Int /\ m \in Nat /\ c.count \in Nat
      /\ \A i \in 1 .. m : us[i] \in Int
      /\ \A j \in S : j \in Int
  <2>1. \A j \in Keys : j \in Int
    BY BatchAssumption DEF Keys
  <2> QED BY <1>1, <2>1
<1>3. /\ Len(vs) = m + 1 /\ vs[m + 1] = k
      /\ \A i \in 1 .. m : vs[i] = us[i]
  BY <1>2
<1> HIDE DEF vs, m, start
<1>4. start <= k
  BY <1>1, <1>2
<1>5. ASSUME m < c.count PROVE ScannedTo(vs, c, S, k)
  <2>1. ASSUME NEW i \in 1 .. m + 1
        PROVE  start <= vs[i] /\ vs[i] <= k /\ (i <= m => i \in 1 .. m)
    <3>1. CASE i = m + 1
      BY <1>2, <1>3, <1>4, <3>1
    <3>2. CASE i # m + 1
      <4>1. i \in 1 .. m
        BY <1>2, <2>1, <3>2
      <4> QED BY <1>1, <1>2, <1>3, <4>1
    <3> QED BY <3>1, <3>2
  <2>2. Increasing(vs)
    <3> SUFFICES ASSUME NEW i \in 1 .. m + 1, NEW j \in 1 .. m + 1, i < j PROVE vs[i] < vs[j]
      BY <1>3 DEF Increasing
    <3>1. i \in 1 .. m
      BY <1>2
    <3>2. CASE j = m + 1
      BY <1>1, <1>2, <1>3, <3>1, <3>2
    <3>3. CASE j # m + 1
      <4>1. j \in 1 .. m
        BY <1>2, <3>3
      <4> QED BY <1>1, <1>3, <3>1, <4>1 DEF Increasing, m
    <3> QED BY <3>2, <3>3
  <2>3. ASSUME NEW j \in S, start <= j, j <= k PROVE \E i \in 1 .. m + 1 : vs[i] = j
    <3>1. CASE j <= n
      <4>1. PICK i \in 1 .. m : us[i] = j
        BY <1>1, <2>3, <3>1
      <4>2. i \in 1 .. m + 1
        BY <1>2, <4>1
      <4> QED BY <1>3, <4>1, <4>2
    <3>2. CASE ~(j <= n)
      <4>1. j = k /\ m + 1 \in 1 .. m + 1
        BY <1>2, <2>3, <3>2
      <4> QED BY <1>3, <4>1
    <3> QED BY <3>1, <3>2
  <2>4. Len(vs) <= c.count
    BY <1>2, <1>3, <1>5
  <2> QED BY <1>3, <1>4, <2>1, <2>2, <2>3, <2>4 DEF ScannedTo, start
<1>6. ASSUME NEW R \in SUBSET S, k \notin R PROVE ScannedTo(us, c, R, k)
  <2>1. \A i \in 1 .. m : start <= us[i] /\ us[i] <= k
    BY <1>1, <1>2
  <2>2. ASSUME NEW j \in R, start <= j, j <= k PROVE \E i \in 1 .. m : us[i] = j
    <3>1. j # k /\ j \in S /\ j \in Int
      BY <1>2, <1>6
    <3>2. j <= n
      BY <1>2, <2>2, <3>1
    <3> QED BY <1>1, <2>2, <3>1, <3>2
  <2> QED BY <1>1, <1>4, <2>1, <2>2 DEF ScannedTo, start, m
<1> QED BY <1>5, <1>6 DEF vs, m

\* A Scan that has seen everything, or enough, returns what it should.
LEMMA ScanComplete ==
  ASSUME NEW c, c.keys[1] \in Keys, c.count \in Nat \ {0}, NEW us \in Seq(Keys),
         NEW S \in SUBSET Keys, NEW n, ScannedTo(us, c, S, n),
         Len(us) = c.count \/ \A j \in S : j <= n
  PROVE  Scanned(us, c, S)
<1> DEFINE start == c.keys[1]
           m == Len(us)
<1>1. /\ n \in Keys /\ m <= c.count
      /\ \A i \in 1 .. m : start <= us[i] /\ us[i] <= n
      /\ Increasing(us)
      /\ \A j \in S : start <= j /\ j <= n => \E i \in 1 .. m : us[i] = j
  BY DEF ScannedTo
<1>2. /\ start \in Int /\ n \in Int /\ m \in Nat /\ c.count \in Nat \ {0}
      /\ \A i \in 1 .. m : us[i] \in Int
      /\ \A j \in S : j \in Int
  <2>1. \A j \in Keys : j \in Int
    BY BatchAssumption DEF Keys
  <2> QED BY <1>1, <2>1
<1>3. m = c.count \/ \A j \in S : j <= n
  OBVIOUS
<1> HIDE DEF m, start
<1>4. ASSUME NEW j \in S, j >= start, m < c.count \/ j < us[m]
      PROVE  \E i \in 1 .. m : us[i] = j
  <2>1. j <= n
    <3>1. CASE m = c.count
      <4>1. m \in 1 .. m /\ j < us[m]
        BY <1>2, <1>4, <3>1
      <4>2. us[m] <= n /\ us[m] \in Int /\ j \in Int
        BY <1>1, <1>2, <4>1
      <4> QED BY <1>2, <4>1, <4>2
    <3>2. CASE \A i \in S : i <= n
      BY <3>2
    <3> QED BY <1>3, <3>1, <3>2
  <2>2. start <= j
    BY <1>2, <1>4
  <2> QED BY <1>1, <2>1, <2>2
<1>5. \A i \in 1 .. m : us[i] >= start
  BY <1>1, <1>2
<1> QED BY <1>1, <1>4, <1>5 DEF Scanned, m, start

\* The keys of the rows of a Scan.
LEMMA KeysOfRows ==
  ASSUME NEW rs \in RowList
  PROVE  /\ KeysOf(rs) \in Seq(Keys) /\ Len(KeysOf(rs)) = Len(rs)
         /\ \A k \in Keys, row \in AnyRow :
              /\ Append(rs, <<k, row>>) \in RowList
              /\ KeysOf(Append(rs, <<k, row>>)) = Append(KeysOf(rs), k)
         /\ Len(rs) \in Nat
<1>1. rs \in Seq(Keys \X AnyRow) /\ Len(rs) \in Nat /\ DOMAIN rs = 1 .. Len(rs)
  BY DEF RowList
<1>2. \A i \in 1 .. Len(rs) : rs[i] \in Keys \X AnyRow
  BY <1>1
<1>3. \A i \in 1 .. Len(rs) : rs[i][1] \in Keys
  BY <1>2
<1>4. KeysOf(rs) = [i \in 1 .. Len(rs) |-> rs[i][1]]
  BY <1>1 DEF KeysOf
<1>5. KeysOf(rs) \in Seq(Keys) /\ Len(KeysOf(rs)) = Len(rs)
  BY <1>1, <1>3, <1>4
<1>6. ASSUME NEW k \in Keys, NEW row \in AnyRow
      PROVE  /\ Append(rs, <<k, row>>) \in RowList
             /\ KeysOf(Append(rs, <<k, row>>)) = Append(KeysOf(rs), k)
  <2> DEFINE r == <<k, row>>
             us == Append(rs, r)
             ks == KeysOf(rs)
             m == Len(rs)
  <2>1. r \in Keys \X AnyRow /\ r[1] = k
    OBVIOUS
  <2> HIDE DEF r
  <2>2. /\ us \in Seq(Keys \X AnyRow) /\ DOMAIN us = 1 .. m + 1 /\ us[m + 1] = r
        /\ \A i \in 1 .. m : us[i] = rs[i]
    BY <1>1, <2>1
  <2>3. KeysOf(us) = [i \in 1 .. m + 1 |-> us[i][1]]
    BY <2>2 DEF KeysOf
  <2>4. \A i \in 1 .. m : ks[i] = rs[i][1]
    BY <1>4
  <2>5. ks \in Seq(Keys) /\ Len(ks) = m
    BY <1>5
  <2> HIDE DEF us, ks
  <2> DEFINE vs == Append(ks, k)
  <2>6. /\ vs \in Seq(Keys) /\ Len(vs) = m + 1 /\ vs[m + 1] = k
        /\ \A i \in 1 .. m : vs[i] = ks[i]
    BY <1>1, <2>5
  <2> HIDE DEF vs
  <2>7. \A i \in 1 .. m + 1 : us[i][1] = vs[i]
    <3> TAKE i \in 1 .. m + 1
    <3>1. i = m + 1 \/ i \in 1 .. m
      BY <1>1
    <3> QED BY <2>1, <2>2, <2>4, <2>6, <3>1
  <2>8. KeysOf(us) = vs
    <3>1. vs = [i \in 1 .. m + 1 |-> vs[i]]
      BY <1>1, <2>6
    <3> QED BY <2>3, <2>7, <3>1
  <2> QED BY <2>2, <2>8 DEF us, ks, vs, r, RowList
<1> QED BY <1>1, <1>5, <1>6

\* What the read of a listed object leaves: its row, or a record that was skipped.
LEMMA ReadsOne ==
  ASSUME BatchInv, NEW w \in Callers, NEW k \in Keys, Reads(w, k)
  PROVE  \E o \in RowList, K \in SUBSET Keys :
           /\ out' = [out EXCEPT ![w] = o] /\ skipped' = [skipped EXCEPT ![w] = K]
           /\ \/ /\ KeysOf(o) = Append(KeysOf(out[w]), k) /\ K = skipped[w]
                 /\ Len(o) = Len(out[w]) + 1
              \/ o = out[w] /\ K = skipped[w] \cup {k}
<1> DEFINE r == <<k, table[k]>>
           o == Append(out[w], r)
<1>1. out[w] \in RowList /\ skipped[w] \in SUBSET Keys
  BY CallerType, Stays
<1>2. table[k] \in AnyRow
  BY TableFacts DEF Tables
<1>3. /\ o \in RowList /\ KeysOf(o) = Append(KeysOf(out[w]), k)
      /\ KeysOf(out[w]) \in Seq(Keys) /\ Len(KeysOf(out[w])) = Len(out[w])
  BY <1>1, <1>2, KeysOfRows
<1>4. Len(o) = Len(out[w]) + 1
  <2>1. Len(KeysOf(o)) = Len(o)
    <3> HIDE DEF o
    <3> QED BY <1>3, KeysOfRows
  <2> HIDE DEF o
  <2> QED BY <1>3, <2>1
<1>5. CASE out' = [out EXCEPT ![w] = o] /\ UNCHANGED skipped
  <2>1. skipped' = [skipped EXCEPT ![w] = skipped[w]]
    BY <1>5, Stays
  <2> HIDE DEF o
  <2> QED BY <1>1, <1>3, <1>4, <1>5, <2>1
<1>6. CASE skipped' = [skipped EXCEPT ![w] = skipped[w] \cup {k}] /\ UNCHANGED out
  <2>1. out' = [out EXCEPT ![w] = out[w]]
    BY <1>6, Stays
  <2>2. skipped[w] \cup {k} \in SUBSET Keys
    BY <1>1
  <2> QED BY <1>1, <1>6, <2>1, <2>2
<1> QED BY <1>5, <1>6 DEF Reads

\* s3: Update reads the object that it is about to merge with.
LEMMA S3UpdateReadKeeps ==
  ASSUME BatchInv, NEW w \in Callers, engine = "s3", UNCHANGED <<engine, options>>,
         S3UpdateRead(w)
  PROVE  BatchInv'
<1> DEFINE k == call[w].keys[next[w]]
           u == snap[w].table
<1>1. /\ at[w] = "begin" /\ Busy(w) /\ call[w].kind = "update" /\ ~options.overwrite
      /\ next[w] \in DOMAIN call[w].keys /\ MoveTo(w, "merge")
      /\ UNCHANGED <<engine, options, tableVars, steady, issueVars, returnVars>>
      /\ UNCHANGED <<out, page, skipped, retried, next>>
  BY DEF S3UpdateRead, Busy, ReadsFirst
<1>2. PICK row \in {table[k], NoRow} : snap' = [snap EXCEPT ![w].table[k] = row]
  BY DEF S3UpdateRead
<1> DEFINE t == [u EXCEPT ![k] = row]
           s == [table |-> t, version |-> snap[w].version]
<1>3. snap[w] \in [table : Tables, version : [Keys -> Nat]] /\ u \in [Keys -> OwnRow]
      /\ k \in Keys /\ next[w] \in 1 .. Len(call[w].keys) /\ Len(call[w].keys) \in Nat
  BY <1>1, Stays, CallerType DEF Snaps
<1>4. row \in OwnRow
  BY <1>2, <1>3, OwnIsRow DEF BatchInv, OwnInv
<1>5. t \in [Keys -> OwnRow] /\ t \in Tables
  <2>1. t \in [Keys -> OwnRow]
    <3> HIDE DEF u
    <3> QED BY <1>3, <1>4
  <2> HIDE DEF t
  <2> QED BY <2>1, OwnIsRow DEF Tables
<1>6. snap' = [snap EXCEPT ![w] = s]
  <2>1. [snap[w] EXCEPT !.table = t] = s
    <3> HIDE DEF t
    <3> QED BY <1>3
  <2>2. snap' = [snap EXCEPT ![w] = [snap[w] EXCEPT !.table = t]]
    BY <1>2
  <2> HIDE DEF s, t
  <2> QED BY <2>1, <2>2
<1>7. s \in Snaps /\ s.table \in [Keys -> OwnRow]
  <2> HIDE DEF t
  <2> QED BY <1>3, <1>5 DEF Snaps
<1> HIDE DEF s, t
<1>8. Moves(w, "merge", next[w], s, out[w], page[w], skipped[w], retried[w])
  BY <1>1, <1>6, Stays DEF Moves, MoveTo
<1>9. CallOk(w, "merge", next[w])
  BY <1>1, <1>3 DEF CallOk, CallPoints
<1>10. RowsOk(w, "merge", next[w], out[w], page[w], skipped[w], retried[w])
  BY <1>1, Stays, CallerType DEF RowsOk
<1>11. SnapOk(w, "merge", next[w], s)
  BY <1>7 DEF SnapOk
<1> QED BY <1>1, <1>8, <1>9, <1>10, <1>11, MoveKeeps

\* s3: Scan reads the object at its start key.
LEMMA S3ScanStartKeeps ==
  ASSUME BatchInv, NEW w \in Callers, engine = "s3", UNCHANGED <<engine, options>>,
         S3ScanStart(w)
  PROVE  BatchInv'
<1> DEFINE c == call[w]
           k == c.keys[1]
<1>1. /\ at[w] = "begin" /\ Busy(w) /\ c.kind = "scan" /\ Reads(w, k)
      /\ next' = [next EXCEPT ![w] = k] /\ MoveTo(w, "list")
      /\ UNCHANGED <<engine, options, tableVars, steady, issueVars, returnVars>>
      /\ UNCHANGED <<snap, page, retried>>
  BY DEF S3ScanStart, Busy
<1>2. k \in Keys /\ c.count \in Nat \ {0} /\ k \in Nat \ {0}
  <2>1. k \in Keys /\ c.count \in Nat \ {0}
    BY <1>1, ScanCall
  <2> QED BY <2>1, BatchAssumption DEF Keys
<1>3. PICK o \in RowList, K \in SUBSET Keys :
        /\ out' = [out EXCEPT ![w] = o] /\ skipped' = [skipped EXCEPT ![w] = K]
        /\ \/ /\ KeysOf(o) = Append(KeysOf(out[w]), k) /\ K = skipped[w]
              /\ Len(o) = Len(out[w]) + 1
           \/ o = out[w] /\ K = skipped[w] \cup {k}
  BY <1>1, <1>2, ReadsOne
<1>4. out[w] = <<>>
  BY <1>1 DEF BatchInv, CallerInv, ScanInv
<1>5. ScannedTo(KeysOf(o), c, steady[w] \ K, k)
  <2> DEFINE ks == KeysOf(o)
             S == steady[w] \ K
  <2>1. KeysOf(out[w]) = <<>>
    <3>1. KeysOf(out[w]) \in Seq(Keys) /\ Len(KeysOf(out[w])) = 0
      BY <1>4, KeysOfRows, CallerType
    <3> QED BY <3>1
  <2>2. (ks = <<k>>) \/ (ks = <<>> /\ k \notin S)
    <3>1. CASE KeysOf(o) = Append(KeysOf(out[w]), k)
      BY <2>1, <3>1
    <3>2. CASE o = out[w] /\ K = skipped[w] \cup {k}
      BY <2>1, <3>2
    <3> QED BY <1>3, <3>1, <3>2
  <2>3. \A j \in S : j \in Int
    <3>1. \A j \in Keys : j \in Int
      BY BatchAssumption DEF Keys
    <3>2. S \in SUBSET Keys
      BY DEF BatchInv, BatchTypes
    <3> HIDE DEF S
    <3> QED BY <3>1, <3>2
  <2> HIDE DEF ks, S
  <2>4. CASE ks = <<k>>
    <3>1. Len(ks) = 1 /\ ks[1] = k
      BY <2>4
    <3>2. \A i \in 1 .. Len(ks) : i = 1
      BY <3>1
    <3>3. Increasing(ks)
      BY <3>1, <3>2 DEF Increasing
    <3>4. \A i \in 1 .. Len(ks) : k <= ks[i] /\ ks[i] <= k
      BY <1>2, <3>1, <3>2
    <3>5. \A j \in S : k <= j /\ j <= k => \E i \in 1 .. Len(ks) : ks[i] = j
      BY <1>2, <2>3, <3>1
    <3> QED BY <1>2, <3>1, <3>3, <3>4, <3>5 DEF ScannedTo, ks, S
  <2>5. CASE ks = <<>> /\ k \notin S
    <3>1. Len(ks) = 0 /\ Len(ks) <= c.count /\ \A i \in 1 .. Len(ks) : FALSE
      BY <1>2, <2>5
    <3>2. \A j \in S : ~(k <= j /\ j <= k)
      BY <1>2, <2>3, <2>5
    <3> QED BY <1>2, <3>1, <3>2 DEF ScannedTo, Increasing, ks, S
  <2> QED BY <2>2, <2>4, <2>5
<1>6. Moves(w, "list", k, snap[w], o, page[w], K, retried[w])
  BY <1>1, <1>3, Stays DEF Moves, MoveTo
<1>7. CallOk(w, "list", k)
  BY <1>1, <1>2 DEF CallOk, CallPoints, WriteKinds
<1>8. RowsOk(w, "list", k, o, page[w], K, retried[w])
  BY <1>1, <1>5, Stays, CallerType DEF RowsOk
<1>9. SnapOk(w, "list", k, snap[w])
  BY Stays DEF SnapOk
<1> QED BY <1>1, <1>6, <1>7, <1>8, <1>9, MoveKeeps

\* What a Scan of s3 has so far.
LEMMA S3Has ==
  ASSUME BatchInv, NEW w \in Callers, engine = "s3", at[w] \in {"list", "item"}
  PROVE  /\ Busy(w) /\ call[w].kind = "scan"
         /\ call[w].keys[1] \in Keys /\ call[w].count \in Nat \ {0}
         /\ out[w] \in RowList /\ KeysOf(out[w]) \in Seq(Keys)
         /\ Len(KeysOf(out[w])) = Len(out[w]) /\ Len(out[w]) \in Nat
         /\ ScannedTo(KeysOf(out[w]), call[w], steady[w] \ skipped[w], next[w])
         /\ next[w] \in Keys /\ next[w] \in Nat \ {0} /\ Len(out[w]) <= call[w].count
         /\ steady[w] \in SUBSET Keys /\ page[w] \in Seq(Keys)
         /\ at[w] = "item" => /\ Len(out[w]) + Len(page[w]) <= call[w].count
                              /\ Listed(page[w], next[w], steady[w], retried[w])
<1>1. Busy(w)
  BY DEF Busy
<1>2. call[w].kind = "scan"
  BY <1>1 DEF BatchInv, CallerInv, CallInv
<1>3. /\ ScannedTo(KeysOf(out[w]), call[w], steady[w] \ skipped[w], next[w])
      /\ at[w] = "item" => /\ Len(out[w]) + Len(page[w]) <= call[w].count
                           /\ Listed(page[w], next[w], steady[w], retried[w])
  BY <1>1, <1>2 DEF BatchInv, CallerInv, ScanInv
<1>4. out[w] \in RowList /\ KeysOf(out[w]) \in Seq(Keys)
      /\ Len(KeysOf(out[w])) = Len(out[w]) /\ Len(out[w]) \in Nat
  BY CallerType, KeysOfRows
<1>5. next[w] \in Keys /\ next[w] \in Nat \ {0} /\ Len(out[w]) <= call[w].count
  BY <1>3, <1>4, CallerType DEF ScannedTo
<1>6. steady[w] \in SUBSET Keys /\ page[w] \in Seq(Keys)
  BY DEF BatchInv, BatchTypes
<1> QED BY <1>1, <1>2, <1>3, <1>4, <1>5, <1>6, ScanCall

\* A Scan returns what it has when that is all, or enough.
LEMMA S3Returns ==
  ASSUME BatchInv, NEW w \in Callers, engine = "s3", at[w] \in {"list", "item"},
         ReturnRows(w, "nil", out[w]),
         UNCHANGED <<engine, options, tableVars, steady, issueVars, readVars, next>>,
         Len(out[w]) = call[w].count \/ \A j \in steady[w] \ skipped[w] : j <= next[w]
  PROVE  BatchInv'
<1>1. PICK S \in SUBSET Keys : S = steady[w] \ skipped[w]
  BY S3Has
<1>2. Scanned(KeysOf(out[w]), call[w], S)
  BY <1>1, S3Has, ScanComplete
<1>3. Found(engine, KeysOf(out[w]), call[w], steady[w] \ skipped[w])
  BY <1>1, <1>2 DEF Found
<1>4. Busy(w) /\ call[w].kind \notin WriteKinds /\ call[w].kind # "read" /\ out[w] \in RowList
  BY S3Has DEF WriteKinds
<1> QED BY <1>3, <1>4, ReadReturns

\* s3: Scan has enough rows, or the last page.
LEMMA S3ScanEndKeeps ==
  ASSUME BatchInv, NEW w \in Callers, engine = "s3", UNCHANGED <<engine, options>>,
         S3ScanEnd(w)
  PROVE  BatchInv'
<1>1. /\ at[w] = "list" /\ at[w] \in {"list", "item"}
      /\ UNCHANGED <<engine, options, tableVars, steady, issueVars, readVars, next>>
  BY DEF S3ScanEnd
<1>2. CASE Remaining(w) = 0 /\ ReturnRows(w, "nil", out[w])
  <2>1. Len(out[w]) = call[w].count
    <3>1. Len(out[w]) \in Nat /\ call[w].count \in Nat
      BY <1>1, S3Has
    <3> QED BY <1>2, <3>1 DEF Remaining
  <2> QED BY <1>1, <1>2, <2>1, S3Returns
<1>3. CASE (\A k \in Present(table) : k <= next[w]) /\ ReturnRows(w, "nil", out[w])
  <2>1. \A j \in steady[w] \ skipped[w] : j <= next[w]
    BY <1>3, TableFacts
  <2> QED BY <1>1, <1>3, <2>1, S3Returns
<1>4. CASE Return(w, "error")
  BY <1>1, <1>4, S3Has, ErrorKeeps
<1> QED BY <1>2, <1>3, <1>4 DEF S3ScanEnd

\* s3: all keys of a page are read and another page follows.
LEMMA S3NextPageKeeps ==
  ASSUME BatchInv, NEW w \in Callers, engine = "s3", UNCHANGED <<engine, options>>,
         S3NextPage(w)
  PROVE  BatchInv'
<1>1. /\ at[w] = "item" /\ at[w] \in {"list", "item"} /\ page[w] = <<>>
      /\ UNCHANGED <<engine, options, tableVars, steady, issueVars, readVars, next>>
  BY DEF S3NextPage
<1>2. CASE retried[w] /\ Remaining(w) > 0 /\ MoveTo(w, "list") /\ UNCHANGED returnVars
  <2>1. Moves(w, "list", next[w], snap[w], out[w], page[w], skipped[w], retried[w])
    BY <1>1, <1>2, Stays DEF Moves, MoveTo, readVars
  <2>2. CallOk(w, "list", next[w])
    BY <1>1, S3Has DEF CallOk, CallPoints, WriteKinds
  <2>3. RowsOk(w, "list", next[w], out[w], page[w], skipped[w], retried[w])
    BY <1>1, S3Has, Stays DEF RowsOk
  <2>4. SnapOk(w, "list", next[w], snap[w])
    BY Stays DEF SnapOk
  <2>5. UNCHANGED <<engine, options, tableVars, steady, issueVars, returnVars>> /\ Busy(w)
    BY <1>1, <1>2, S3Has
  <2> QED BY <2>1, <2>2, <2>3, <2>4, <2>5, MoveKeeps
<1>3. CASE ~(retried[w] /\ Remaining(w) > 0) /\ ReturnRows(w, "nil", out[w])
  <2>1. Listed(page[w], next[w], steady[w], retried[w]) /\ Len(page[w]) = 0
    BY <1>1, S3Has
  <2>2. CASE retried[w]
    <3>1. Len(out[w]) = call[w].count
      <4>1. Len(out[w]) \in Nat /\ call[w].count \in Nat /\ Len(out[w]) <= call[w].count
        BY <1>1, S3Has
      <4>2. ~(Remaining(w) > 0)
        BY <1>3, <2>2
      <4> QED BY <4>1, <4>2 DEF Remaining
    <3> QED BY <1>1, <1>3, <3>1, S3Returns
  <2>3. CASE ~retried[w]
    <3>1. \A k \in steady[w] : ~(k > next[w])
      BY <2>1, <2>3 DEF Listed
    <3>2. next[w] \in Int /\ \A k \in steady[w] : k \in Int
      <4>1. \A j \in Keys : j \in Int
        BY BatchAssumption DEF Keys
      <4> QED BY <1>1, <4>1, S3Has
    <3>3. \A j \in steady[w] \ skipped[w] : j <= next[w]
      BY <3>1, <3>2
    <3> QED BY <1>1, <1>3, <3>3, S3Returns
  <2> QED BY <2>2, <2>3
<1> QED BY <1>2, <1>3 DEF S3NextPage

\* s3: Scan lists the next page of keys.
LEMMA S3ListKeeps ==
  ASSUME BatchInv, NEW w \in Callers, engine = "s3", UNCHANGED <<engine, options>>,
         S3List(w)
  PROVE  BatchInv'
<1> DEFINE F == {k \in Present(table) : k > next[w]}
           ks == InOrder(F)
           q == IF Remaining(w) < PageMax THEN Remaining(w) ELSE PageMax
           N == Len(ks)
           m == IF q < N THEN q ELSE N
           p == SubSeq(ks, 1, m)
           b == q < N
<1>1. /\ at[w] = "list" /\ at[w] \in {"list", "item"} /\ Remaining(w) > 0
      /\ page' = [page EXCEPT ![w] = p] /\ retried' = [retried EXCEPT ![w] = b]
      /\ MoveTo(w, "item")
      /\ UNCHANGED <<engine, options, tableVars, steady, issueVars, returnVars>>
      /\ UNCHANGED <<snap, out, skipped, next>>
  BY DEF S3List
<1>2. F \in SUBSET Keys
  BY DEF Present
<1>3. /\ \A k \in F : k > next[w]
      /\ \A k \in steady[w] : k > next[w] => k \in F
  BY TableFacts
<1>4. Remaining(w) \in Nat \ {0} /\ Len(out[w]) + Remaining(w) = call[w].count
      /\ Len(out[w]) \in Nat
  <2>1. Len(out[w]) \in Nat /\ call[w].count \in Nat
    BY <1>1, S3Has
  <2> QED BY <1>1, <2>1 DEF Remaining
<1>5. F \in SUBSET Int /\ IsFiniteSet(F)
  <2> HIDE DEF F
  <2> QED BY <1>2, KeysFinite
<1> HIDE DEF F
<1>6. /\ ks \in Seq(F) /\ N \in Nat /\ Increasing(ks)
      /\ \A k \in F : \E i \in 1 .. N : ks[i] = k
  <2>1. /\ Cardinality(F) \in Nat /\ ks \in Seq(F) /\ N = Cardinality(F) /\ Increasing(ks)
        /\ \A k \in F : \E i \in 1 .. Cardinality(F) : ks[i] = k
    BY <1>5, InOrderFacts
  <2> QED BY <2>1
<1> HIDE DEF ks
<1>7. m \in Nat /\ m <= N /\ Len(out[w]) + m <= call[w].count /\ (m < N => b /\ m = q)
      /\ b \in BOOLEAN
  <2>1. q \in Nat /\ q <= Remaining(w)
    BY <1>4, PageAssumption
  <2> HIDE DEF q
  <2>2. m \in Nat /\ m <= N /\ m <= q /\ (m < N => q < N /\ m = q)
    BY <1>6, <2>1
  <2> HIDE DEF m, N
  <2> QED BY <1>4, <2>1, <2>2
<1>8. Len(p) = m /\ p \in Seq(F) /\ \A i \in 1 .. m : p[i] = ks[i]
  <2> HIDE DEF m
  <2>1. \A i \in 1 .. m : i \in 1 .. N
    BY <1>6, <1>7
  <2>2. \A i \in 1 .. m : ks[i] \in F
    BY <1>6, <2>1
  <2>3. p = [i \in 1 .. m |-> ks[i]]
    BY <1>6, <1>7
  <2> QED BY <1>7, <2>2, <2>3
<1>9. p \in Seq(Keys) /\ \A k \in F : k \in Int
  <2>1. \A k \in F : k \in Keys
    BY <1>2
  <2>2. Seq(F) \subseteq Seq(Keys)
    BY <2>1
  <2> HIDE DEF p
  <2>3. \A k \in F : k \in Int
    BY <1>5
  <2> QED BY <1>8, <2>2, <2>3
<1> HIDE DEF p, m
<1>10. Listed(p, next[w], steady[w], b)
  <2>1. \A j \in 1 .. Len(p) : p[j] > next[w]
    BY <1>3, <1>7, <1>8
  <2>2. \A i \in 1 .. m : i \in 1 .. N
    BY <1>6, <1>7
  <2>3. Increasing(p)
    BY <1>6, <1>8, <2>2 DEF Increasing
  <2>4. ASSUME NEW k \in steady[w], k > next[w], ~\E j \in 1 .. Len(p) : p[j] = k
        PROVE  b /\ \A j \in 1 .. Len(p) : p[j] < k
    <3>1. PICK i \in 1 .. N : ks[i] = k
      BY <1>3, <1>6, <2>4
    <3>2. i \notin 1 .. m
      BY <1>8, <2>4, <3>1
    <3>3. m < i /\ m < N
      BY <1>6, <1>7, <3>1, <3>2
    <3>4. ASSUME NEW j \in 1 .. m PROVE p[j] < k
      <4>1. j \in 1 .. N /\ j < i
        BY <1>6, <1>7, <3>1, <3>3
      <4>2. ks[j] < ks[i]
        BY <1>6, <3>1, <4>1 DEF Increasing
      <4> QED BY <1>8, <3>1, <4>2
    <3> QED BY <1>7, <1>8, <3>3, <3>4
  <2> HIDE DEF b
  <2> QED BY <2>1, <2>3, <2>4 DEF Listed
<1>11. Moves(w, "item", next[w], snap[w], out[w], p, skipped[w], b)
  <2> HIDE DEF b
  <2> QED BY <1>1, Stays DEF Moves, MoveTo
<1> HIDE DEF b
<1>12. CallOk(w, "item", next[w])
  BY <1>1, S3Has DEF CallOk, CallPoints, WriteKinds
<1>13. RowsOk(w, "item", next[w], out[w], p, skipped[w], b)
  <2>1. call[w].kind = "scan" /\ out[w] \in RowList
        /\ ScannedTo(KeysOf(out[w]), call[w], steady[w] \ skipped[w], next[w])
    BY <1>1, S3Has
  <2>2. Len(out[w]) + Len(p) <= call[w].count
    BY <1>7, <1>8
  <2>3. skipped[w] \in SUBSET Keys
    BY Stays
  <2> QED BY <1>7, <1>9, <1>10, <2>1, <2>2, <2>3 DEF RowsOk
<1>14. SnapOk(w, "item", next[w], snap[w])
  BY Stays DEF SnapOk
<1>15. Busy(w)
  BY <1>1, S3Has
<1> QED BY <1>1, <1>11, <1>12, <1>13, <1>14, <1>15, MoveKeeps

\* A page without its first key.
LEMMA ListedTail ==
  ASSUME NEW p \in Seq(Keys), p # <<>>, NEW n \in Keys, NEW S \in SUBSET Keys,
         NEW b \in BOOLEAN,
         Listed(p, n, S, b)
  PROVE  /\ Head(p) \in Keys /\ n < Head(p) /\ Tail(p) \in Seq(Keys)
         /\ Len(Tail(p)) = Len(p) - 1 /\ Len(p) \in Nat
         /\ \A j \in S : n < j /\ j <= Head(p) => j = Head(p)
         /\ Listed(Tail(p), Head(p), S, b)
<1> DEFINE h == Head(p)
           q == Tail(p)
           m == Len(p)
<1>1. /\ m \in Nat \ {0} /\ h = p[1] /\ q \in Seq(Keys) /\ Len(q) = m - 1
      /\ \A i \in 1 .. m - 1 : q[i] = p[i + 1]
  OBVIOUS
<1>2. /\ \A i \in 1 .. m : p[i] \in Int /\ p[i] \in Keys
      /\ n \in Int /\ \A j \in S : j \in Int
  <2>1. \A j \in Keys : j \in Int
    BY BatchAssumption DEF Keys
  <2> QED BY <2>1
<1>3. /\ \A j \in 1 .. m : p[j] > n
      /\ \A i, j \in 1 .. m : i < j => p[i] < p[j]
      /\ \A k \in S : k > n => \/ \E j \in 1 .. m : p[j] = k
                               \/ b /\ \A j \in 1 .. m : p[j] < k
  BY DEF Listed, Increasing
<1> HIDE DEF h, q, m
<1>4. 1 \in 1 .. m /\ h \in Keys /\ h \in Int /\ n < h
  BY <1>1, <1>2, <1>3
<1>5. \A i \in 1 .. m - 1 : i + 1 \in 1 .. m /\ 1 < i + 1
  BY <1>1
<1>6. ASSUME NEW j \in S, n < j, j <= h PROVE j = h
  <2>1. j > n
    BY <1>2, <1>6
  <2>2. CASE \E i \in 1 .. m : p[i] = j
    <3>1. PICK i \in 1 .. m : p[i] = j
      BY <2>2
    <3>2. i = 1 \/ 1 < i
      BY <1>1
    <3>3. 1 < i => h < j
      BY <1>1, <1>3, <1>4, <3>1
    <3> QED BY <1>1, <1>2, <1>4, <1>6, <3>1, <3>2, <3>3
  <2>3. CASE \A i \in 1 .. m : p[i] < j
    BY <1>1, <1>2, <1>4, <1>6, <2>3
  <2> QED BY <1>3, <2>1, <2>2, <2>3
<1>7. \A i \in 1 .. m - 1 : q[i] > h
  <2> TAKE i \in 1 .. m - 1
  <2>1. p[1] < p[i + 1] /\ p[i + 1] \in Int
    BY <1>2, <1>3, <1>4, <1>5
  <2> QED BY <1>1, <1>4, <2>1
<1>8. \A i, j \in 1 .. m - 1 : i < j => q[i] < q[j]
  <2> TAKE i, j \in 1 .. m - 1
  <2>1. i < j => i + 1 < j + 1
    BY <1>1
  <2>2. i + 1 \in 1 .. m /\ j + 1 \in 1 .. m
    BY <1>5
  <2>3. q[i] = p[i + 1] /\ q[j] = p[j + 1]
    BY <1>1
  <2>4. i < j => p[i + 1] < p[j + 1]
    BY <1>3, <2>1, <2>2
  <2> QED BY <2>3, <2>4
<1>9. ASSUME NEW k \in S, k > h
      PROVE  \/ \E j \in 1 .. m - 1 : q[j] = k
             \/ b /\ \A j \in 1 .. m - 1 : q[j] < k
  <2>1. k > n
    BY <1>2, <1>4, <1>9
  <2>2. CASE \E j \in 1 .. m : p[j] = k
    <3>1. PICK j \in 1 .. m : p[j] = k
      BY <2>2
    <3>2. j # 1
      BY <1>1, <1>2, <1>4, <1>9, <3>1
    <3>3. j - 1 \in 1 .. m - 1 /\ (j - 1) + 1 = j
      BY <1>1, <3>1, <3>2
    <3>4. q[j - 1] = k
      BY <1>1, <3>1, <3>3
    <3> QED BY <3>3, <3>4
  <2>3. CASE b /\ \A j \in 1 .. m : p[j] < k
    BY <1>1, <1>5, <2>3
  <2> QED BY <1>3, <2>1, <2>2, <2>3
<1>10. Listed(q, h, S, b)
  BY <1>1, <1>7, <1>8, <1>9 DEF Listed, Increasing
<1> QED BY <1>1, <1>4, <1>6, <1>10 DEF h, q, m

\* s3: Scan reads the next object of the page, which may be gone by now.
LEMMA S3ScanItemKeeps ==
  ASSUME BatchInv, NEW w \in Callers, engine = "s3", UNCHANGED <<engine, options>>,
         S3ScanItem(w)
  PROVE  BatchInv'
<1> DEFINE c == call[w]
           k == Head(page[w])
           p == Tail(page[w])
           n == next[w]
           S == steady[w] \ skipped[w]
<1>1. /\ at[w] = "item" /\ at[w] \in {"list", "item"} /\ page[w] # <<>> /\ Reads(w, k)
      /\ next' = [next EXCEPT ![w] = k] /\ page' = [page EXCEPT ![w] = p]
      /\ UNCHANGED <<engine, options, tableVars, steady, issueVars, returnVars>>
      /\ UNCHANGED <<snap, retried, at>>
  BY DEF S3ScanItem
<1>2. /\ Busy(w) /\ c.kind = "scan" /\ c.keys[1] \in Keys /\ c.count \in Nat
      /\ KeysOf(out[w]) \in Seq(Keys)
      /\ Len(KeysOf(out[w])) = Len(out[w]) /\ Len(out[w]) \in Nat
      /\ ScannedTo(KeysOf(out[w]), c, S, n)
      /\ n \in Keys /\ Len(out[w]) <= c.count
      /\ steady[w] \in SUBSET Keys /\ page[w] \in Seq(Keys)
      /\ Len(out[w]) + Len(page[w]) <= c.count
      /\ Listed(page[w], n, steady[w], retried[w])
  BY <1>1, S3Has
<1>3. retried[w] \in BOOLEAN /\ skipped[w] \in SUBSET Keys
  BY Stays
<1>4. /\ k \in Keys /\ n < k /\ p \in Seq(Keys)
      /\ Len(p) = Len(page[w]) - 1 /\ Len(page[w]) \in Nat
      /\ \A j \in steady[w] : n < j /\ j <= k => j = k
      /\ Listed(p, k, steady[w], retried[w])
  <2>1. PICK b \in BOOLEAN : b = retried[w]
    BY <1>3
  <2> DEFINE g == page[w]
             T == steady[w]
  <2>2. g \in Seq(Keys) /\ g # <<>> /\ T \in SUBSET Keys /\ n \in Keys /\ Listed(g, n, T, b)
    BY <1>1, <1>2, <2>1
  <2> HIDE DEF g, T, n
  <2>3. /\ Head(g) \in Keys /\ n < Head(g) /\ Tail(g) \in Seq(Keys)
        /\ Len(Tail(g)) = Len(g) - 1 /\ Len(g) \in Nat
        /\ \A j \in T : n < j /\ j <= Head(g) => j = Head(g)
        /\ Listed(Tail(g), Head(g), T, b)
    BY <2>2, ListedTail
  <2> QED BY <2>1, <2>3 DEF g, T, n
<1> HIDE DEF k, p
<1>5. Len(p) \in Nat /\ Len(out[w]) + 1 + Len(p) <= c.count /\ Len(out[w]) < c.count
      /\ Len(out[w]) + Len(p) <= c.count
  <2>1. Len(p) \in Nat
    BY <1>4
  <2>2. Len(page[w]) = Len(p) + 1
    BY <1>4, <2>1
  <2> DEFINE x == Len(out[w])
             y == Len(p)
             z == c.count
  <2>3. x \in Nat /\ y \in Nat /\ z \in Nat /\ x + (y + 1) <= z
    BY <1>2, <2>1, <2>2
  <2> HIDE DEF x, y, z
  <2>4. x + 1 + y <= z /\ x < z /\ x + y <= z
    BY <2>3
  <2> QED BY <2>1, <2>4 DEF x, y, z
<1>6. PICK o \in RowList, K \in SUBSET Keys :
        /\ out' = [out EXCEPT ![w] = o] /\ skipped' = [skipped EXCEPT ![w] = K]
        /\ \/ /\ KeysOf(o) = Append(KeysOf(out[w]), k) /\ K = skipped[w]
              /\ Len(o) = Len(out[w]) + 1
           \/ o = out[w] /\ K = skipped[w] \cup {k}
  BY <1>1, <1>4, ReadsOne
<1>7. ScannedTo(KeysOf(o), c, steady[w] \ K, k) /\ Len(o) + Len(p) <= c.count
  <2>1. S \in SUBSET Keys /\ \A j \in S : n < j /\ j <= k => j = k
    BY <1>2, <1>4
  <2> DEFINE us == KeysOf(out[w])
  <2>2. us \in Seq(Keys) /\ Len(us) < c.count /\ ScannedTo(us, c, S, n)
    BY <1>2, <1>5
  <2>3. /\ steady[w] \ (skipped[w] \cup {k}) \in SUBSET S
        /\ k \notin steady[w] \ (skipped[w] \cup {k})
    OBVIOUS
  <2> HIDE DEF us, S
  <2>4. /\ ScannedTo(Append(us, k), c, S, k)
        /\ \A R \in SUBSET S : k \notin R => ScannedTo(us, c, R, k)
    BY <1>2, <1>4, <2>1, <2>2, ScannedNext
  <2>5. CASE KeysOf(o) = Append(us, k) /\ K = skipped[w] /\ Len(o) = Len(out[w]) + 1
    BY <1>5, <2>4, <2>5 DEF S
  <2>6. CASE o = out[w] /\ K = skipped[w] \cup {k}
    <3>1. ScannedTo(us, c, steady[w] \ (skipped[w] \cup {k}), k)
      BY <2>3, <2>4
    <3> QED BY <1>5, <2>6, <3>1 DEF us
  <2> QED BY <1>6, <2>5, <2>6 DEF us
<1>8. Moves(w, at[w], k, snap[w], o, p, K, retried[w])
  BY <1>1, <1>6, Stays DEF Moves
<1>9. CallOk(w, at[w], k)
  <2>1. k \in Nat \ {0}
    BY <1>4, BatchAssumption DEF Keys
  <2> QED BY <1>1, <1>2, <2>1 DEF CallOk, CallPoints, WriteKinds
<1>10. RowsOk(w, at[w], k, o, p, K, retried[w])
  BY <1>1, <1>2, <1>3, <1>4, <1>7 DEF RowsOk
<1>11. SnapOk(w, at[w], k, snap[w])
  BY <1>1, Stays DEF SnapOk
<1> QED BY <1>1, <1>2, <1>8, <1>9, <1>10, <1>11, MoveKeeps

\* What a write leaves in the table and in the history.
LEMMA StoreFacts ==
  ASSUME BatchInv, NEW w \in Callers, Busy(w), NEW t \in Tables, NEW e \in Tables, NEW S,
         Store(w, t, e, S),
         \A i \in 1 .. Len(done[call[w].id]) : i \in S => done[call[w].id][i] = 0
  PROVE  /\ table' = t /\ expect' = e
         /\ version' \in [Keys -> Nat] /\ \A k \in Keys : version[k] <= version'[k]
         /\ call[w].kind # "read" =>
              \A i \in S : call[w].keys[i] \in Keys =>
                version[call[w].keys[i]] < version'[call[w].keys[i]]
         /\ done' \in [Calls -> Seq({0, 1})]
         /\ \A k \in Calls \ {call[w].id} : done'[k] = done[k]
         /\ Len(done'[call[w].id]) = Len(done[call[w].id])
         /\ Len(done[call[w].id]) \in Nat
         /\ \A i \in 1 .. Len(done[call[w].id]) :
              done'[call[w].id][i] = IF i \in S THEN 1 ELSE done[call[w].id][i]
         /\ steady' \in [Callers -> SUBSET Keys] /\ Steadier
<1> DEFINE id == call[w].id
           d == done[id]
           D == [i \in DOMAIN d |-> IF i \in S THEN d[i] + 1 ELSE d[i]]
<1>1. table' = t /\ expect' = e
  BY DEF Store
<1>2. version' = [k \in Keys |-> IF call[w].kind # "read" /\ \E i \in S : call[w].keys[i] = k
                                 THEN version[k] + 1 ELSE version[k]]
  BY DEF Store
<1>3. version \in [Keys -> Nat] /\ done \in [Calls -> Seq({0, 1})] /\ id \in Calls
      /\ steady \in [Callers -> SUBSET Keys]
  BY CallerType DEF BatchInv, BatchTypes
<1>4. version' \in [Keys -> Nat] /\ \A k \in Keys : version[k] <= version'[k]
  BY <1>2, <1>3
<1>5. ASSUME call[w].kind # "read", NEW i \in S, call[w].keys[i] \in Keys
      PROVE  version[call[w].keys[i]] < version'[call[w].keys[i]]
  BY <1>2, <1>3, <1>5
<1>6. done' = [done EXCEPT ![id] = D]
  BY DEF Store
<1>7. d \in Seq({0, 1}) /\ Len(d) \in Nat /\ DOMAIN d = 1 .. Len(d)
  BY <1>3
<1>8. \A i \in 1 .. Len(d) : (i \in S => d[i] = 0) /\ d[i] \in {0, 1}
  BY <1>7
<1> HIDE DEF d
<1>9. /\ \A i \in 1 .. Len(d) : D[i] = IF i \in S THEN 1 ELSE d[i]
      /\ D = [i \in 1 .. Len(d) |-> D[i]]
  BY <1>7, <1>8
<1> HIDE DEF D
<1>10. D \in Seq({0, 1}) /\ Len(D) = Len(d)
  <2>1. \A i \in 1 .. Len(d) : D[i] \in {0, 1}
    BY <1>8, <1>9
  <2> QED BY <1>7, <1>9, <2>1
<1>11. /\ done' \in [Calls -> Seq({0, 1})] /\ done'[id] = D
       /\ \A k \in Calls \ {id} : done'[k] = done[k]
  BY <1>3, <1>6, <1>10
<1>12. steady' \in [Callers -> SUBSET Keys] /\ Steadier
  <2>1. steady' = [v \in Callers |-> steady[v] \cap Present(t)]
    BY DEF Store
  <2>2. Present(table)' = Present(t)
    BY <1>1 DEF Present
  <2> QED BY <1>3, <2>1, <2>2 DEF Steadier
<1> QED BY <1>1, <1>4, <1>5, <1>7, <1>9, <1>10, <1>11, <1>12 DEF d, id

\* One record of a call is written outside of a transaction.
LEMMA StoreOneKeeps ==
  ASSUME BatchInv, NEW w \in Callers, engine # "sqlite", at[w] \in {"begin", "merge"},
         at' = [at EXCEPT ![w] = "begin"],
         NEW i \in DOMAIN call[w].keys, NEW n \in Nat \ {0}, n <= Len(call[w].keys) + 1,
         next' = [next EXCEPT ![w] = n],
         NEW t \in Tables, NEW e \in Tables, Store(w, t, e, {i}),
         UNCHANGED <<engine, options, issueVars, readVars, returnVars>>,
         call[w].kind # "scan", engine # "pg" => call[w].kind \in WriteKinds,
         engine # "raw" => Looped(w) /\ i = next[w] /\ n = next[w] + 1,
         engine = "raw" => done[call[w].id][i] = 0,
         engine # "mysql" => t \in [Keys -> OwnRow],
         engine = "pg" \/ (engine = "s3" /\ options.overwrite) => t = e
  PROVE  BatchInv'
<1> DEFINE id == call[w].id
           d == done[id]
<1>1. Busy(w) /\ id \in Calls /\ BatchTypes /\ CallInv(w) /\ ExecInv(w)
  BY CallerType DEF Busy, BatchInv, CallerInv
<1>2. UNCHANGED <<engine, options, issued, call, snap, out, page, skipped, retried, result,
                  rows>>
  BY DEF issueVars, readVars, returnVars
<1>3. d \in Seq({0, 1}) /\ Len(d) \in Nat /\ next[w] \in Nat \ {0}
  BY <1>1 DEF BatchTypes
<1>4. \A j \in 1 .. Len(d) : j \in {i} => d[j] = 0
  <2>1. CASE engine = "raw"
    BY <2>1
  <2>2. CASE engine # "raw"
    <3>1. i = next[w] /\ \A j \in 1 .. Len(d) : ~(j < next[w]) => d[j] = 0
      BY <1>1, <2>2 DEF ExecInv
    <3> QED BY <1>3, <3>1
  <2> QED BY <2>1, <2>2
<1>5. /\ table' = t /\ expect' = e /\ version' \in [Keys -> Nat]
      /\ done' \in [Calls -> Seq({0, 1})]
      /\ \A k \in Calls \ {id} : done'[k] = done[k]
      /\ Len(done'[id]) = Len(d)
      /\ \A j \in 1 .. Len(d) : done'[id][j] = IF j \in {i} THEN 1 ELSE d[j]
      /\ steady' \in [Callers -> SUBSET Keys] /\ Steadier
  BY <1>1, <1>4, StoreFacts
<1>6. at' \in [Callers -> CallPoints] /\ next' \in [Callers -> Nat \ {0}]
      /\ at'[w] = "begin" /\ next'[w] = n
      /\ \A v \in Callers \ {w} : at'[v] = at[v] /\ next'[v] = next[v]
  BY <1>1 DEF BatchTypes, CallPoints
<1>7. BatchTypes'
  BY <1>1, <1>2, <1>5, <1>6 DEF BatchTypes
<1>8. Frame(w, id)
  BY <1>2, <1>5, <1>6 DEF Frame
<1>9. Busy(w)' /\ result'[id] = "none"
  BY <1>1, <1>2, <1>6 DEF Busy, BatchInv, IdsInv
<1>10. CallInv(w)'
  BY <1>1, <1>2, <1>6 DEF CallInv
<1>11. ExecInv(w)'
  <2>1. Looped(w)' <=> Looped(w)
    BY <1>2 DEF Looped
  <2>2. Len(done'[id]) = IF call'[w].kind \in WriteKinds THEN Len(call'[w].keys) ELSE 0
    BY <1>1, <1>2, <1>5 DEF ExecInv
  <2>3. ASSUME engine # "raw", NEW j \in 1 .. Len(d)
        PROVE  done'[id][j] = IF j < n THEN 1 ELSE 0
    <3>1. d[j] = IF j < next[w] THEN 1 ELSE 0
      BY <1>1, <2>3 DEF ExecInv
    <3>2. i = next[w] /\ n = next[w] + 1
      BY <2>3
    <3>3. done'[id][j] = IF j = i THEN 1 ELSE d[j]
      BY <1>5
    <3>4. j < n <=> j < next[w] \/ j = i
      BY <1>3, <3>2
    <3> QED BY <3>1, <3>3, <3>4
  <2> QED BY <1>2, <1>5, <1>6, <2>1, <2>2, <2>3 DEF ExecInv
<1>12. ReadInv(w)' /\ ScanInv(w)'
  <2>1. call'[w] = call[w] /\ engine' = engine
    BY <1>2
  <2> QED BY <2>1 DEF ReadInv, ScanInv, WriteKinds
<1>13. SteadyInv(w)' /\ ReadDone(w)' /\ ScanDone(w)'
  <2>1. steady'[w] \subseteq Present(table)'
    BY <1>5 DEF Steadier
  <2> QED BY <1>6, <2>1 DEF SteadyInv, ReadDone, ScanDone
<1>14. CallerInv(w)'
  BY <1>10, <1>11, <1>12, <1>13 DEF CallerInv
<1>15. LeavesInv(id)'
  <2>1. done'[id] \in Seq({0, 1}) /\ DOMAIN done'[id] = 1 .. Len(d)
    BY <1>1, <1>3, <1>5
  <2>2. ASSUME engine # "raw", NEW j \in DOMAIN done'[id]
        PROVE  done'[id][j] > 0 <=> j < n
    <3>1. done'[id][j] = IF Looped(w)' /\ j < next'[w] THEN 1 ELSE 0
      BY <1>2, <1>5, <1>9, <1>11, <2>1, <2>2 DEF ExecInv
    <3>2. Looped(w)'
      BY <1>2, <2>2 DEF Looped
    <3> QED BY <1>6, <3>1, <3>2
  <2>3. ASSUME engine # "raw", NEW j \in DOMAIN done'[id], NEW l \in DOMAIN done'[id],
               done'[id][j] > 0, l < j
        PROVE  done'[id][l] > 0
    <3>1. j < n /\ j \in Nat /\ l \in Nat
      BY <1>3, <2>1, <2>2, <2>3
    <3>2. l < n
      BY <2>3, <3>1
    <3> QED BY <2>2, <2>3, <3>2
  <2>4. engine # "raw" => \A j \in Executed(id)', l \in DOMAIN done'[id] :
                            l < j => l \in Executed(id)'
    BY <1>2, <2>3 DEF Executed
  <2> QED BY <1>2, <1>9, <2>4 DEF LeavesInv
<1>16. LockInv' /\ SinglesInv' /\ OwnInv'
  <2>1. LockInv'
    BY <1>2 DEF LockInv
  <2>2. SinglesInv'
    BY <1>2, <1>5 DEF SinglesInv
  <2>3. OwnInv'
    BY <1>2, <1>5 DEF BatchInv, OwnInv
  <2> QED BY <2>1, <2>2, <2>3
<1>17. UNCHANGED <<issued, call>> /\ Steadier
  BY <1>2, <1>5
<1> QED BY <1>1, <1>7, <1>8, <1>9, <1>14, <1>15, <1>16, <1>17, StepKeeps

\* A call writes all of its records and returns.
LEMMA StoreAllKeeps ==
  ASSUME BatchInv, NEW w \in Callers, Busy(w), call[w].kind \in WriteKinds, ~Looped(w),
         engine # "raw", NEW t \in Tables, NEW e \in Tables, NEW rs \in RowList,
         Store(w, t, e, DOMAIN call[w].keys), ReturnRows(w, "nil", rs),
         UNCHANGED <<engine, options, issueVars, readVars, next>>,
         engine # "mysql" => t \in [Keys -> OwnRow], LockInv', SinglesInv'
  PROVE  BatchInv'
<1> DEFINE id == call[w].id
           d == done[id]
<1>1. id \in Calls /\ BatchTypes /\ ExecInv(w) /\ DOMAIN call[w].keys = 1 .. Len(call[w].keys)
  BY CallerType DEF BatchInv, CallerInv
<1>2. UNCHANGED <<engine, options, issued, call, snap, out, page, skipped, retried, next>>
  BY DEF issueVars, readVars
<1>3. d \in Seq({0, 1}) /\ Len(d) \in Nat
  BY <1>1 DEF BatchTypes
<1>4. Len(d) = Len(call[w].keys) /\ \A j \in 1 .. Len(d) : j \in DOMAIN call[w].keys => d[j] = 0
  BY <1>1 DEF ExecInv
<1>5. /\ table' = t /\ expect' = e /\ version' \in [Keys -> Nat]
      /\ done' \in [Calls -> Seq({0, 1})]
      /\ \A k \in Calls \ {id} : done'[k] = done[k]
      /\ Len(done'[id]) = Len(d)
      /\ \A j \in 1 .. Len(d) : done'[id][j] = IF j \in DOMAIN call[w].keys THEN 1 ELSE d[j]
      /\ steady' \in [Callers -> SUBSET Keys] /\ Steadier
  <2> DEFINE S == DOMAIN call[w].keys
  <2>1. /\ Store(w, t, e, S)
        /\ \A j \in 1 .. Len(done[call[w].id]) : j \in S => done[call[w].id][j] = 0
    BY <1>4
  <2> HIDE DEF S
  <2>2. /\ table' = t /\ expect' = e /\ version' \in [Keys -> Nat]
        /\ done' \in [Calls -> Seq({0, 1})]
        /\ \A k \in Calls \ {id} : done'[k] = done[k]
        /\ Len(done'[id]) = Len(d)
        /\ \A j \in 1 .. Len(d) : done'[id][j] = IF j \in S THEN 1 ELSE d[j]
        /\ steady' \in [Callers -> SUBSET Keys] /\ Steadier
    BY <2>1, StoreFacts
  <2> QED BY <2>2 DEF S
<1>6. /\ at' = [at EXCEPT ![w] = "idle"] /\ result' = [result EXCEPT ![id] = "nil"]
      /\ rows' = [rows EXCEPT ![id] = rs]
  BY DEF ReturnRows, MoveTo
<1>7. /\ at' \in [Callers -> CallPoints] /\ at'[w] = "idle"
      /\ result' \in [Calls -> Results] /\ result'[id] = "nil"
      /\ rows' \in [Calls -> RowList]
      /\ \A v \in Callers \ {w} : at'[v] = at[v]
      /\ \A k \in Calls \ {id} : result'[k] = result[k] /\ rows'[k] = rows[k]
  BY <1>1, <1>6 DEF BatchTypes, CallPoints, Results
<1>8. BatchTypes'
  BY <1>1, <1>2, <1>5, <1>7 DEF BatchTypes
<1>9. Frame(w, id)
  BY <1>2, <1>5, <1>7 DEF Frame
<1>10. CallerInv(w)'
  <2>1. ~Busy(w)' /\ at'[w] # "run" /\ call'[w] = call[w]
    BY <1>2, <1>7 DEF Busy
  <2>2. CallInv(w)' /\ ExecInv(w)' /\ ReadInv(w)' /\ ScanInv(w)'
    BY <2>1 DEF CallInv, ExecInv, ReadInv, ScanInv
  <2>3. steady'[w] \subseteq Present(table)'
    BY <1>5 DEF Steadier
  <2>4. SteadyInv(w)' /\ ReadDone(w)' /\ ScanDone(w)'
    BY <2>1, <2>3 DEF SteadyInv, ReadDone, ScanDone, WriteKinds
  <2> QED BY <2>2, <2>4 DEF CallerInv
<1>11. LeavesInv(id)'
  <2>1. done'[id] \in Seq({0, 1}) /\ DOMAIN done'[id] = 1 .. Len(d)
    BY <1>1, <1>3, <1>5
  <2>2. \A j \in DOMAIN done'[id] : done'[id][j] > 0
    BY <1>1, <1>4, <1>5, <2>1
  <2>3. Executed(id)' = DOMAIN done'[id]
    BY <1>2, <2>2 DEF Executed
  <2>4. result'[id] = "nil" /\ call'[w].id = id /\ done'[call'[w].id] = done'[id]
    BY <1>2, <1>7
  <2>5. \A j \in Executed(id)', l \in DOMAIN done'[id] : l < j => l \in Executed(id)'
    BY <2>3
  <2> QED BY <2>3, <2>4, <2>5 DEF LeavesInv
<1>12. OwnInv'
  BY <1>2, <1>5 DEF BatchInv, OwnInv
<1>13. ~Busy(w)' /\ UNCHANGED <<issued, call>> /\ Steadier
  BY <1>2, <1>5, <1>7 DEF Busy
<1> QED BY <1>8, <1>9, <1>10, <1>11, <1>12, <1>13, StepKeeps

\* A table with another row under one key.
LEMMA OneRow ==
  ASSUME NEW k \in Keys, NEW row
  PROVE  /\ \A t \in Tables : row \in AnyRow => [t EXCEPT ![k] = row] \in Tables
         /\ \A t \in [Keys -> OwnRow] : row \in OwnRow => [t EXCEPT ![k] = row] \in [Keys -> OwnRow]
BY DEF Tables

\* The next record of a loop of statements.
LEMMA LoopStore ==
  ASSUME BatchInv, NEW w \in Callers, Looped(w), at[w] \in {"begin", "merge"},
         at' = [at EXCEPT ![w] = "begin"],
         call[w].kind # "scan", engine # "pg" => call[w].kind \in WriteKinds,
         next[w] \in DOMAIN call[w].keys, NEW row \in AnyRow, NEW x \in AnyRow,
         engine # "mysql" => row \in OwnRow,
         engine = "pg" \/ (engine = "s3" /\ options.overwrite) => (table = expect => row = x),
         Store(w, [table EXCEPT ![call[w].keys[next[w]]] = row],
               [expect EXCEPT ![call[w].keys[next[w]]] = x], {next[w]}),
         next' = [next EXCEPT ![w] = next[w] + 1],
         UNCHANGED <<engine, options, issueVars, readVars, returnVars>>
  PROVE  BatchInv'
<1> DEFINE k == call[w].keys[next[w]]
           t == [table EXCEPT ![k] = row]
           e == [expect EXCEPT ![k] = x]
<1>1. k \in Keys /\ next[w] \in 1 .. Len(call[w].keys) /\ Len(call[w].keys) \in Nat
  BY CallerType
<1>2. t \in Tables /\ e \in Tables
  BY <1>1, TableFacts, OneRow
<1>3. engine # "mysql" => t \in [Keys -> OwnRow]
  <2>1. engine # "mysql" => table \in [Keys -> OwnRow]
    BY DEF BatchInv, OwnInv
  <2> QED BY <1>1, <2>1, OneRow
<1>4. engine = "pg" \/ (engine = "s3" /\ options.overwrite) => t = e
  BY DEF BatchInv, SinglesInv
<1>5. engine # "sqlite" /\ engine # "raw"
  BY DEF Looped
<1>6. next[w] + 1 \in Nat \ {0} /\ next[w] + 1 <= Len(call[w].keys) + 1
  BY <1>1
<1>7. PICK n \in Nat \ {0} : n = next[w] + 1
  BY <1>6
<1>8. PICK i \in DOMAIN call[w].keys : i = next[w]
  OBVIOUS
<1>9. Store(w, t, e, {i}) /\ next' = [next EXCEPT ![w] = n]
      /\ n <= Len(call[w].keys) + 1
  BY <1>6, <1>7, <1>8
<1> HIDE DEF t, e
<1> QED BY <1>2, <1>3, <1>4, <1>5, <1>7, <1>8, <1>9, StoreOneKeeps

\* The end of a loop of statements.
LEMMA LoopReturn ==
  ASSUME BatchInv, NEW w \in Callers, Looped(w), at[w] = "begin",
         call[w].kind # "scan", engine # "pg" => call[w].kind \in WriteKinds,
         Return(w, IF next[w] \in DOMAIN call[w].keys THEN "error" ELSE "nil"),
         UNCHANGED <<engine, options, tableVars, steady, issueVars, readVars, next>>
  PROVE  BatchInv'
<1>1. Busy(w)
  BY DEF Busy
<1>2. CASE next[w] \in DOMAIN call[w].keys
  BY <1>1, <1>2, ErrorKeeps
<1>3. CASE next[w] \notin DOMAIN call[w].keys
  <2> DEFINE d == done[call[w].id]
  <2>1. PICK r \in {"nil", "error"} : r = "nil"
    OBVIOUS
  <2>8. <<>> \in RowList
    BY DEF RowList
  <2>2. PICK rs \in RowList : rs = <<>>
    BY <2>8
  <2>3. ReturnRows(w, r, rs)
    BY <1>3, <2>1, <2>2 DEF Return
  <2>4. d \in Seq({0, 1}) /\ DOMAIN call[w].keys = 1 .. Len(call[w].keys)
        /\ next[w] \in Nat \ {0} /\ Len(call[w].keys) \in Nat
    BY <1>1, CallerType DEF BatchInv, BatchTypes
  <2>5. /\ Len(d) = IF call[w].kind \in WriteKinds THEN Len(call[w].keys) ELSE 0
        /\ \A i \in 1 .. Len(d) : i < next[w] => d[i] = 1
    BY <1>1 DEF BatchInv, CallerInv, ExecInv, Looped
  <2>6. Executed(call[w].id) = DOMAIN done[call[w].id]
    <3>1. \A i \in 1 .. Len(d) : i < next[w]
      BY <1>3, <2>4, <2>5
    <3>2. \A i \in DOMAIN d : d[i] > 0
      BY <2>4, <2>5, <3>1
    <3> QED BY <3>2 DEF Executed
  <2>7. call[w].kind = "read" => engine \notin {"sqlite", "tikv", "raw", "s3"}
    BY DEF WriteKinds
  <2> QED BY <1>1, <2>3, <2>6, <2>7, ReturnKeeps
<1> QED BY <1>2, <1>3

\* A loop of statements, for the rows that the statement writes.
LEMMA LoopKeeps ==
  ASSUME BatchInv, NEW w \in Callers, Looped(w), at[w] = "begin", UNCHANGED <<engine, options>>,
         call[w].kind # "scan", engine # "pg" => call[w].kind \in WriteKinds,
         NEW row, NEW x,
         next[w] \in DOMAIN call[w].keys =>
           /\ row \in AnyRow /\ x \in AnyRow
           /\ engine # "mysql" => row \in OwnRow
           /\ table = expect => row = x,
         \/ /\ next[w] \in DOMAIN call[w].keys
            /\ Store(w, [table EXCEPT ![call[w].keys[next[w]]] = row],
                     [expect EXCEPT ![call[w].keys[next[w]]] = x], {next[w]})
            /\ next' = [next EXCEPT ![w] = next[w] + 1]
            /\ UNCHANGED <<returnVars, at>>
         \/ /\ Return(w, IF next[w] \in DOMAIN call[w].keys THEN "error" ELSE "nil")
            /\ UNCHANGED <<tableVars, steady, next>>,
         UNCHANGED <<issueVars, readVars>>
  PROVE  BatchInv'
<1>1. CASE /\ next[w] \in DOMAIN call[w].keys
           /\ Store(w, [table EXCEPT ![call[w].keys[next[w]]] = row],
                    [expect EXCEPT ![call[w].keys[next[w]]] = x], {next[w]})
           /\ next' = [next EXCEPT ![w] = next[w] + 1]
           /\ UNCHANGED <<returnVars, at>>
  <2>1. at' = [at EXCEPT ![w] = "begin"] /\ at[w] \in {"begin", "merge"}
    BY <1>1, Stays
  <2>2. UNCHANGED <<engine, options, issueVars, readVars, returnVars>>
    BY <1>1
  <2>3. row \in AnyRow /\ x \in AnyRow /\ (engine # "mysql" => row \in OwnRow)
        /\ (table = expect => row = x)
    BY <1>1
  <2> QED BY <1>1, <2>1, <2>2, <2>3, LoopStore
<1>2. CASE /\ Return(w, IF next[w] \in DOMAIN call[w].keys THEN "error" ELSE "nil")
           /\ UNCHANGED <<tableVars, steady, next>>
  <2>1. UNCHANGED <<engine, options, tableVars, steady, issueVars, readVars, next>>
    BY <1>2
  <2> QED BY <1>2, <2>1, LoopReturn
<1> QED BY <1>1, <1>2

\* The rows under the key of the next record.
LEMMA RowsThere ==
  ASSUME BatchInv, NEW w \in Callers, Busy(w), next[w] \in DOMAIN call[w].keys
  PROVE  LET k == call[w].keys[next[w]] IN
         /\ k \in Keys /\ table[k] \in AnyRow /\ expect[k] \in AnyRow
         /\ snap[w].table[k] \in AnyRow
         /\ engine # "mysql" => table[k] \in OwnRow /\ snap[w].table[k] \in OwnRow
         /\ GoodCall(call[w])
<1> DEFINE k == call[w].keys[next[w]]
<1>1. k \in Keys /\ GoodCall(call[w])
  BY CallerType
<1>2. table[k] \in AnyRow /\ expect[k] \in AnyRow /\ snap[w].table[k] \in AnyRow
  BY <1>1, TableFacts, CallerType DEF Tables
<1>3. engine # "mysql" => table[k] \in OwnRow /\ snap[w].table[k] \in OwnRow
  BY <1>1 DEF BatchInv, OwnInv
<1> QED BY <1>1, <1>2, <1>3

\* pg: the wrapper makes a single call for the next record.
LEMMA WrapperLoopKeeps ==
  ASSUME BatchInv, NEW w \in Callers, engine = "pg", UNCHANGED <<engine, options>>,
         WrapperLoop(w)
  PROVE  BatchInv'
<1> DEFINE c == call[w]
           i == next[w]
           k == c.keys[i]
           row == PgSingle(c, i, table[k])
           x == PgSingle(c, i, expect[k])
<1>1. at[w] = "begin" /\ c.kind # "scan" /\ Busy(w) /\ Looped(w)
      /\ UNCHANGED <<issueVars, readVars>>
  BY DEF WrapperLoop, StatementLoop, Busy, Looped
<1>2. \/ /\ i \in DOMAIN c.keys
         /\ Store(w, [table EXCEPT ![k] = row], [expect EXCEPT ![k] = x], {i})
         /\ next' = [next EXCEPT ![w] = i + 1]
         /\ UNCHANGED <<returnVars, at>>
      \/ /\ Return(w, IF i \in DOMAIN c.keys THEN "error" ELSE "nil")
         /\ UNCHANGED <<tableVars, steady, next>>
  BY DEF WrapperLoop, StatementLoop
<1>3. i \in DOMAIN c.keys => /\ row \in AnyRow /\ x \in AnyRow
                             /\ engine # "mysql" => row \in OwnRow
                             /\ table = expect => row = x
  BY <1>1, RowsThere, SinglesType
<1> HIDE DEF row, x
<1> QED BY <1>1, <1>2, <1>3, LoopKeeps

\* mysql: BatchUpdate executes a statement for the next record.
LEMMA MysqlBatchUpdateKeeps ==
  ASSUME BatchInv, NEW w \in Callers, engine = "mysql", UNCHANGED <<engine, options>>,
         MysqlBatchUpdate(w)
  PROVE  BatchInv'
<1> DEFINE c == call[w]
           i == next[w]
           k == c.keys[i]
           row == MysqlSingle(c, i, table[k])
           x == MysqlSingle(c, i, expect[k])
<1>1. at[w] = "begin" /\ c.kind # "scan" /\ c.kind \in WriteKinds /\ Busy(w) /\ Looped(w)
      /\ UNCHANGED <<issueVars, readVars>>
  BY DEF MysqlBatchUpdate, StatementLoop, Busy, Looped, WriteKinds
<1>2. \/ /\ i \in DOMAIN c.keys
         /\ Store(w, [table EXCEPT ![k] = row], [expect EXCEPT ![k] = x], {i})
         /\ next' = [next EXCEPT ![w] = i + 1]
         /\ UNCHANGED <<returnVars, at>>
      \/ /\ Return(w, IF i \in DOMAIN c.keys THEN "error" ELSE "nil")
         /\ UNCHANGED <<tableVars, steady, next>>
  BY DEF MysqlBatchUpdate, StatementLoop
<1>3. i \in DOMAIN c.keys => /\ row \in AnyRow /\ x \in AnyRow
                             /\ engine # "mysql" => row \in OwnRow
                             /\ table = expect => row = x
  BY <1>1, RowsThere, SinglesType
<1> HIDE DEF row, x
<1> QED BY <1>1, <1>2, <1>3, LoopKeeps

\* s3: the next record of a batch that needs no read.
LEMMA S3LoopKeeps ==
  ASSUME BatchInv, NEW w \in Callers, engine = "s3", UNCHANGED <<engine, options>>,
         S3Loop(w)
  PROVE  BatchInv'
<1> DEFINE c == call[w]
           i == next[w]
           k == c.keys[i]
           row == S3Single(c, i, table[k])
           x == S3Single(c, i, expect[k])
<1>1. at[w] = "begin" /\ c.kind # "scan" /\ c.kind \in WriteKinds /\ Busy(w) /\ Looped(w)
      /\ UNCHANGED <<issueVars, readVars>>
  BY DEF S3Loop, StatementLoop, Busy, Looped, WriteKinds
<1>2. \/ /\ i \in DOMAIN c.keys
         /\ Store(w, [table EXCEPT ![k] = row], [expect EXCEPT ![k] = x], {i})
         /\ next' = [next EXCEPT ![w] = i + 1]
         /\ UNCHANGED <<returnVars, at>>
      \/ /\ Return(w, IF i \in DOMAIN c.keys THEN "error" ELSE "nil")
         /\ UNCHANGED <<tableVars, steady, next>>
  BY DEF S3Loop, StatementLoop
<1>3. i \in DOMAIN c.keys => /\ row \in AnyRow /\ x \in AnyRow
                             /\ engine # "mysql" => row \in OwnRow
                             /\ table = expect => row = x
  BY <1>1, RowsThere, SinglesType
<1> HIDE DEF row, x
<1> QED BY <1>1, <1>2, <1>3, LoopKeeps

\* s3: Update puts the merged object.
LEMMA S3UpdatePutKeeps ==
  ASSUME BatchInv, NEW w \in Callers, engine = "s3", UNCHANGED <<engine, options>>,
         S3UpdatePut(w)
  PROVE  BatchInv'
<1> DEFINE c == call[w]
           i == next[w]
           k == c.keys[i]
           row == S3Single(c, i, snap[w].table[k])
           x == S3Single(c, i, expect[k])
<1>1. at[w] = "merge" /\ Busy(w) /\ UNCHANGED <<issueVars, readVars>>
  BY DEF S3UpdatePut, Busy
<1>2. c.kind = "update" /\ ~options.overwrite /\ i <= Len(c.keys)
  BY <1>1 DEF BatchInv, CallerInv, CallInv
<1>3. i \in DOMAIN c.keys /\ Looped(w) /\ c.kind # "scan" /\ c.kind \in WriteKinds
  BY <1>2, CallerType DEF Looped, WriteKinds
<1>4. row \in AnyRow /\ x \in AnyRow /\ row \in OwnRow
  BY <1>1, <1>3, RowsThere, SinglesType
<1>5. CASE /\ Store(w, [table EXCEPT ![k] = row], [expect EXCEPT ![k] = x], {i})
           /\ next' = [next EXCEPT ![w] = i + 1] /\ MoveTo(w, "begin") /\ UNCHANGED returnVars
  <2>1. at' = [at EXCEPT ![w] = "begin"] /\ at[w] \in {"begin", "merge"}
    BY <1>1, <1>5 DEF MoveTo
  <2>2. UNCHANGED <<engine, options, issueVars, readVars, returnVars>>
    BY <1>1, <1>5
  <2> HIDE DEF row, x
  <2> QED BY <1>2, <1>3, <1>4, <1>5, <2>1, <2>2, LoopStore
<1>6. CASE Return(w, "error") /\ UNCHANGED <<tableVars, steady, next>>
  <2>1. UNCHANGED <<engine, options, tableVars, steady, issueVars, readVars, next>>
    BY <1>1, <1>6
  <2> QED BY <1>1, <1>6, <2>1, ErrorKeeps
<1> QED BY <1>5, <1>6 DEF S3UpdatePut

\* raw: a record of the batch is stored, in any order.
LEMMA RawExecuteKeeps ==
  ASSUME BatchInv, NEW w \in Callers, engine = "raw", UNCHANGED <<engine, options>>,
         RawExecute(w)
  PROVE  BatchInv'
<1> DEFINE c == call[w]
<1>1. /\ at[w] = "begin" /\ Busy(w) /\ c.kind \in WriteKinds /\ c.kind # "scan"
      /\ UNCHANGED <<engine, options, issueVars, readVars, returnVars>> /\ UNCHANGED <<next, at>>
  BY DEF RawExecute, Busy, WriteKinds
<1>2. PICK i \in DOMAIN c.keys :
        /\ done[c.id][i] = 0
        /\ Store(w, [table EXCEPT ![c.keys[i]] = TikvBatchRow(c, i, @)],
                 [expect EXCEPT ![c.keys[i]] = RawSingle(c, i, @)], {i})
  BY DEF RawExecute
<1> DEFINE k == c.keys[i]
           row == TikvBatchRow(c, i, table[k])
           x == RawSingle(c, i, expect[k])
           t == [table EXCEPT ![k] = row]
           e == [expect EXCEPT ![k] = x]
<1>3. Store(w, t, e, {i})
  BY <1>2
<1>4. k \in Keys /\ GoodCall(c) /\ table \in Tables /\ expect \in Tables
      /\ table \in [Keys -> OwnRow]
  BY <1>1, CallerType, TableFacts DEF BatchInv, OwnInv
<1>5. table[k] \in AnyRow /\ expect[k] \in AnyRow /\ table[k] \in OwnRow
  BY <1>4 DEF Tables
<1>6. row \in AnyRow /\ row \in OwnRow /\ x \in AnyRow
  BY <1>4, <1>5, SinglesType
<1> HIDE DEF row, x
<1>7. t \in Tables /\ e \in Tables /\ t \in [Keys -> OwnRow]
  BY <1>4, <1>6, OneRow
<1>8. at' = [at EXCEPT ![w] = "begin"] /\ next' = [next EXCEPT ![w] = next[w]]
      /\ at[w] \in {"begin", "merge"}
  BY <1>1, Stays
<1>9. next[w] \in Nat \ {0} /\ next[w] <= Len(c.keys) + 1
  BY <1>1, CallerType DEF BatchInv, CallerInv, CallInv
<1> HIDE DEF t, e
<1> QED BY <1>1, <1>2, <1>3, <1>7, <1>8, <1>9, StoreOneKeeps

\* All records of a call, for records that stay in a set of rows.
LEMMA EachIn ==
  ASSUME NEW X, NEW t \in [Keys -> X], NEW c, c.keys \in Seq(Keys), NEW does,
         \A i \in 1 .. Len(c.keys) : \A row \in X : does[i][row] \in X
  PROVE  Each(t, c, does) \in [Keys -> X]
<1>1. \A n \in 0 .. Len(c.keys) : After(t, c, does)[n] \in [Keys -> X]
  BY AfterIn
<1>2. Len(c.keys) \in 0 .. Len(c.keys)
  OBVIOUS
<1> QED BY <1>1, <1>2 DEF Each

\* What the batch calls make of tables.
LEMMA EachTypes ==
  ASSUME NEW c, GoodCall(c), NEW t \in Tables
  PROVE  /\ Each(t, c, Does(c, MysqlSingle)) \in Tables
         /\ Each(t, c, Does(c, SqliteSingle)) \in Tables
         /\ Each(t, c, Does(c, TxnSingle)) \in Tables
         /\ Each(t, c, Does(c, TikvBatchRow)) \in Tables
         /\ t \in [Keys -> OwnRow] => /\ Each(t, c, Does(c, TikvBatchRow)) \in [Keys -> OwnRow]
                                      /\ Each(t, c, Does(c, SqliteSingle)) \in [Keys -> OwnRow]
<1>1. c.keys \in Seq(Keys) /\ DOMAIN c.keys = 1 .. Len(c.keys) /\ t \in [Keys -> AnyRow]
  <2>1. c.keys \in Seq(Keys)
    BY DEF GoodCall, CallRecords
  <2> QED BY <2>1 DEF Tables
<1> DEFINE my == Does(c, MysqlSingle)
           lite == Does(c, SqliteSingle)
           txn == Does(c, TxnSingle)
           batch == Does(c, TikvBatchRow)
<1>2. ASSUME NEW i \in 1 .. Len(c.keys), NEW row \in AnyRow
      PROVE  /\ my[i][row] \in AnyRow /\ lite[i][row] \in AnyRow
             /\ txn[i][row] \in AnyRow /\ batch[i][row] \in AnyRow
             /\ row \in OwnRow => batch[i][row] \in OwnRow /\ lite[i][row] \in OwnRow
  <2>1. i \in DOMAIN c.keys
    BY <1>1
  <2>2. /\ my[i][row] = MysqlSingle(c, i, row) /\ lite[i][row] = SqliteSingle(c, i, row)
        /\ txn[i][row] = TxnSingle(c, i, row) /\ batch[i][row] = TikvBatchRow(c, i, row)
    BY <2>1, DoesOne
  <2> HIDE DEF my, lite, txn, batch
  <2> QED BY <2>1, <2>2, SinglesType
<1> HIDE DEF my, lite, txn, batch
<1>3. /\ Each(t, c, my) \in [Keys -> AnyRow] /\ Each(t, c, lite) \in [Keys -> AnyRow]
      /\ Each(t, c, txn) \in [Keys -> AnyRow] /\ Each(t, c, batch) \in [Keys -> AnyRow]
  BY <1>1, <1>2, EachIn
<1>4. ASSUME t \in [Keys -> OwnRow]
      PROVE  Each(t, c, batch) \in [Keys -> OwnRow] /\ Each(t, c, lite) \in [Keys -> OwnRow]
  <2>1. \A i \in 1 .. Len(c.keys) : \A row \in OwnRow :
          batch[i][row] \in OwnRow /\ lite[i][row] \in OwnRow
    BY <1>2, OwnIsRow
  <2> QED BY <1>1, <1>4, <2>1, EachIn
<1> QED BY <1>3, <1>4 DEF my, lite, txn, batch, Tables

\* One statement of mysql that makes t of the table.
LEMMA OneStatementKeeps ==
  ASSUME BatchInv, NEW w \in Callers, engine = "mysql", UNCHANGED <<engine, options>>,
         at[w] = "begin", call[w].kind \in {"insert", "delete"}, NEW t \in Tables,
         OneStatement(w, t, <<>>)
  PROVE  BatchInv'
<1> DEFINE e == Each(expect, call[w], Does(call[w], MysqlSingle))
<1>1. Busy(w) /\ call[w].kind \in WriteKinds /\ ~Looped(w) /\ engine # "raw"
  BY DEF Busy, WriteKinds, Looped
<1>2. UNCHANGED <<engine, options, issueVars, readVars, next>>
  BY DEF OneStatement
<1>3. CASE Store(w, t, e, DOMAIN call[w].keys) /\ ReturnRows(w, "nil", <<>>)
  <2>1. e \in Tables
    BY <1>1, CallerType, TableFacts, EachTypes
  <2>2. <<>> \in RowList
    BY DEF RowList
  <2>3. LockInv' /\ SinglesInv'
    BY <1>2 DEF LockInv, SinglesInv
  <2> HIDE DEF e
  <2> QED BY <1>1, <1>2, <1>3, <2>1, <2>2, <2>3, StoreAllKeeps
<1>4. CASE Return(w, "error") /\ UNCHANGED <<tableVars, steady>>
  <2>1. UNCHANGED <<engine, options, tableVars, steady, issueVars, readVars, next>>
    BY <1>2, <1>4
  <2> QED BY <1>1, <1>4, <2>1, ErrorKeeps
<1> QED BY <1>3, <1>4 DEF OneStatement

\* mysql: BatchInsert is one INSERT IGNORE with the columns of the first record.
LEMMA MysqlBatchInsertKeeps ==
  ASSUME BatchInv, NEW w \in Callers, engine = "mysql", UNCHANGED <<engine, options>>,
         MysqlBatchInsert(w)
  PROVE  BatchInv'
<1> DEFINE c == call[w]
           does == [i \in DOMAIN c.keys |->
                      [row \in AnyRow |-> IF row = NoRow THEN BatchInsertRow(c, i) ELSE row]]
<1>1. /\ at[w] = "begin" /\ Busy(w) /\ c.kind = "insert"
      /\ \A i \in DOMAIN c.fields : Cardinality(c.fields[i]) = Cardinality(c.fields[1])
      /\ OneStatement(w, Each(table, c, does), <<>>)
  BY DEF MysqlBatchInsert, Busy, Does
<1>2. c.keys \in Seq(Keys) /\ DOMAIN c.keys = 1 .. Len(c.keys) /\ GoodCall(c)
      /\ table \in [Keys -> AnyRow]
  BY <1>1, CallerType, TableFacts DEF Tables
<1>3. ASSUME NEW i \in 1 .. Len(c.keys), NEW row \in AnyRow PROVE does[i][row] \in AnyRow
  <2>1. i \in DOMAIN c.keys
    BY <1>2
  <2>2. BatchInsertRow(c, i) \in AnyRow
    BY <1>1, <1>2, <2>1, BatchInsertRowType
  <2>3. does[i][row] = IF row = NoRow THEN BatchInsertRow(c, i) ELSE row
    <3> HIDE DEF BatchInsertRow
    <3> QED BY <2>1
  <2> QED BY <2>2, <2>3
<1> HIDE DEF does
<1>4. Each(table, c, does) \in Tables
  BY <1>2, <1>3, EachIn DEF Tables
<1> QED BY <1>1, <1>4, OneStatementKeeps

\* mysql: BatchDelete is one statement.
LEMMA MysqlBatchDeleteKeeps ==
  ASSUME BatchInv, NEW w \in Callers, engine = "mysql", UNCHANGED <<engine, options>>,
         MysqlBatchDelete(w)
  PROVE  BatchInv'
<1> DEFINE c == call[w]
           does == [i \in DOMAIN c.keys |-> [row \in AnyRow |-> NoRow]]
<1>1. /\ at[w] = "begin" /\ Busy(w) /\ c.kind = "delete"
      /\ OneStatement(w, Each(table, c, does), <<>>)
  BY DEF MysqlBatchDelete, Busy, Does
<1>2. c.keys \in Seq(Keys) /\ DOMAIN c.keys = 1 .. Len(c.keys) /\ table \in [Keys -> AnyRow]
  BY <1>1, CallerType, TableFacts DEF Tables
<1>3. \A i \in 1 .. Len(c.keys) : \A row \in AnyRow : does[i][row] \in AnyRow
  BY <1>2 DEF AnyRow
<1> HIDE DEF does
<1>4. Each(table, c, does) \in Tables
  BY <1>2, <1>3, EachIn DEF Tables
<1> QED BY <1>1, <1>4, OneStatementKeeps

\* tikv: the transaction writes all records with its commit.
LEMMA TxnBatchWriteKeeps ==
  ASSUME BatchInv, NEW w \in Callers, engine = "tikv", UNCHANGED <<engine, options>>,
         TxnBatchWrite(w)
  PROVE  BatchInv'
<1> DEFINE t == Each(table, call[w], Does(call[w], TikvBatchRow))
           e == Each(expect, call[w], Does(call[w], TxnSingle))
<1>1. Busy(w) /\ call[w].kind \in WriteKinds /\ ~Looped(w) /\ engine # "raw"
  BY DEF TxnBatchWrite, Busy, WriteKinds, Looped
<1>2. UNCHANGED <<engine, options, issueVars, readVars, next>>
  BY DEF TxnBatchWrite
<1>3. CASE Store(w, t, e, DOMAIN call[w].keys) /\ Return(w, "nil")
  <2>1. t \in Tables /\ e \in Tables /\ t \in [Keys -> OwnRow]
    <3>1. table \in [Keys -> OwnRow]
      BY DEF BatchInv, OwnInv
    <3> QED BY <1>1, <3>1, CallerType, TableFacts, EachTypes
  <2>2. <<>> \in RowList /\ ReturnRows(w, "nil", <<>>)
    BY <1>3 DEF RowList, Return
  <2>3. LockInv' /\ SinglesInv'
    BY <1>2 DEF LockInv, SinglesInv
  <2> HIDE DEF e, t
  <2> QED BY <1>1, <1>2, <1>3, <2>1, <2>2, <2>3, StoreAllKeeps
<1>4. CASE Return(w, "error") /\ UNCHANGED <<tableVars, steady>>
  <2>1. UNCHANGED <<engine, options, tableVars, steady, issueVars, readVars, next>>
    BY <1>2, <1>4
  <2> QED BY <1>1, <1>4, <2>1, ErrorKeeps
<1> QED BY <1>3, <1>4 DEF TxnBatchWrite

\* sqlite: a commit makes the writes of the transaction the table.
LEMMA SqliteCommitKeeps ==
  ASSUME BatchInv, NEW w \in Callers, engine = "sqlite", UNCHANGED <<engine, options>>,
         SqliteCommit(w)
  PROVE  BatchInv'
<1> DEFINE c == call[w]
           does == Does(c, SqliteSingle)
           t == snap[w].table
           e == Each(expect, c, does)
<1>1. /\ at[w] = "commit" /\ Busy(w) /\ InTx(w) /\ ReturnRows(w, "nil", out[w])
      /\ UNCHANGED <<engine, options, issueVars, readVars, next>>
  BY DEF SqliteCommit, Busy, InTx
<1>2. c.kind \in Kinds /\ next[w] > Len(c.keys) /\ Len(c.keys) >= 1
  BY <1>1 DEF BatchInv, CallerInv, CallInv
<1>3. /\ c.keys \in Seq(Keys) /\ Len(c.keys) \in Nat /\ next[w] \in Nat
      /\ DOMAIN c.keys = 1 .. Len(c.keys) /\ out[w] \in RowList /\ t \in Tables /\ GoodCall(c)
  BY <1>1, CallerType
<1>4. CASE ~IsWrite(w)
  <2>1. UNCHANGED <<engine, options, tableVars, steady, issueVars, readVars, next>>
    BY <1>1, <1>4 DEF SqliteCommit
  <2>2. c.kind \notin WriteKinds
    BY <1>4 DEF IsWrite, WriteKinds
  <2>3. c.kind = "read" => retried[w] \/ KeysOf(out[w]) = c.keys
    <3>1. next[w] \notin DOMAIN c.keys
      BY <1>2, <1>3
    <3> QED BY <1>1, <3>1, ReadHas, AllRead
  <2>4. c.kind = "scan" => Found(engine, KeysOf(out[w]), c, steady[w] \ skipped[w])
    <3>1. next[w] > 1
      BY <1>2, <1>3
    <3> QED BY <1>1, <3>1, InSqlite DEF Found
  <2> QED BY <1>1, <1>3, <2>1, <2>2, <2>3, <2>4, ReadReturns
<1>5. CASE IsWrite(w)
  <2>1. Store(w, t, e, DOMAIN c.keys)
    BY <1>5 DEF SqliteCommit, Committed
  <2>2. /\ c.kind \in WriteKinds /\ c.kind # "read" /\ c.kind # "scan"
        /\ ~Looped(w) /\ engine # "raw"
    BY <1>5 DEF IsWrite, WriteKinds, Looped
  <2>3. next[w] = Len(c.keys) + 1 /\ next[w] > 1 /\ next[w] - 1 = Len(c.keys)
    <3>1. next[w] <= Len(c.keys) + 1
      BY <1>1, <2>2, InSqlite
    <3> QED BY <1>2, <1>3, <3>1
  <2>4. e \in Tables
    <3>1. expect \in Tables
      BY TableFacts
    <3> QED BY <1>3, <3>1, EachTypes
  <2> HIDE DEF does
  <2>5. table = expect
    BY DEF BatchInv, SinglesInv
  <2>6. t = After(table, c, does)[next[w] - 1]
    BY <1>1, <1>5, <2>3, InSqlite DEF TxInv, does
  <2>7. t = e
    BY <2>3, <2>5, <2>6 DEF Each
  <2> HIDE DEF e
  <2>8. \A i \in 1 .. Len(done[c.id]) : i \in DOMAIN c.keys => done[c.id][i] = 0
    BY <1>1, <2>2 DEF BatchInv, CallerInv, ExecInv
  <2>9. /\ table' = t /\ expect' = e /\ version' \in [Keys -> Nat]
        /\ \A k \in Keys : version[k] <= version'[k]
        /\ \A i \in DOMAIN c.keys : c.keys[i] \in Keys => version[c.keys[i]] < version'[c.keys[i]]
    BY <1>1, <1>3, <2>1, <2>2, <2>4, <2>8, StoreFacts
  <2>10. SinglesInv'
    BY <2>7, <2>9 DEF SinglesInv
  <2>11. UNCHANGED <<engine, call, next, snap>> /\ at' = [at EXCEPT ![w] = "idle"]
    BY <1>1 DEF issueVars, readVars, ReturnRows, MoveTo
  <2>12. at'[w] = "idle" /\ \A v \in Callers \ {w} : at'[v] = at[v]
    BY <2>11 DEF BatchInv, BatchTypes
  <2>13. HoldsWriteLock(w)
    BY <1>1, <1>5, <2>3 DEF HoldsWriteLock
  <2>14. ASSUME NEW v \in Callers PROVE TxInv(v)' /\ ~HoldsWriteLock(v)'
    <3>1. CASE v = w
      BY <2>12, <3>1 DEF TxInv, InTx, HoldsWriteLock
    <3>2. CASE v # w
      <4>1. /\ InTx(v)' <=> InTx(v)
            /\ IsWrite(v)' <=> IsWrite(v)
        BY <2>11, <2>12, <3>2 DEF InTx, IsWrite
      <4>2. ~HoldsWriteLock(v)
        BY <2>13, <3>2 DEF BatchInv, LockInv
      <4>3. CASE ~(InTx(v) /\ IsWrite(v))
        BY <4>1, <4>3 DEF TxInv, HoldsWriteLock
      <4>4. CASE InTx(v) /\ IsWrite(v)
        <5>1. next[v] = 1 /\ next'[v] = 1
          <6>1. next[v] \in Nat \ {0} /\ ~(next[v] > 1)
            BY <4>2, <4>4, CallerType DEF HoldsWriteLock
          <6> QED BY <2>11, <6>1
        <5>2. /\ \A k \in Keys : snap[v].version[k] <= version[k]
              /\ snap[v].version \in [Keys -> Nat] /\ version \in [Keys -> Nat]
          BY <4>4, CallerType DEF BatchInv, BatchTypes, LockInv, TxInv
        <5>3. \A k \in Keys : snap'[v].version[k] <= version'[k]
          <6> TAKE k \in Keys
          <6>1. snap[v].version[k] \in Nat /\ version[k] \in Nat /\ version'[k] \in Nat
            BY <2>9, <5>2
          <6>2. snap[v].version[k] <= version[k] /\ version[k] <= version'[k]
            BY <2>9, <5>2
          <6>3. snap[v].version[k] <= version'[k]
            BY <6>1, <6>2
          <6> QED BY <2>11, <6>3
        <5>4. snap'[v].version # version'
          <6>1. 1 \in DOMAIN c.keys /\ c.keys[1] \in Keys
            BY <1>2, <1>3
          <6> DEFINE k == c.keys[1]
          <6>2. version[k] < version'[k] /\ k \in Keys
            BY <2>9, <6>1
          <6> HIDE DEF k
          <6>3. snap[v].version[k] <= version[k] /\ snap[v].version[k] \in Nat
                /\ version[k] \in Nat /\ version'[k] \in Nat
            BY <2>9, <5>2, <6>2
          <6>4. snap[v].version[k] # version'[k]
            BY <6>2, <6>3
          <6> QED BY <2>11, <6>4
        <5> QED BY <5>1, <5>3, <5>4 DEF TxInv, HoldsWriteLock
      <4> QED BY <4>3, <4>4
    <3> QED BY <3>1, <3>2
  <2>15. LockInv'
    BY <2>14 DEF LockInv
  <2>16. t \in [Keys -> OwnRow]
    BY DEF BatchInv, OwnInv
  <2> HIDE DEF t
  <2> QED BY <1>1, <1>3, <2>1, <2>2, <2>4, <2>10, <2>15, <2>16, StoreAllKeeps
<1> QED BY <1>4, <1>5

\* A new call.
NewCall(c, kind, id) ==
  /\ c \in CallRecords /\ c.id = id /\ c.kind = kind /\ Len(c.keys) >= 1
  /\ kind \in {"insert", "update"} => Len(c.fields) = Len(c.keys)
  /\ kind = "scan" => Len(c.keys) = 1 /\ c.count >= 1

\* The call that MakeCall makes, for a scan and for a batch.
LEMMA MakesCall ==
  ASSUME BatchInv, NEW w \in Callers, NEW kind \in Kinds, MakeCall(w, kind)
  PROVE  /\ issued' \in Calls /\ issued' = issued + 1 /\ issued \in Nat
         /\ \E c : NewCall(c, kind, issued') /\ call' = [call EXCEPT ![w] = c]
<1>1. issued \in 0 .. MaxCalls /\ issued < MaxCalls /\ issued' = issued + 1 /\ MaxCalls \in Nat
  BY BatchAssumption DEF BatchInv, BatchTypes, MakeCall
<1>2. issued' \in Calls /\ issued' \in 0 .. MaxCalls /\ issued \in Nat
  BY <1>1 DEF Calls
<1>3. CASE kind = "scan"
  <2>1. PICK k \in Keys, n \in 1 .. MaxScan :
          call' = [call EXCEPT ![w] = [id |-> issued', kind |-> kind, keys |-> <<k>>,
                                       fields |-> <<>>, count |-> n]]
    BY <1>3 DEF MakeCall
  <2> DEFINE c == [id |-> issued', kind |-> kind, keys |-> <<k>>, fields |-> <<>>, count |-> n]
  <2>2. <<k>> \in Seq(Keys) /\ Len(<<k>>) = 1 /\ <<>> \in Seq(SUBSET Fields)
    OBVIOUS
  <2>3. n \in Nat /\ n >= 1
    BY BatchAssumption
  <2>4. NewCall(c, kind, issued')
    BY <1>2, <1>3, <2>2, <2>3 DEF NewCall, CallRecords
  <2> QED BY <1>1, <1>2, <2>1, <2>4
<1>4. CASE kind # "scan"
  <2>1. PICK b \in Batches :
          call' = [call EXCEPT ![w] = [id |-> issued', kind |-> kind, keys |-> b.keys,
                     fields |-> IF kind \in {"insert", "update"} THEN b.fields ELSE <<>>,
                     count |-> 0]]
    BY <1>4 DEF MakeCall
  <2> DEFINE f == IF kind \in {"insert", "update"} THEN b.fields ELSE <<>>
             c == [id |-> issued', kind |-> kind, keys |-> b.keys, fields |-> f, count |-> 0]
  <2>2. b.keys \in Seq(Keys) /\ b.keys # <<>> /\ b.fields \in [DOMAIN b.keys -> SUBSET Fields]
    BY BatchAssumption
  <2>3. Len(b.keys) \in Nat /\ Len(b.keys) >= 1
    BY <2>2
  <2>4. b.fields \in Seq(SUBSET Fields) /\ Len(b.fields) = Len(b.keys)
    <3>1. b.fields \in [1 .. Len(b.keys) -> SUBSET Fields]
      BY <2>2
    <3> QED BY <2>3, <3>1
  <2>5. f \in Seq(SUBSET Fields) /\ (kind \in {"insert", "update"} => Len(f) = Len(b.keys))
    BY <2>4
  <2> HIDE DEF f
  <2>6. NewCall(c, kind, issued')
    BY <1>2, <1>4, <2>2, <2>3, <2>5 DEF NewCall, CallRecords
  <2> QED BY <1>1, <1>2, <2>1, <2>6 DEF f
<1> QED BY <1>3, <1>4

\* A new call has executed nothing and read nothing.
LEMMA MakeCallKeeps ==
  ASSUME BatchInv, NEW w \in Callers, NEW kind \in Kinds, UNCHANGED <<engine, options>>,
         MakeCall(w, kind)
  PROVE  BatchInv'
<1> DEFINE id == issued + 1
<1>1. issued' \in Calls /\ issued' = id /\ issued \in Nat
  BY MakesCall
<1>2. PICK c : NewCall(c, kind, issued') /\ call' = [call EXCEPT ![w] = c]
  BY MakesCall
<1>3. BatchTypes
  BY DEF BatchInv
<1>4. /\ at[w] = "idle" /\ next' = [next EXCEPT ![w] = 1] /\ out' = [out EXCEPT ![w] = <<>>]
      /\ skipped' = [skipped EXCEPT ![w] = {}] /\ retried' = [retried EXCEPT ![w] = FALSE]
      /\ steady' = [steady EXCEPT ![w] = Present(table)]
      /\ done' = [done EXCEPT ![issued'] = IF kind \in {"read", "scan"} THEN <<>>
                                           ELSE [i \in DOMAIN call'[w].keys |-> 0]]
      /\ at' = [at EXCEPT ![w] = "begin"]
      /\ UNCHANGED <<engine, options, table, version, expect, snap, page, result, rows>>
  BY DEF MakeCall, MoveTo, returnVars
<1>5. /\ call' \in [Callers -> CallRecords] /\ call'[w] = c
      /\ \A v \in Callers \ {w} : call'[v] = call[v]
  BY <1>2, <1>3 DEF BatchTypes, NewCall
<1>6. c \in CallRecords /\ c.id = id /\ c.kind = kind /\ Len(c.keys) >= 1
      /\ c.keys \in Seq(Keys) /\ Len(c.keys) \in Nat
  BY <1>1, <1>2 DEF NewCall, CallRecords
<1> DEFINE D == IF kind \in {"read", "scan"} THEN <<>> ELSE [i \in DOMAIN c.keys |-> 0]
<1>7. D \in Seq({0, 1}) /\ Len(D) = (IF kind \in WriteKinds THEN Len(c.keys) ELSE 0)
      /\ DOMAIN D = 1 .. Len(D) /\ \A i \in 1 .. Len(D) : D[i] = 0
  <2>1. CASE kind \in {"read", "scan"}
    BY <2>1 DEF WriteKinds
  <2>2. CASE kind \notin {"read", "scan"}
    <3>1. kind \in WriteKinds
      BY <2>2 DEF Kinds
    <3>2. D = [i \in 1 .. Len(c.keys) |-> 0]
      BY <1>6, <2>2
    <3> HIDE DEF D
    <3> QED BY <1>6, <3>1, <3>2
  <2> QED BY <2>1, <2>2
<1> HIDE DEF D
<1>8. /\ done' \in [Calls -> Seq({0, 1})] /\ done'[id] = D
      /\ \A k \in Calls \ {id} : done'[k] = done[k]
  <2>1. done' = [done EXCEPT ![id] = D]
    BY <1>1, <1>4, <1>5 DEF D
  <2> QED BY <1>1, <1>3, <1>7, <2>1 DEF BatchTypes
<1>9. /\ at' \in [Callers -> CallPoints] /\ at'[w] = "begin"
      /\ next' \in [Callers -> Nat \ {0}] /\ next'[w] = 1
      /\ \A v \in Callers \ {w} : at'[v] = at[v] /\ next'[v] = next[v]
  BY <1>3, <1>4 DEF BatchTypes, CallPoints
<1>10. /\ out' \in [Callers -> RowList] /\ out'[w] = <<>>
       /\ \A v \in Callers \ {w} : out'[v] = out[v]
  <2>1. <<>> \in RowList
    BY DEF RowList
  <2> QED BY <1>3, <1>4, <2>1 DEF BatchTypes
<1>11. /\ skipped' \in [Callers -> SUBSET Keys] /\ steady' \in [Callers -> SUBSET Keys]
       /\ skipped'[w] = {} /\ steady'[w] = Present(table)
       /\ \A v \in Callers \ {w} : skipped'[v] = skipped[v] /\ steady'[v] = steady[v]
  BY <1>3, <1>4 DEF BatchTypes, Present
<1>12. /\ retried' \in [Callers -> BOOLEAN]
       /\ \A v \in Callers \ {w} : retried'[v] = retried[v]
  BY <1>3, <1>4 DEF BatchTypes
<1>13. BatchTypes'
  <2>1. issued' \in 0 .. MaxCalls
    BY <1>1 DEF Calls
  <2> QED BY <1>3, <1>4, <1>5, <1>8, <1>9, <1>10, <1>11, <1>12, <2>1 DEF BatchTypes
<1>14. Frame(w, id)
  BY <1>4, <1>5, <1>8, <1>9, <1>10, <1>11, <1>12 DEF Frame
<1>15. \A v \in Callers : call[v].id <= issued /\ call[v].id \in Nat /\ call[v].id # id
  <2>1. \A v \in Callers : call[v].id \in 0 .. MaxCalls /\ call[v].id <= issued
    BY DEF BatchInv, BatchTypes, IdsInv, CallRecords
  <2> QED BY <1>1, <2>1
<1>16. ASSUME NEW v \in Callers \ {w} PROVE CallerInv(v)'
  <2>1. SteadyInv(v) /\ table' = table
    BY <1>4 DEF BatchInv, CallerInv
  <2>2. steady'[v] \subseteq steady[v] \cap Present(table)'
    BY <1>11, <2>1 DEF SteadyInv, Present
  <2> QED BY <1>14, <1>15, <2>2, OthersKept
<1>17. CallerInv(w)'
  <2>1. Busy(w)' /\ at'[w] = "begin" /\ engine' = engine /\ call'[w].id = id
    BY <1>4, <1>5, <1>6, <1>9 DEF Busy
  <2>2. CallInv(w)'
    BY <1>2, <1>5, <1>6, <1>9 DEF CallInv, NewCall
  <2>3. ExecInv(w)'
    <3>1. \A i \in 1 .. Len(D) : ~(i < 1)
      BY <1>7
    <3> QED BY <1>5, <1>6, <1>7, <1>8, <1>9, <2>1, <3>1 DEF ExecInv
  <2>4. ReadInv(w)'
    <3>1. ReadSoFar(<<>>, c.keys, 1)
      BY DEF ReadSoFar
    <3> QED BY <1>5, <1>9, <1>10, <3>1 DEF ReadInv
  <2>5. ScanInv(w)'
    BY <1>9, <1>10 DEF ScanInv, InTx
  <2>6. SteadyInv(w)'
    BY <1>4, <1>9, <1>11 DEF SteadyInv, Present
  <2>7. ReadDone(w)' /\ ScanDone(w)'
    BY <1>9 DEF ReadDone, ScanDone
  <2> QED BY <2>2, <2>3, <2>4, <2>5, <2>6, <2>7 DEF CallerInv
<1>18. /\ result[id] = "none" /\ result'[id] = "none"
       /\ \A k \in Calls : k > issued => result[k] = "none"
  BY <1>1, <1>4 DEF BatchInv, IdsInv
<1>19. IdsInv'
  <2>1. ASSUME NEW v \in Callers
        PROVE  /\ call'[v].id <= issued'
               /\ call'[v].id = 0 => call'[v].kind = "none"
               /\ Busy(v)' => call'[v].id # 0 /\ result'[call'[v].id] = "none"
    <3>1. CASE v = w
      BY <1>1, <1>5, <1>6, <1>18, <3>1
    <3>2. CASE v # w
      <4>1. /\ call[v].id = 0 => call[v].kind = "none"
            /\ Busy(v) => call[v].id # 0 /\ result[call[v].id] = "none"
        BY DEF BatchInv, IdsInv
      <4>2. call'[v] = call[v] /\ (Busy(v)' <=> Busy(v)) /\ result' = result
        BY <1>4, <1>5, <1>9, <3>2 DEF Busy
      <4>3. call[v].id <= issued'
        BY <1>1, <1>15
      <4> QED BY <4>1, <4>2, <4>3
    <3> QED BY <3>1, <3>2
  <2>2. ASSUME NEW u \in Callers, NEW v \in Callers, u # v, call'[u].id = call'[v].id
        PROVE  call'[u].id = 0
    <3>1. u # w /\ v # w
      BY <1>5, <1>6, <1>15, <2>2
    <3> QED BY <1>5, <2>2, <3>1 DEF BatchInv, IdsInv
  <2>3. \A k \in Calls : k > issued' => result'[k] = "none"
    <3> TAKE k \in Calls
    <3>1. k > issued' => k > issued
      BY <1>1 DEF Calls
    <3> QED BY <1>4, <1>18, <3>1
  <2> QED BY <2>1, <2>2, <2>3 DEF IdsInv
<1>20. ASSUME NEW k \in Calls PROVE LeavesInv(k)'
  <2>1. CASE k # id
    BY <1>14, <2>1, LeftKept
  <2>2. CASE k = id
    <3>1. \A i \in DOMAIN D : ~(D[i] > 0)
      BY <1>7
    <3>2. Executed(k)' = {}
      BY <1>8, <2>2, <3>1 DEF Executed
    <3>3. result'[k] = "none"
      BY <1>18, <2>2
    <3> QED BY <3>2, <3>3 DEF LeavesInv
  <2> QED BY <2>1, <2>2
<1>21. LockInv'
  <2>1. ~InTx(w)' /\ UNCHANGED <<table, version>>
    BY <1>4, <1>9 DEF InTx
  <2>2. TxInv(w)' /\ ~HoldsWriteLock(w)'
    BY <2>1 DEF TxInv, HoldsWriteLock
  <2> QED BY <1>14, <2>1, <2>2, LockKept
<1>22. SinglesInv' /\ OwnInv'
  BY <1>4 DEF BatchInv, SinglesInv, OwnInv
<1>23. \A v \in Callers : CallerInv(v)'
  BY <1>16, <1>17
<1> QED BY <1>13, <1>19, <1>20, <1>21, <1>22, <1>23 DEF BatchInv

-----------------------------------------------------------------------------
(* The invariant and the theorems. *)

\* Before the first call the table is what Init or the load phase left.
LEMMA BatchInitially == AdapterInit => BatchInv
<1> SUFFICES ASSUME AdapterInit PROVE BatchInv
  OBVIOUS
<1>1. PICK t \in {LoadedTable, EmptyTable} : BatchInit(t)
  BY DEF AdapterInit, MysqlCreateTable, PgCreateTable, SqliteCreate
<1>2. EmptyTable \in [Keys -> OwnRow] /\ t \in [Keys -> OwnRow]
  <2>1. NoRow \in OwnRow
    BY OwnIsRow
  <2>2. [f \in Fields |-> <<0, f>>] \in OwnRow
    <3> DEFINE r == [f \in Fields |-> <<0, f>>]
    <3>1. \A f \in Fields : <<0, f>> \in Values /\ <<0, f>>[2] = f
      BY BatchAssumption DEF Values
    <3>2. \A f \in Fields : r[f] = <<0, f>>
      OBVIOUS
    <3>3. r \in Rows
      BY <3>1 DEF Rows
    <3> HIDE DEF r
    <3>4. \A f \in Fields : r[f][2] = f
      BY <3>1, <3>2
    <3>5. r \in AnyRow
      BY <3>3 DEF AnyRow
    <3>6. r \in OwnRow
      BY <3>4, <3>5 DEF OwnRow
    <3> QED BY <3>6 DEF r
  <2>3. LoadedTable \in [Keys -> OwnRow] /\ EmptyTable \in [Keys -> OwnRow]
    <3> DEFINE r == [f \in Fields |-> <<0, f>>]
    <3> HIDE DEF r
    <3>1. LoadedTable = [k \in Keys |-> IF k \in Loaded THEN r ELSE NoRow]
      BY DEF LoadedTable, r
    <3>2. r \in OwnRow
      BY <2>2 DEF r
    <3> QED BY <2>1, <3>1, <3>2 DEF EmptyTable
  <2> QED BY <2>3
<1>3. EmptyTable \in Tables /\ t \in Tables
  BY <1>2, OwnIsRow DEF Tables
<1>4. /\ table = t /\ expect = t /\ issued = 0 /\ version = [k \in Keys |-> 0]
      /\ \A w \in Callers : /\ at[w] = "idle" /\ call[w] = NoCall /\ next[w] = 1
                            /\ snap[w] = [table |-> EmptyTable, version |-> version]
                            /\ steady[w] = {}
      /\ \A id \in Calls : done[id] = <<>> /\ result[id] = "none" /\ rows[id] = <<>>
  BY <1>1 DEF BatchInit
<1>5. BatchTypes
  <2>1. engine \in BatchEngines
    BY DEF AdapterInit
  <2>2. options \in [overwrite : BOOLEAN, keysOnly : BOOLEAN, optimistic : BOOLEAN]
    BY DEF AdapterInit, Options
  <2>3. /\ <<>> \in RowList /\ <<>> \in Seq(Keys) /\ <<>> \in Seq({0, 1})
        /\ <<>> \in Seq(SUBSET Fields)
    BY DEF RowList
  <2>4. version \in [Keys -> Nat]
    BY <1>4
  <2>5. NoCall \in CallRecords
    BY <2>3, BatchAssumption DEF NoCall, CallRecords
  <2>6. snap \in [Callers -> [table : Tables, version : [Keys -> Nat]]]
    BY <1>1, <1>3, <2>4 DEF BatchInit
  <2>7. call \in [Callers -> CallRecords]
    BY <1>1, <2>5 DEF BatchInit
  <2>8. retried \in [Callers -> BOOLEAN]
    BY <1>1 DEF BatchInit
  <2>9. /\ at \in [Callers -> CallPoints] /\ next \in [Callers -> Nat \ {0}]
        /\ out \in [Callers -> RowList] /\ page \in [Callers -> Seq(Keys)]
        /\ steady \in [Callers -> SUBSET Keys] /\ skipped \in [Callers -> SUBSET Keys]
    BY <1>1, <2>3 DEF BatchInit, CallPoints
  <2>10. /\ done \in [Calls -> Seq({0, 1})] /\ result \in [Calls -> Results]
         /\ rows \in [Calls -> RowList]
    BY <1>1, <2>3 DEF BatchInit, Results
  <2>11. issued \in 0 .. MaxCalls
    BY <1>4, BatchAssumption
  <2> QED BY <1>3, <1>4, <2>1, <2>2, <2>4, <2>6, <2>7, <2>8, <2>9, <2>10, <2>11 DEF BatchTypes
<1>6. \A w \in Callers : ~Busy(w) /\ call[w].id = 0 /\ call[w].kind = "none" /\ ~InTx(w)
  BY <1>4 DEF Busy, NoCall, InTx
<1>7. IdsInv
  BY <1>4, <1>6 DEF IdsInv
<1>8. ASSUME NEW w \in Callers PROVE CallerInv(w)
  <2>1. CallInv(w) /\ ExecInv(w) /\ ReadInv(w) /\ ScanInv(w) /\ ReadDone(w) /\ ScanDone(w)
    BY <1>6 DEF CallInv, ExecInv, ReadInv, ScanInv, ReadDone, ScanDone
  <2>2. SteadyInv(w)
    BY <1>4 DEF SteadyInv
  <2> QED BY <2>1, <2>2 DEF CallerInv
<1>9. ASSUME NEW id \in Calls PROVE LeavesInv(id)
  <2>1. DOMAIN done[id] = {} /\ result[id] = "none"
    BY <1>4
  <2> QED BY <2>1 DEF LeavesInv, Executed
<1>10. LockInv
  BY <1>6 DEF LockInv, TxInv, HoldsWriteLock
<1>11. SinglesInv
  BY <1>4 DEF SinglesInv
<1>12. OwnInv
  BY <1>2, <1>4 DEF OwnInv
<1> QED BY <1>5, <1>7, <1>8, <1>9, <1>10, <1>11, <1>12 DEF BatchInv

\* Every step of mysql and pg keeps the invariant.
LEMMA SQLKeeps ==
  ASSUME BatchInv, NEW w \in Callers, UNCHANGED <<engine, options>>
  PROVE  /\ engine = "mysql" /\ MysqlStep(w) => BatchInv'
         /\ engine = "pg" /\ PgStep(w) => BatchInv'
<1>1. ASSUME engine = "mysql", MysqlStep(w) PROVE BatchInv'
  BY <1>1, MysqlBatchInsertKeeps, MysqlBatchDeleteKeeps, MysqlBatchReadKeeps,
     MysqlBatchUpdateKeeps, MysqlScanKeeps DEF MysqlStep
<1>2. ASSUME engine = "pg", PgStep(w) PROVE BatchInv'
  BY <1>2, PgScanKeeps, WrapperLoopKeeps DEF PgStep
<1> QED BY <1>1, <1>2

\* Every step of sqlite.
LEMMA SqliteKeeps ==
  ASSUME BatchInv, NEW w \in Callers, UNCHANGED <<engine, options>>, engine = "sqlite",
         SqliteStep(w)
  PROVE  BatchInv'
BY SqliteBeginKeeps, SqliteWriteKeeps, SqliteReadKeeps, SqliteScanKeeps, SqliteRollbackKeeps,
   SqliteFnDoneKeeps, SqliteCommitKeeps, SqliteCommitFailsKeeps DEF SqliteStep

\* Every step of tikv, transactions and raw.
LEMMA TikvKeeps ==
  ASSUME BatchInv, NEW w \in Callers, UNCHANGED <<engine, options>>
  PROVE  /\ engine = "tikv" /\ TxnStep(w) => BatchInv'
         /\ engine = "raw" /\ RawStep(w) => BatchInv'
<1>1. ASSUME engine = "tikv", TxnStep(w) PROVE BatchInv'
  BY <1>1, TxnBeginKeeps, TxnBatchReadKeeps, TxnScanKeeps, TxnBatchWriteKeeps DEF TxnStep
<1>2. ASSUME engine = "raw", RawStep(w) PROVE BatchInv'
  BY <1>2, RawExecuteKeeps, RawBatchWriteKeeps, RawBatchReadKeeps, RawScanKeeps DEF RawStep
<1> QED BY <1>1, <1>2

\* Every step of s3.
LEMMA S3Keeps ==
  ASSUME BatchInv, NEW w \in Callers, UNCHANGED <<engine, options>>, engine = "s3", S3Step(w)
  PROVE  BatchInv'
BY S3LoopKeeps, S3UpdateReadKeeps, S3UpdatePutKeeps, S3BatchReadKeeps, S3ScanStartKeeps,
   S3ListKeeps, S3ScanItemKeeps, S3NextPageKeeps, S3ScanEndKeeps DEF S3Step

\* A step that changes nothing keeps the invariant.
LEMMA BatchStutters ==
  ASSUME BatchInv, UNCHANGED adapterVars
  PROVE  BatchInv'
<1>1. UNCHANGED <<engine, options, table, version, expect, done, issued, call, snap, out, page,
                  skipped, retried, result, rows, at, next, steady>>
  BY DEF adapterVars, batchVars, tableVars, issueVars, readVars, returnVars
<1>2. BatchTypes'
  BY <1>1 DEF BatchInv, BatchTypes
<1>3. IdsInv'
  BY <1>1 DEF BatchInv, IdsInv, Busy
<1>4. ASSUME NEW w \in Callers PROVE CallerInv(w)'
  <2>1. CallerInv(w)
    BY DEF BatchInv
  <2>2. CallInv(w)' /\ ExecInv(w)' /\ ReadInv(w)'
    BY <1>1, <2>1 DEF CallerInv, CallInv, ExecInv, ReadInv, Busy, Looped
  <2>3. SteadyInv(w)' /\ ReadDone(w)' /\ ScanDone(w)'
    BY <1>1, <2>1 DEF CallerInv, SteadyInv, ReadDone, ScanDone, Present, KeysOf
  <2>4. ScanInv(w)'
    BY <1>1, <2>1 DEF CallerInv, ScanInv, Busy, InTx, KeysOf
  <2> QED BY <2>2, <2>3, <2>4 DEF CallerInv
<1>5. ASSUME NEW id \in Calls PROVE LeavesInv(id)'
  BY <1>1 DEF BatchInv, LeavesInv, Executed
<1>6. LockInv'
  <2>1. CASE Callers = {}
    BY <2>1 DEF LockInv
  <2>2. ASSUME NEW w \in Callers PROVE LockInv'
    <3>1. Frame(w, 0) /\ UNCHANGED <<table, version>>
      BY <1>1 DEF Frame
    <3>2. HoldsWriteLock(w)' => HoldsWriteLock(w)
      BY <1>1 DEF HoldsWriteLock, InTx, IsWrite
    <3>3. engine = "sqlite" => TxInv(w)'
      <4> SUFFICES ASSUME engine = "sqlite" PROVE TxInv(w)'
        OBVIOUS
      <4>1. TxInv(w)
        BY DEF BatchInv, LockInv
      <4> QED BY <1>1, <4>1 DEF TxInv, InTx, IsWrite
    <3> QED BY <3>1, <3>2, <3>3, LockKept
  <2> QED BY <2>1, <2>2
<1>7. SinglesInv' /\ OwnInv'
  BY <1>1 DEF BatchInv, SinglesInv, OwnInv
<1> QED BY <1>2, <1>3, <1>4, <1>5, <1>6, <1>7 DEF BatchInv

\* The invariant holds in every state of the batch calls.
LEMMA BatchInvariant == AdapterSpec => []BatchInv
<1>1. AdapterInit => BatchInv
  BY BatchInitially
<1>2. BatchInv /\ [AdapterNext]_adapterVars => BatchInv'
  <2> SUFFICES ASSUME BatchInv, [AdapterNext]_adapterVars PROVE BatchInv'
    OBVIOUS
  <2>1. ASSUME NEW w \in Callers, Issue(w), UNCHANGED <<engine, options>> PROVE BatchInv'
    <3>1. PICK kind \in Kinds : MakeCall(w, kind)
      BY <2>1 DEF Issue, Kinds, WriteKinds
    <3> QED BY <2>1, <3>1, MakeCallKeeps
  <2>2. ASSUME NEW w \in Callers, Step(w), UNCHANGED <<engine, options>> PROVE BatchInv'
    BY <2>2, SQLKeeps, SqliteKeeps, TikvKeeps, S3Keeps DEF Step
  <2>3. CASE UNCHANGED adapterVars
    BY <2>3, BatchStutters
  <2> QED BY <2>1, <2>2, <2>3 DEF AdapterNext, Done
<1> QED BY <1>1, <1>2, PTL DEF AdapterSpec

\* A write that returned nil executed all of its records; one that returned an error,
\* none in a transaction and the first ones in a loop.
THEOREM ErrorLeavesPrefixHolds == AdapterSpec => []ErrorLeavesPrefix
<1>1. BatchInv => ErrorLeavesPrefix
  <2> SUFFICES ASSUME BatchInv PROVE ErrorLeavesPrefix
    OBVIOUS
  <2>1. BatchTypeOK
    <3>1. 0 .. 1 = {0, 1}
      OBVIOUS
    <3> QED BY <3>1 DEF BatchInv, BatchTypes, BatchTypeOK, Tables, CallPoints, Results
  <2>2. \A id \in Calls : LeavesInv(id)
    BY DEF BatchInv
  <2> QED BY <2>1, <2>2 DEF ErrorLeavesPrefix, LeavesInv, Executed
<1> QED BY <1>1, BatchInvariant, PTL

\* The table of pg, of sqlite and of an s3 adapter that overwrites is the one
\* that single calls in the order of the writes would have left; and whatever the adapter,
\* except for the columns of a mysql BatchInsert, a value is in the field it was built for.
THEOREM BatchLikeSinglesHolds == AdapterSpec => []BatchLikeSinglesByAdapter
<1>1. BatchInv => BatchLikeSinglesByAdapter
  <2> SUFFICES ASSUME BatchInv PROVE BatchLikeSinglesByAdapter
    OBVIOUS
  <2>1. engine \in {"pg", "sqlite"} \/ (engine = "s3" /\ options.overwrite) => BatchLikeSingles
    BY DEF BatchInv, SinglesInv, BatchLikeSingles
  <2>2. engine # "mysql" => ValuesUnderOwnField
    BY DEF BatchInv, OwnInv, OwnRow, ValuesUnderOwnField, Present
  <2> QED BY <2>1, <2>2 DEF BatchLikeSinglesByAdapter
<1> QED BY <1>1, BatchInvariant, PTL

\* A BatchRead that returned nil has a row for each key of the call, in the order of the
\* call, for the adapters that read key by key and except after a retry by sqlite.
THEOREM ReadsAlignedHolds == AdapterSpec => []ReadsAligned
<1>1. BatchInv => ReadsAligned
  BY DEF BatchInv, CallerInv, ReadDone, ReadsAligned, KeysOf
<1> QED BY <1>1, BatchInvariant, PTL

-----------------------------------------------------------------------------
(* Scans return what exists. *)

\* A record that a Scan must not return.
MadeUp(w, k) == k \in absent[w] /\ ~UncheckedStart(w, k)

\* What is missing since a Scan began is in no table that it reads, in no page that it
\* listed and, but for an unchecked start key, not among its rows.
AbsentInv(w) ==
  LET c == call[w] IN
  /\ c.kind # "scan" => absent[w] = {}
  /\ \A k \in absent[w] : table[k] = NoRow /\ (at[w] = "run" => snap[w].table[k] = NoRow)
  /\ \A i \in DOMAIN out[w] : ~MadeUp(w, out[w][i][1])
  /\ at[w] = "item" => \A i \in DOMAIN page[w] : page[w][i] \notin absent[w]
  /\ at[w] = "idle" /\ c.kind = "scan" /\ result[c.id] = "nil" =>
       \A i \in DOMAIN rows[c.id] : ~MadeUp(w, rows[c.id][i][1])

\* The invariant of what is missing.
ExistInv ==
  /\ absent \in [Callers -> SUBSET Keys]
  /\ \A w \in Callers : AbsentInv(w)

\* A record leaves the sets of what is missing when it is written.
Vanishing ==
  \/ absent' = absent /\ table' = table
  \/ absent' = [v \in Callers |-> absent[v] \ Present(table')]

\* What is missing after a step was missing before it.
LEMMA StillAbsent ==
  ASSUME ExistInv, Vanishing
  PROVE  /\ absent' \in [Callers -> SUBSET Keys]
         /\ \A v \in Callers : /\ absent'[v] \subseteq absent[v]
                               /\ \A k \in absent'[v] : table'[k] = NoRow
<1>1. absent \in [Callers -> SUBSET Keys]
  BY DEF ExistInv
<1>2. CASE absent' = absent /\ table' = table
  BY <1>1, <1>2 DEF ExistInv, AbsentInv
<1>3. CASE absent' = [v \in Callers |-> absent[v] \ Present(table')]
  BY <1>1, <1>3 DEF Present
<1> QED BY <1>2, <1>3 DEF Vanishing

\* Nothing changes for the other callers.
LEMMA OthersExist ==
  ASSUME BatchInv, ExistInv, Vanishing, NEW w \in Callers, NEW id, Frame(w, id),
         NEW v \in Callers \ {w}, call[v].id # id \/ call[v].id = 0
  PROVE  AbsentInv(v)'
<1>1. /\ engine' = engine /\ options' = options /\ call'[v] = call[v] /\ at'[v] = at[v]
      /\ snap'[v] = snap[v] /\ out'[v] = out[v] /\ page'[v] = page[v]
  BY DEF Frame
<1>2. absent'[v] \subseteq absent[v] /\ \A k \in absent'[v] : table'[k] = NoRow
  BY StillAbsent
<1>3. AbsentInv(v)
  BY DEF ExistInv
<1>4. call[v].kind = "scan" => /\ result'[call[v].id] = result[call[v].id]
                               /\ rows'[call[v].id] = rows[call[v].id]
  <2>1. call[v].id = 0 => call[v].kind = "none"
    BY DEF BatchInv, IdsInv
  <2>2. call[v].id # 0 => call[v].id \in Calls
    BY CallerType DEF Calls
  <2> QED BY <2>1, <2>2 DEF Frame
<1>5. \A k : MadeUp(v, k)' => MadeUp(v, k)
  BY <1>1, <1>2 DEF MadeUp, UncheckedStart
<1> QED BY <1>1, <1>2, <1>3, <1>4, <1>5 DEF AbsentInv

\* A step of a call.
Steps(w) == Busy(w) /\ Frame(w, call[w].id) /\ Vanishing /\ call' = call

\* It is enough to look at the caller that takes the step.
LEMMA StepExists ==
  ASSUME BatchInv, ExistInv, NEW w \in Callers, Steps(w), AbsentInv(w)'
  PROVE  ExistInv'
<1>1. ASSUME NEW v \in Callers \ {w} PROVE AbsentInv(v)'
  <2>1. call[v].id # call[w].id \/ call[v].id = 0
    BY DEF BatchInv, IdsInv
  <2> QED BY <2>1, OthersExist DEF Steps
<1>2. absent' \in [Callers -> SUBSET Keys]
  BY StillAbsent DEF Steps
<1>3. \A v \in Callers : AbsentInv(v)'
  BY <1>1
<1> QED BY <1>2, <1>3 DEF ExistInv

\* Calls other than Scans have nothing to find.
LEMMA NoScanExists ==
  ASSUME BatchInv, ExistInv, NEW w \in Callers, Steps(w), call[w].kind # "scan"
  PROVE  ExistInv'
<1>1. absent'[w] = {} /\ call'[w] = call[w]
  BY StillAbsent DEF Steps, ExistInv, AbsentInv
<1>2. AbsentInv(w)'
  BY <1>1 DEF AbsentInv, MadeUp
<1> QED BY <1>2, StepExists

\* A Scan that has found a list of rows returns it.
LEMMA ReturnExists ==
  ASSUME BatchInv, ExistInv, NEW w \in Callers, Steps(w), NEW r, NEW rs, ReturnRows(w, r, rs),
         UNCHANGED <<absent, table, out, engine, options>>,
         r = "nil" => \A i \in DOMAIN rs : ~MadeUp(w, rs[i][1])
  PROVE  ExistInv'
<1>1. /\ call'[w] = call[w] /\ at'[w] = "idle" /\ call[w].id \in Calls
      /\ result'[call[w].id] = r /\ rows'[call[w].id] = rs
  BY CallerType DEF Steps, ReturnRows, MoveTo, BatchInv, BatchTypes
<1>2. \A k : MadeUp(w, k)' <=> MadeUp(w, k)
  BY <1>1 DEF MadeUp, UncheckedStart
<1>3. AbsentInv(w)
  BY DEF ExistInv
<1>4. AbsentInv(w)'
  BY <1>1, <1>2, <1>3 DEF AbsentInv
<1> QED BY <1>4, StepExists

\* Nothing but the caller's own entries changes.
LEMMA ReturnSteps ==
  ASSUME BatchInv, NEW w \in Callers, Busy(w), UNCHANGED <<engine, options, issueVars, next>>,
         UNCHANGED <<snap, page, skipped>>,
         NEW r, NEW rs, ReturnRows(w, r, rs), UNCHANGED tableVars,
         \A v \in Callers \ {w} : out'[v] = out[v] /\ retried'[v] = retried[v]
  PROVE  Steps(w)
<1>1. /\ at' = [at EXCEPT ![w] = "idle"] /\ result' = [result EXCEPT ![call[w].id] = r]
      /\ rows' = [rows EXCEPT ![call[w].id] = rs]
      /\ UNCHANGED <<table, done, absent, call>>
  BY DEF ReturnRows, MoveTo, tableVars, issueVars
<1>2. Frame(w, call[w].id)
  BY <1>1 DEF Frame, BatchInv, BatchTypes
<1> QED BY <1>1, <1>2 DEF Steps, Vanishing

\* A statement's effect.
LEMMA StoreSteps ==
  ASSUME BatchInv, NEW w \in Callers, Busy(w), UNCHANGED <<engine, options, issueVars, readVars>>,
         NEW t, NEW e, NEW S, Store(w, t, e, S),
         \A v \in Callers \ {w} : at'[v] = at[v] /\ next'[v] = next[v],
         \A k \in Calls \ {call[w].id} : result'[k] = result[k] /\ rows'[k] = rows[k]
  PROVE  Steps(w)
<1>1. /\ table' = t /\ absent' = [v \in Callers |-> absent[v] \ Present(t)]
      /\ UNCHANGED <<call, snap, out, page, skipped, retried>>
  BY DEF Store, issueVars, readVars
<1>2. \A k \in Calls \ {call[w].id} : done'[k] = done[k]
  <2>1. \E D : done' = [done EXCEPT ![call[w].id] = D]
    BY DEF Store
  <2> QED BY <2>1 DEF BatchInv, BatchTypes
<1>3. Frame(w, call[w].id)
  BY <1>1, <1>2 DEF Frame
<1> QED BY <1>1, <1>3 DEF Steps, Vanishing

\* A step inside of a call.
LEMMA InnerSteps ==
  ASSUME BatchInv, NEW w \in Callers, Busy(w),
         UNCHANGED <<engine, options, tableVars, issueVars, returnVars>>,
         \A v \in Callers \ {w} :
           /\ at'[v] = at[v] /\ next'[v] = next[v] /\ snap'[v] = snap[v] /\ out'[v] = out[v]
           /\ page'[v] = page[v] /\ skipped'[v] = skipped[v] /\ retried'[v] = retried[v]
  PROVE  Steps(w)
BY DEF Steps, Frame, Vanishing, tableVars, issueVars, returnVars

\* What a return leaves alone.
LEMMA ReturnFrame ==
  ASSUME BatchInv, NEW w \in Callers, NEW r, NEW rs, ReturnRows(w, r, rs)
  PROVE  /\ \A v \in Callers \ {w} : at'[v] = at[v]
         /\ \A k \in Calls \ {call[w].id} : result'[k] = result[k] /\ rows'[k] = rows[k]
BY DEF ReturnRows, MoveTo, BatchInv, BatchTypes

\* The statements of a loop.
LEMMA LoopSteps ==
  ASSUME BatchInv, NEW w \in Callers, UNCHANGED <<engine, options>>,
         StatementLoop(w, MysqlSingle) \/ StatementLoop(w, PgSingle) \/ StatementLoop(w, S3Single)
  PROVE  Steps(w)
<1>1. PICK t, e, S :
        /\ at[w] = "begin" /\ UNCHANGED <<issueVars, readVars>>
        /\ \/ /\ Store(w, t, e, S) /\ next' = [next EXCEPT ![w] = next[w] + 1]
              /\ UNCHANGED <<returnVars, at>>
           \/ \E r : Return(w, r) /\ UNCHANGED <<tableVars, steady, next>>
  BY DEF StatementLoop
<1>2. Busy(w)
  BY <1>1 DEF Busy
<1>3. CASE /\ Store(w, t, e, S) /\ next' = [next EXCEPT ![w] = next[w] + 1]
           /\ UNCHANGED <<returnVars, at>>
  <2>1. \A v \in Callers \ {w} : at'[v] = at[v] /\ next'[v] = next[v]
    BY <1>3 DEF BatchInv, BatchTypes
  <2> QED BY <1>1, <1>2, <1>3, <2>1, StoreSteps DEF returnVars
<1>4. ASSUME NEW r, Return(w, r), UNCHANGED <<tableVars, steady, next>> PROVE Steps(w)
  BY <1>1, <1>2, <1>4, ReturnSteps DEF Return, readVars
<1> QED BY <1>1, <1>3, <1>4

\* mysql and pg.
LEMMA SQLSteps ==
  ASSUME BatchInv, NEW w \in Callers, UNCHANGED <<engine, options>>, MysqlStep(w) \/ PgStep(w)
  PROVE  Steps(w)
<1>1. CASE StatementLoop(w, MysqlSingle) \/ StatementLoop(w, PgSingle)
  BY <1>1, LoopSteps
<1>2. ASSUME NEW t, NEW rs, at[w] = "begin", OneStatement(w, t, rs) PROVE Steps(w)
  <2>1. Busy(w) /\ UNCHANGED <<issueVars, readVars, next>>
    BY <1>2 DEF Busy, OneStatement
  <2>2. CASE /\ Store(w, t, Each(expect, call[w], Does(call[w], MysqlSingle)), DOMAIN call[w].keys)
             /\ ReturnRows(w, "nil", rs)
    BY <2>1, <2>2, ReturnFrame, StoreSteps
  <2>3. CASE Return(w, "error") /\ UNCHANGED <<tableVars, steady>>
    BY <2>1, <2>3, ReturnSteps DEF Return, readVars
  <2> QED BY <1>2, <2>2, <2>3 DEF OneStatement
<1>3. CASE MysqlBatchRead(w) \/ MysqlScan(w) \/ PgScan(w)
  <2>1. /\ Busy(w) /\ UNCHANGED <<tableVars, issueVars, readVars, next>>
        /\ \E r, rs : ReturnRows(w, r, rs)
    BY <1>3 DEF MysqlBatchRead, MysqlScan, PgScan, Busy, Return
  <2> QED BY <2>1, ReturnSteps DEF readVars
<1> QED BY <1>1, <1>2, <1>3 DEF MysqlStep, PgStep, MysqlBatchInsert, MysqlBatchDelete,
           MysqlBatchUpdate, WrapperLoop

\* sqlite.
LEMMA SqliteSteps ==
  ASSUME BatchInv, NEW w \in Callers, UNCHANGED <<engine, options>>, SqliteStep(w)
  PROVE  Steps(w)
<1>1. CASE SqliteBegin(w)
  <2>1. Busy(w) /\ UNCHANGED <<tableVars, issueVars, out, page, skipped, retried>>
    BY <1>1 DEF SqliteBegin, Busy
  <2>2. CASE Return(w, "error") /\ UNCHANGED <<snap, next>>
    BY <2>1, <2>2, ReturnSteps DEF Return
  <2>3. CASE /\ snap' = [snap EXCEPT ![w] = [table |-> table, version |-> version]]
             /\ next' = [next EXCEPT ![w] = 1] /\ MoveTo(w, "run") /\ UNCHANGED returnVars
    <3>1. \A v \in Callers \ {w} : at'[v] = at[v] /\ next'[v] = next[v] /\ snap'[v] = snap[v]
      BY <2>3 DEF MoveTo, BatchInv, BatchTypes
    <3> QED BY <2>1, <2>3, <3>1, InnerSteps
  <2> QED BY <1>1, <2>2, <2>3 DEF SqliteBegin
<1>2. CASE SqliteWrite(w) \/ SqliteRead(w) \/ SqliteScan(w) \/ SqliteFnDone(w)
  <2>1. Busy(w) /\ UNCHANGED <<tableVars, issueVars, page, skipped, retried, returnVars>>
    BY <1>2 DEF SqliteWrite, SqliteRead, SqliteScan, SqliteFnDone, Busy, readVars
  <2>2. \A v \in Callers \ {w} : /\ at'[v] = at[v] /\ next'[v] = next[v]
                                 /\ snap'[v] = snap[v] /\ out'[v] = out[v]
    <3>1. /\ at' = at \/ \E x : at' = [at EXCEPT ![w] = x]
          /\ next' = next \/ \E x : next' = [next EXCEPT ![w] = x]
          /\ out' = out \/ \E x : out' = [out EXCEPT ![w] = x]
      BY <1>2 DEF SqliteWrite, SqliteRead, SqliteScan, SqliteFnDone, MoveTo, readVars
    <3>2. \A v \in Callers \ {w} : snap'[v] = snap[v]
      <4>1. CASE SqliteWrite(w)
        BY <4>1 DEF SqliteWrite, BatchInv, BatchTypes
      <4>2. CASE SqliteRead(w) \/ SqliteScan(w) \/ SqliteFnDone(w)
        BY <4>2 DEF SqliteRead, SqliteScan, SqliteFnDone, readVars
      <4> QED BY <1>2, <4>1, <4>2
    <3> QED BY <3>1, <3>2 DEF BatchInv, BatchTypes
  <2> QED BY <2>1, <2>2, InnerSteps
<1>3. CASE SqliteRollback(w)
  <2>1. /\ Busy(w) /\ UNCHANGED <<tableVars, issueVars, readVars, next>>
        /\ ReturnRows(w, "error", <<>>)
    BY <1>3 DEF SqliteRollback, Busy, Return
  <2> QED BY <2>1, ReturnSteps DEF readVars
<1>4. CASE SqliteCommit(w)
  <2>1. Busy(w) /\ UNCHANGED <<issueVars, readVars, next>> /\ ReturnRows(w, "nil", out[w])
    BY <1>4 DEF SqliteCommit, Busy
  <2>2. CASE UNCHANGED tableVars
    BY <2>1, <2>2, ReturnSteps DEF readVars
  <2>3. CASE Committed(w)
    BY <2>1, <2>3, ReturnFrame, StoreSteps DEF Committed
  <2> QED BY <1>4, <2>2, <2>3 DEF SqliteCommit
<1>5. CASE SqliteCommitFails(w)
  <2>1. Busy(w) /\ UNCHANGED <<tableVars, issueVars, snap, out, page, skipped, next>>
    BY <1>5 DEF SqliteCommitFails, Busy
  <2>2. CASE Return(w, "error") /\ UNCHANGED retried
    BY <2>1, <2>2, ReturnSteps DEF Return
  <2>3. CASE /\ retried' = [retried EXCEPT ![w] = TRUE] /\ MoveTo(w, "begin")
             /\ UNCHANGED returnVars
    <3>1. \A v \in Callers \ {w} : at'[v] = at[v] /\ retried'[v] = retried[v]
      BY <2>3 DEF MoveTo, BatchInv, BatchTypes
    <3> QED BY <2>1, <2>3, <3>1, InnerSteps
  <2> QED BY <1>5, <2>2, <2>3 DEF SqliteCommitFails
<1> QED BY <1>1, <1>2, <1>3, <1>4, <1>5 DEF SqliteStep

\* tikv, transactions and raw.
LEMMA TikvSteps ==
  ASSUME BatchInv, NEW w \in Callers, UNCHANGED <<engine, options>>, TxnStep(w) \/ RawStep(w)
  PROVE  Steps(w)
<1>1. CASE TxnBegin(w)
  <2>1. Busy(w) /\ UNCHANGED <<tableVars, issueVars, out, page, skipped, retried, next>>
    BY <1>1 DEF TxnBegin, Busy
  <2>2. CASE Return(w, "error") /\ UNCHANGED snap
    BY <2>1, <2>2, ReturnSteps DEF Return
  <2>3. CASE /\ snap' = [snap EXCEPT ![w] = [table |-> table, version |-> version]]
             /\ MoveTo(w, "run") /\ UNCHANGED returnVars
    <3>1. \A v \in Callers \ {w} : at'[v] = at[v] /\ snap'[v] = snap[v]
      BY <2>3 DEF MoveTo, BatchInv, BatchTypes
    <3> QED BY <2>1, <2>3, <3>1, InnerSteps
  <2> QED BY <1>1, <2>2, <2>3 DEF TxnBegin
<1>2. CASE TxnBatchRead(w) \/ TxnScan(w) \/ RawBatchWrite(w) \/ RawScan(w)
  <2>1. /\ Busy(w) /\ UNCHANGED <<tableVars, issueVars, readVars, next>>
        /\ \E r, rs : ReturnRows(w, r, rs)
    BY <1>2 DEF TxnBatchRead, TxnScan, RawBatchWrite, RawScan, Busy, Return
  <2> QED BY <2>1, ReturnSteps DEF readVars
<1>3. CASE TxnBatchWrite(w)
  <2>1. Busy(w) /\ UNCHANGED <<issueVars, readVars, next>>
    BY <1>3 DEF TxnBatchWrite, Busy
  <2>2. CASE Return(w, "error") /\ UNCHANGED <<tableVars, steady>>
    BY <2>1, <2>2, ReturnSteps DEF Return, readVars
  <2>3. ASSUME NEW t, NEW e, NEW S, Store(w, t, e, S), Return(w, "nil") PROVE Steps(w)
    BY <2>1, <2>3, ReturnFrame, StoreSteps DEF Return
  <2> QED BY <1>3, <2>2, <2>3 DEF TxnBatchWrite
<1>4. CASE RawExecute(w)
  <2>1. PICK t, e, S : Store(w, t, e, S)
    BY <1>4 DEF RawExecute
  <2>2. Busy(w) /\ UNCHANGED <<issueVars, readVars, returnVars, next, at>>
    BY <1>4 DEF RawExecute, Busy
  <2> QED BY <2>1, <2>2, StoreSteps DEF returnVars
<1>5. CASE RawBatchRead(w)
  <2>1. Busy(w) /\ UNCHANGED <<tableVars, issueVars, snap, page, skipped, retried>>
    BY <1>5 DEF RawBatchRead, Busy
  <2>2. CASE /\ \E x : out' = [out EXCEPT ![w] = x]
             /\ next' = [next EXCEPT ![w] = @ + 1] /\ UNCHANGED <<returnVars, at>>
    <3>1. \A v \in Callers \ {w} : out'[v] = out[v] /\ next'[v] = next[v]
      BY <2>2 DEF BatchInv, BatchTypes
    <3> QED BY <2>1, <2>2, <3>1, InnerSteps
  <2>3. CASE (\E r, rs : ReturnRows(w, r, rs)) /\ UNCHANGED <<out, next>>
    BY <2>1, <2>3, ReturnSteps
  <2> QED BY <1>5, <2>2, <2>3 DEF RawBatchRead, Return
<1> QED BY <1>1, <1>2, <1>3, <1>4, <1>5 DEF TxnStep, RawStep

\* s3.
LEMMA S3Steps ==
  ASSUME BatchInv, NEW w \in Callers, UNCHANGED <<engine, options>>, S3Step(w)
  PROVE  Steps(w)
<1>1. CASE S3Loop(w)
  BY <1>1, LoopSteps DEF S3Loop
<1>2. CASE S3UpdateRead(w)
  <2>1. /\ Busy(w) /\ UNCHANGED <<tableVars, issueVars, out, page, skipped, retried, returnVars,
                                  next>>
        /\ MoveTo(w, "merge")
        /\ \E row : snap' = [snap EXCEPT ![w].table[call[w].keys[next[w]]] = row]
    BY <1>2 DEF S3UpdateRead, Busy
  <2>2. \A v \in Callers \ {w} : at'[v] = at[v] /\ snap'[v] = snap[v]
    BY <2>1 DEF MoveTo, BatchInv, BatchTypes
  <2> QED BY <2>1, <2>2, InnerSteps
<1>3. CASE S3UpdatePut(w)
  <2>1. Busy(w) /\ UNCHANGED <<issueVars, readVars>>
    BY <1>3 DEF S3UpdatePut, Busy
  <2>2. CASE Return(w, "error") /\ UNCHANGED <<tableVars, steady, next>>
    BY <2>1, <2>2, ReturnSteps DEF Return, readVars
  <2>3. ASSUME NEW t, NEW e, NEW S, Store(w, t, e, S),
               next' = [next EXCEPT ![w] = next[w] + 1], MoveTo(w, "begin"), UNCHANGED returnVars
        PROVE  Steps(w)
    <3>1. \A v \in Callers \ {w} : at'[v] = at[v] /\ next'[v] = next[v]
      BY <2>3 DEF MoveTo, BatchInv, BatchTypes
    <3> QED BY <2>1, <2>3, <3>1, StoreSteps DEF returnVars
  <2> QED BY <1>3, <2>2, <2>3 DEF S3UpdatePut
<1>4. CASE S3BatchRead(w)
  <2>1. Busy(w) /\ UNCHANGED <<tableVars, issueVars, snap, page, skipped, retried>>
    BY <1>4 DEF S3BatchRead, Busy
  <2>2. CASE /\ \E x : out' = [out EXCEPT ![w] = x]
             /\ next' = [next EXCEPT ![w] = @ + 1] /\ UNCHANGED <<returnVars, at>>
    <3>1. \A v \in Callers \ {w} : out'[v] = out[v] /\ next'[v] = next[v]
      BY <2>2 DEF BatchInv, BatchTypes
    <3> QED BY <2>1, <2>2, <3>1, InnerSteps
  <2>3. CASE (\E r, rs : ReturnRows(w, r, rs)) /\ UNCHANGED <<out, next>>
    BY <2>1, <2>3, ReturnSteps
  <2> QED BY <1>4, <2>2, <2>3 DEF S3BatchRead, Return
<1>5. CASE S3ScanStart(w) \/ S3List(w) \/ S3ScanItem(w)
  <2>1. Busy(w) /\ UNCHANGED <<tableVars, issueVars, snap, returnVars>>
    BY <1>5 DEF S3ScanStart, S3List, S3ScanItem, Busy
  <2>2. /\ at' = at \/ \E x : at' = [at EXCEPT ![w] = x]
        /\ next' = next \/ \E x : next' = [next EXCEPT ![w] = x]
        /\ out' = out \/ \E x : out' = [out EXCEPT ![w] = x]
        /\ page' = page \/ \E x : page' = [page EXCEPT ![w] = x]
        /\ skipped' = skipped \/ \E x : skipped' = [skipped EXCEPT ![w] = x]
        /\ retried' = retried \/ \E x : retried' = [retried EXCEPT ![w] = x]
    BY <1>5 DEF S3ScanStart, S3List, S3ScanItem, MoveTo, Reads
  <2>3. \A v \in Callers \ {w} :
          /\ at'[v] = at[v] /\ next'[v] = next[v] /\ out'[v] = out[v]
          /\ page'[v] = page[v] /\ skipped'[v] = skipped[v] /\ retried'[v] = retried[v]
    BY <2>2 DEF BatchInv, BatchTypes
  <2> QED BY <2>1, <2>3, InnerSteps
<1>6. CASE S3NextPage(w)
  <2>1. Busy(w) /\ UNCHANGED <<tableVars, issueVars, readVars, next>>
    BY <1>6 DEF S3NextPage, Busy
  <2>2. CASE MoveTo(w, "list") /\ UNCHANGED returnVars
    <3>1. \A v \in Callers \ {w} : at'[v] = at[v]
      BY <2>2 DEF MoveTo, BatchInv, BatchTypes
    <3> QED BY <2>1, <2>2, <3>1, InnerSteps DEF readVars
  <2>3. CASE ReturnRows(w, "nil", out[w])
    BY <2>1, <2>3, ReturnSteps DEF readVars
  <2> QED BY <1>6, <2>2, <2>3 DEF S3NextPage
<1>7. CASE S3ScanEnd(w)
  <2>1. /\ Busy(w) /\ UNCHANGED <<tableVars, issueVars, readVars, next>>
        /\ \E r, rs : ReturnRows(w, r, rs)
    BY <1>7 DEF S3ScanEnd, Busy, Return
  <2> QED BY <2>1, ReturnSteps DEF readVars
<1> QED BY <1>1, <1>2, <1>3, <1>4, <1>5, <1>6, <1>7 DEF S3Step

\* The first rows of a table exist in it.
LEMMA RowsExist ==
  ASSUME NEW w \in Callers, NEW t \in Tables,
         \A k \in absent[w] : t[k] = NoRow,
         NEW start \in Keys, NEW count \in Nat
  PROVE  \A i \in DOMAIN FirstRows(t, start, count) :
           ~MadeUp(w, FirstRows(t, start, count)[i][1])
<1> DEFINE F == {k \in Present(t) : k >= start}
           ks == InOrder(F)
           m == IF Len(ks) < count THEN Len(ks) ELSE count
           rs == [i \in 1 .. m |-> <<ks[i], t[ks[i]]>>]
<1>1. rs = FirstRows(t, start, count)
  BY DEF FirstRows
<1>2. F \in SUBSET Int /\ IsFiniteSet(F) /\ \A k \in F : t[k] # NoRow
  <2>1. F \in SUBSET Keys /\ \A k \in F : t[k] # NoRow
    BY DEF Present
  <2> HIDE DEF F
  <2> QED BY <2>1, KeysFinite
<1> HIDE DEF F
<1>3. ks \in Seq(F)
  BY <1>2, InOrderFacts
<1> HIDE DEF ks
<1>4. m \in Int /\ m <= Len(ks) /\ Len(ks) \in Nat
  BY <1>3
<1> HIDE DEF m
<1>5. ASSUME NEW i \in DOMAIN rs PROVE ~MadeUp(w, rs[i][1])
  <2>1. i \in 1 .. m /\ rs[i][1] = ks[i]
    OBVIOUS
  <2>2. ks[i] \in F
    BY <1>3, <1>4, <2>1
  <2> QED BY <1>2, <2>1, <2>2 DEF MadeUp
<1> QED BY <1>1, <1>5

\* A Scan goes on.
LEMMA MoveExists ==
  ASSUME BatchInv, ExistInv, NEW w \in Callers, Steps(w),
         UNCHANGED <<absent, table, engine, options>>, at'[w] # "idle",
         at'[w] = "run" => \A k \in absent[w] : snap'[w].table[k] = NoRow,
         \A i \in DOMAIN out'[w] : ~MadeUp(w, out'[w][i][1]),
         at'[w] = "item" => \A i \in DOMAIN page'[w] : page'[w][i] \notin absent[w]
  PROVE  ExistInv'
<1>1. AbsentInv(w) /\ call'[w] = call[w]
  BY DEF ExistInv, Steps
<1>2. \A k : MadeUp(w, k)' <=> MadeUp(w, k)
  BY <1>1 DEF MadeUp, UncheckedStart
<1>3. AbsentInv(w)'
  BY <1>1, <1>2 DEF AbsentInv
<1> QED BY <1>3, StepExists

\* What a Scan knows while it is under way.
LEMMA NothingMadeUp ==
  ASSUME ExistInv, NEW w \in Callers
  PROVE  /\ \A k \in absent[w] : /\ table[k] = NoRow
                                 /\ at[w] = "run" => snap[w].table[k] = NoRow
         /\ \A i \in DOMAIN out[w] : ~MadeUp(w, out[w][i][1])
         /\ at[w] = "item" => \A i \in DOMAIN page[w] : page[w][i] \notin absent[w]
BY DEF ExistInv, AbsentInv

\* mysql and pg.
LEMMA SQLExists ==
  ASSUME BatchInv, ExistInv, NEW w \in Callers, UNCHANGED <<engine, options>>,
         MysqlStep(w) \/ PgStep(w), call[w].kind = "scan"
  PROVE  ExistInv'
<1>1. MysqlScan(w) \/ PgScan(w)
  BY DEF MysqlStep, PgStep, MysqlBatchInsert, MysqlBatchDelete, MysqlBatchRead, MysqlBatchUpdate,
         WrapperLoop
<1>2. Steps(w) /\ UNCHANGED <<absent, table, out>> /\ Busy(w)
  BY <1>1, SQLSteps DEF MysqlScan, PgScan, tableVars, readVars, Steps
<1>3. table \in Tables /\ call[w].keys[1] \in Keys /\ call[w].count \in Nat
  BY <1>2, ScanCall, TableFacts
<1>4. CASE ReturnRows(w, "nil", FirstRows(table, call[w].keys[1], call[w].count))
  BY <1>2, <1>3, <1>4, NothingMadeUp, RowsExist, ReturnExists
<1>5. ASSUME NEW S \in SUBSET Present(table),
             ReturnRows(w, "nil", SetToSeq({<<k, table[k]>> : k \in S}))
      PROVE  ExistInv'
  <2> DEFINE rs == SetToSeq({<<k, table[k]>> : k \in S})
  <2>1. S \in SUBSET Keys /\ \A k \in S : k \notin absent[w]
    BY NothingMadeUp DEF Present
  <2>2. rs \in RowList /\ KeysOf(rs) \in Seq(S)
    BY <1>3, <2>1, RowsOfSet
  <2> HIDE DEF rs
  <2>3. \A i \in DOMAIN rs : KeysOf(rs)[i] = rs[i][1] /\ KeysOf(rs)[i] \in S
    <3>1. \A i \in DOMAIN rs : KeysOf(rs)[i] = rs[i][1]
      BY DEF KeysOf
    <3>2. DOMAIN KeysOf(rs) = DOMAIN rs
      BY DEF KeysOf
    <3>3. \A i \in DOMAIN KeysOf(rs) : KeysOf(rs)[i] \in S
      BY <2>2
    <3> QED BY <3>1, <3>2, <3>3
  <2>4. ReturnRows(w, "nil", rs) /\ \A i \in DOMAIN rs : ~MadeUp(w, rs[i][1])
    BY <1>5, <2>1, <2>3 DEF rs, MadeUp
  <2> QED BY <1>2, <2>4, ReturnExists
<1>6. CASE Return(w, "error")
  BY <1>2, <1>6, ReturnExists DEF Return
<1> QED BY <1>1, <1>4, <1>5, <1>6 DEF MysqlScan, PgScan

\* sqlite: a Scan sees its snapshot.
LEMMA SqliteExists ==
  ASSUME BatchInv, ExistInv, NEW w \in Callers, UNCHANGED <<engine, options>>,
         SqliteStep(w), call[w].kind = "scan"
  PROVE  ExistInv'
<1>1. Steps(w) /\ Busy(w) /\ at[w] \in CallPoints
  BY SqliteSteps, CallerType DEF Steps
<1>2. CASE SqliteBegin(w)
  <2>1. UNCHANGED <<absent, table, out>>
    BY <1>2 DEF SqliteBegin, tableVars
  <2>2. CASE Return(w, "error")
    BY <1>1, <2>1, <2>2, ReturnExists DEF Return
  <2>3. CASE /\ snap' = [snap EXCEPT ![w] = [table |-> table, version |-> version]]
             /\ MoveTo(w, "run")
    <3>1. snap'[w].table = table /\ at'[w] = "run"
      BY <2>3 DEF MoveTo, BatchInv, BatchTypes
    <3> QED BY <1>1, <2>1, <3>1, NothingMadeUp, MoveExists
  <2> QED BY <1>2, <2>2, <2>3 DEF SqliteBegin
<1>3. CASE SqliteScan(w)
  <2>1. /\ UNCHANGED <<absent, table, snap, at>> /\ at[w] = "run"
        /\ out'[w] = FirstRows(snap[w].table, call[w].keys[1], call[w].count)
    BY <1>3 DEF SqliteScan, tableVars, BatchInv, BatchTypes
  <2>2. snap[w].table \in Tables /\ call[w].keys[1] \in Keys /\ call[w].count \in Nat
    BY <1>1, ScanCall, CallerType
  <2>3. \A i \in DOMAIN out'[w] : ~MadeUp(w, out'[w][i][1])
    BY <2>1, <2>2, NothingMadeUp, RowsExist
  <2> QED BY <1>1, <2>1, <2>3, NothingMadeUp, MoveExists
<1>4. CASE SqliteRollback(w)
  <2>1. UNCHANGED <<absent, table, out>> /\ ReturnRows(w, "error", <<>>)
    BY <1>4 DEF SqliteRollback, tableVars, readVars, Return
  <2> QED BY <1>1, <2>1, ReturnExists
<1>5. CASE SqliteFnDone(w)
  <2>1. UNCHANGED <<absent, table, out>> /\ at'[w] = "commit"
    BY <1>5 DEF SqliteFnDone, tableVars, readVars, MoveTo, BatchInv, BatchTypes
  <2> QED BY <1>1, <2>1, NothingMadeUp, MoveExists
<1>6. CASE SqliteCommit(w)
  <2>1. UNCHANGED <<absent, table, out>> /\ ReturnRows(w, "nil", out[w])
    BY <1>6 DEF SqliteCommit, IsWrite, tableVars, readVars
  <2> QED BY <1>1, <2>1, NothingMadeUp, ReturnExists
<1>7. CASE SqliteCommitFails(w)
  <2>1. UNCHANGED <<absent, table, out>>
    BY <1>7 DEF SqliteCommitFails, tableVars
  <2>2. CASE Return(w, "error")
    BY <1>1, <2>1, <2>2, ReturnExists DEF Return
  <2>3. CASE MoveTo(w, "begin")
    <3>1. at'[w] = "begin"
      BY <2>3 DEF MoveTo, BatchInv, BatchTypes
    <3> QED BY <1>1, <2>1, <3>1, NothingMadeUp, MoveExists
  <2> QED BY <1>7, <2>2, <2>3 DEF SqliteCommitFails
<1>8. ~SqliteWrite(w) /\ ~SqliteRead(w)
  BY DEF SqliteWrite, SqliteRead, IsWrite
<1> QED BY <1>2, <1>3, <1>4, <1>5, <1>6, <1>7, <1>8 DEF SqliteStep

\* tikv and raw.
LEMMA TikvExists ==
  ASSUME BatchInv, ExistInv, NEW w \in Callers, UNCHANGED <<engine, options>>,
         TxnStep(w) \/ RawStep(w), call[w].kind = "scan"
  PROVE  ExistInv'
<1>1. Steps(w) /\ Busy(w)
  BY TikvSteps DEF Steps
<1>2. TxnBegin(w) \/ TxnScan(w) \/ RawScan(w)
  BY DEF TxnStep, RawStep, TxnBatchRead, TxnBatchWrite, RawExecute, RawBatchWrite, RawBatchRead
<1>3. UNCHANGED <<absent, table, out>>
  BY <1>2 DEF TxnBegin, TxnScan, RawScan, tableVars, readVars
<1>4. /\ snap[w].table \in Tables /\ table \in Tables
      /\ call[w].keys[1] \in Keys /\ call[w].count \in Nat
  BY <1>1, ScanCall, CallerType, TableFacts
<1>5. CASE Return(w, "error")
  BY <1>1, <1>3, <1>5, ReturnExists DEF Return
<1>6. CASE /\ snap' = [snap EXCEPT ![w] = [table |-> table, version |-> version]]
           /\ MoveTo(w, "run")
  <2>1. snap'[w].table = table /\ at'[w] = "run"
    BY <1>6 DEF MoveTo, BatchInv, BatchTypes
  <2> QED BY <1>1, <1>3, <2>1, NothingMadeUp, MoveExists
<1>7. ASSUME NEW t \in Tables, \A k \in absent[w] : t[k] = NoRow,
             ReturnRows(w, "nil", FirstRows(t, call[w].keys[1], call[w].count))
      PROVE  ExistInv'
  BY <1>1, <1>3, <1>4, <1>7, RowsExist, ReturnExists
<1>8. CASE TxnScan(w)
  BY <1>4, <1>5, <1>7, <1>8, NothingMadeUp DEF TxnScan
<1>9. CASE RawScan(w)
  BY <1>4, <1>5, <1>7, <1>9, NothingMadeUp DEF RawScan
<1> QED BY <1>2, <1>5, <1>6, <1>8, <1>9 DEF TxnBegin

\* s3: the listed keys exist, and the objects that are read; the start key of a Scan of
\* keys is not looked at.
LEMMA S3Exists ==
  ASSUME BatchInv, ExistInv, NEW w \in Callers, engine = "s3", UNCHANGED <<engine, options>>,
         S3Step(w), call[w].kind = "scan"
  PROVE  ExistInv'
<1>1. Steps(w) /\ Busy(w)
  BY S3Steps DEF Steps
<1>2. ~S3Loop(w) /\ ~S3UpdateRead(w) /\ ~S3BatchRead(w) /\ ~S3UpdatePut(w)
  <2>1. at[w] # "merge"
    BY <1>1 DEF BatchInv, CallerInv, CallInv
  <2> QED BY <2>1 DEF S3Loop, S3UpdateRead, S3BatchRead, S3UpdatePut, ReadsFirst
<1>3. ASSUME NEW k \in Keys, Reads(w, k), options.keysOnly => ~MadeUp(w, k)
      PROVE  \A i \in DOMAIN out'[w] : ~MadeUp(w, out'[w][i][1])
  <2>1. CASE out' = out
    BY <2>1, NothingMadeUp
  <2>2. CASE /\ options.keysOnly \/ table[k] # NoRow
             /\ out' = [out EXCEPT ![w] = Append(@, <<k, table[k]>>)]
    <3>1. ~MadeUp(w, k)
      BY <1>3, <2>2, NothingMadeUp DEF MadeUp
    <3>2. out[w] \in Seq(Keys \X AnyRow) /\ <<k, table[k]>> \in Keys \X AnyRow
      BY CallerType, TableFacts DEF RowList, Tables
    <3>3. out'[w] = Append(out[w], <<k, table[k]>>)
      BY <2>2 DEF BatchInv, BatchTypes
    <3>4. ASSUME NEW i \in DOMAIN out'[w] PROVE ~MadeUp(w, out'[w][i][1])
      <4>1. i \in 1 .. Len(out[w]) + 1
        BY <3>2, <3>3
      <4>2. CASE i \in 1 .. Len(out[w])
        <5>1. out'[w][i] = out[w][i] /\ i \in DOMAIN out[w]
          BY <3>2, <3>3, <4>2
        <5> QED BY <5>1, NothingMadeUp
      <4>3. CASE i = Len(out[w]) + 1
        <5>1. out'[w][i] = <<k, table[k]>>
          BY <3>2, <3>3, <4>3
        <5> QED BY <3>1, <5>1
      <4>4. Len(out[w]) \in Nat
        BY <3>2
      <4> QED BY <4>1, <4>2, <4>3, <4>4
    <3> QED BY <3>4
  <2> QED BY <1>3, <2>1, <2>2 DEF Reads
<1>4. CASE S3ScanStart(w)
  <2>1. /\ UNCHANGED <<absent, table>> /\ at'[w] = "list" /\ Reads(w, call[w].keys[1])
    BY <1>4 DEF S3ScanStart, tableVars, MoveTo, BatchInv, BatchTypes
  <2>2. options.keysOnly => ~MadeUp(w, call[w].keys[1])
    BY DEF MadeUp, UncheckedStart
  <2>3. call[w].keys[1] \in Keys
    BY <1>1, ScanCall
  <2>4. \A i \in DOMAIN out'[w] : ~MadeUp(w, out'[w][i][1])
    BY <1>3, <2>1, <2>2, <2>3
  <2> QED BY <1>1, <2>1, <2>4, MoveExists
<1>5. CASE S3List(w)
  <2> DEFINE F == {k \in Present(table) : k > next[w]}
             ks == InOrder(F)
             q == IF Remaining(w) < PageMax THEN Remaining(w) ELSE PageMax
             p == SubSeq(ks, 1, IF q < Len(ks) THEN q ELSE Len(ks))
  <2>1. /\ UNCHANGED <<absent, table, out>> /\ at[w] = "list" /\ at'[w] = "item"
        /\ page'[w] = p
    BY <1>5 DEF S3List, tableVars, MoveTo, BatchInv, BatchTypes
  <2>2. F \in SUBSET Int /\ IsFiniteSet(F) /\ \A k \in F : table[k] # NoRow
    <3>1. F \in SUBSET Keys /\ \A k \in F : table[k] # NoRow
      BY DEF Present
    <3> HIDE DEF F
    <3> QED BY <3>1, KeysFinite
  <2> HIDE DEF F
  <2>3. ks \in Seq(F)
    BY <2>2, InOrderFacts
  <2> HIDE DEF ks
  <2>4. q \in Int
    <3>1. Len(out[w]) \in Nat /\ call[w].count \in Nat
      BY <2>1, S3Has
    <3> QED BY <3>1, PageAssumption DEF Remaining
  <2> HIDE DEF q
  <2>5. \A i \in DOMAIN p : p[i] \in F
    <3> DEFINE m == IF q < Len(ks) THEN q ELSE Len(ks)
    <3>1. m \in Int /\ m <= Len(ks) /\ Len(ks) \in Nat
      BY <2>3, <2>4
    <3> HIDE DEF m
    <3>2. p = [i \in 1 .. m |-> ks[i]]
      BY <2>3, <3>1 DEF m
    <3> HIDE DEF p
    <3>3. \A i \in 1 .. m : ks[i] \in F
      BY <2>3, <3>1
    <3> QED BY <3>2, <3>3
  <2> HIDE DEF p
  <2>6. \A i \in DOMAIN page'[w] : page'[w][i] \notin absent[w]
    BY <2>1, <2>2, <2>5, NothingMadeUp
  <2> QED BY <1>1, <2>1, <2>6, NothingMadeUp, MoveExists
<1>6. CASE S3ScanItem(w)
  <2>1. /\ UNCHANGED <<absent, table, at>> /\ at[w] = "item" /\ page[w] # <<>>
        /\ Reads(w, Head(page[w])) /\ page'[w] = Tail(page[w]) /\ page[w] \in Seq(Keys)
    BY <1>6 DEF S3ScanItem, tableVars, BatchInv, BatchTypes
  <2>2. Head(page[w]) \in Keys /\ Head(page[w]) \notin absent[w]
    BY <2>1, NothingMadeUp
  <2>3. \A i \in DOMAIN page'[w] : page'[w][i] \notin absent[w]
    <3>1. \A i \in 1 .. Len(page[w]) - 1 : Tail(page[w])[i] = page[w][i + 1]
                                          /\ i + 1 \in DOMAIN page[w]
      BY <2>1
    <3>2. DOMAIN Tail(page[w]) = 1 .. Len(page[w]) - 1
      BY <2>1
    <3> QED BY <2>1, <3>1, <3>2, NothingMadeUp
  <2>4. \A i \in DOMAIN out'[w] : ~MadeUp(w, out'[w][i][1])
    BY <1>3, <2>1, <2>2 DEF MadeUp
  <2> QED BY <1>1, <2>1, <2>3, <2>4, MoveExists
<1>7. CASE S3NextPage(w)
  <2>1. UNCHANGED <<absent, table, out>>
    BY <1>7 DEF S3NextPage, tableVars, readVars
  <2>2. CASE ReturnRows(w, "nil", out[w])
    BY <1>1, <2>1, <2>2, NothingMadeUp, ReturnExists
  <2>3. CASE MoveTo(w, "list")
    <3>1. at'[w] = "list"
      BY <2>3 DEF MoveTo, BatchInv, BatchTypes
    <3> QED BY <1>1, <2>1, <3>1, NothingMadeUp, MoveExists
  <2> QED BY <1>7, <2>2, <2>3 DEF S3NextPage
<1>8. CASE S3ScanEnd(w)
  <2>1. UNCHANGED <<absent, table, out>>
    BY <1>8 DEF S3ScanEnd, tableVars, readVars
  <2>2. CASE ReturnRows(w, "nil", out[w])
    BY <1>1, <2>1, <2>2, NothingMadeUp, ReturnExists
  <2>3. CASE Return(w, "error")
    BY <1>1, <2>1, <2>3, ReturnExists DEF Return
  <2> QED BY <1>8, <2>2, <2>3 DEF S3ScanEnd
<1> QED BY <1>2, <1>4, <1>5, <1>6, <1>7, <1>8 DEF S3Step

\* A new Scan has found nothing yet, and what is missing is not in the table.
LEMMA MakeCallExists ==
  ASSUME BatchInv, ExistInv, NEW w \in Callers, NEW kind \in Kinds, UNCHANGED <<engine, options>>,
         MakeCall(w, kind)
  PROVE  ExistInv'
<1> DEFINE A == IF kind = "scan" THEN Keys \ Present(table) ELSE {}
<1>1. PICK c : NewCall(c, kind, issued') /\ call' = [call EXCEPT ![w] = c]
  BY MakesCall
<1>2. /\ at' = [at EXCEPT ![w] = "begin"] /\ out' = [out EXCEPT ![w] = <<>>]
      /\ absent' = [absent EXCEPT ![w] = A]
      /\ UNCHANGED <<engine, options, table, snap, page, result, rows>>
  BY DEF MakeCall, MoveTo, returnVars
<1>3. A \in SUBSET Keys /\ \A k \in A : table[k] = NoRow
  BY DEF Present
<1>4. /\ absent \in [Callers -> SUBSET Keys] /\ out \in [Callers -> RowList]
      /\ call \in [Callers -> CallRecords] /\ at \in [Callers -> CallPoints]
  BY DEF ExistInv, BatchInv, BatchTypes
<1>5. c.kind = kind
  BY <1>1 DEF NewCall
<1>6. AbsentInv(w)'
  <2>1. /\ at'[w] = "begin" /\ out'[w] = <<>> /\ absent'[w] = A /\ call'[w] = c
        /\ table' = table
    BY <1>1, <1>2, <1>4
  <2>2. c.kind # "scan" => A = {}
    BY <1>5
  <2> HIDE DEF A
  <2> QED BY <1>3, <2>1, <2>2 DEF AbsentInv
<1>7. ASSUME NEW v \in Callers \ {w} PROVE AbsentInv(v)'
  <2>1. /\ at'[v] = at[v] /\ out'[v] = out[v] /\ absent'[v] = absent[v] /\ call'[v] = call[v]
    BY <1>1, <1>2, <1>4
  <2>2. AbsentInv(v)
    BY DEF ExistInv
  <2>3. \A k : MadeUp(v, k)' <=> MadeUp(v, k)
    BY <1>2, <2>1 DEF MadeUp, UncheckedStart
  <2> QED BY <1>2, <2>1, <2>2, <2>3 DEF AbsentInv
<1>8. absent' \in [Callers -> SUBSET Keys]
  BY <1>2, <1>3, <1>4
<1> QED BY <1>6, <1>7, <1>8 DEF ExistInv

\* Nothing is made up in any state of the batch calls.
LEMMA ExistInvariant == AdapterSpec => []ExistInv
<1>1. AdapterInit => ExistInv
  <2> SUFFICES ASSUME AdapterInit PROVE ExistInv
    OBVIOUS
  <2>1. PICK t : BatchInit(t)
    BY DEF AdapterInit
  <2>2. absent \in [Callers -> SUBSET Keys]
    BY <2>1 DEF BatchInit
  <2>3. ASSUME NEW w \in Callers PROVE AbsentInv(w)
    <3>1. absent[w] = {}
      BY <2>1 DEF BatchInit
    <3> QED BY <3>1 DEF AbsentInv, MadeUp
  <2> QED BY <2>2, <2>3 DEF ExistInv
<1>2. BatchInv /\ ExistInv /\ [AdapterNext]_adapterVars => ExistInv'
  <2> SUFFICES ASSUME BatchInv, ExistInv, [AdapterNext]_adapterVars PROVE ExistInv'
    OBVIOUS
  <2>1. ASSUME NEW w \in Callers, Issue(w), UNCHANGED <<engine, options>> PROVE ExistInv'
    <3>1. PICK kind \in Kinds : MakeCall(w, kind)
      BY <2>1 DEF Issue, Kinds, WriteKinds
    <3> QED BY <2>1, <3>1, MakeCallExists
  <2>2. ASSUME NEW w \in Callers, Step(w), UNCHANGED <<engine, options>> PROVE ExistInv'
    <3>1. Steps(w)
      BY <2>2, SQLSteps, SqliteSteps, TikvSteps, S3Steps DEF Step
    <3>2. CASE call[w].kind # "scan"
      BY <3>1, <3>2, NoScanExists
    <3>3. CASE call[w].kind = "scan"
      BY <2>2, <3>3, SQLExists, SqliteExists, TikvExists, S3Exists DEF Step
    <3> QED BY <3>2, <3>3
  <2>3. CASE UNCHANGED adapterVars
    <3>1. UNCHANGED <<engine, options, absent, call, table, at, snap, out, page, result, rows>>
      BY <2>3 DEF adapterVars, batchVars, tableVars, issueVars, readVars, returnVars
    <3> QED BY <3>1 DEF ExistInv, AbsentInv, MadeUp, UncheckedStart
  <2> QED BY <2>1, <2>2, <2>3 DEF AdapterNext, Done
<1> QED BY <1>1, <1>2, BatchInvariant, PTL DEF AdapterSpec

\* A Scan that returned nil has at most count rows, from the start key on and none twice;
\* the ordered ones leave out no record that was there all the time; and none returns a
\* record that was missing all the time, but for the start key of an s3 Scan of keys only.
THEOREM ScanExactHolds == AdapterSpec => []ScanExact
<1>1. ASSUME BatchInv, ExistInv, NEW w \in Callers, at[w] = "idle", call[w].kind = "scan",
             result[call[w].id] = "nil"
      PROVE  LET c == call[w]
                 ks == [i \in DOMAIN rows[c.id] |-> rows[c.id][i][1]] IN
             /\ Len(ks) <= c.count
             /\ \A i \in DOMAIN ks : ks[i] >= c.keys[1]
             /\ Cardinality({ks[i] : i \in DOMAIN ks}) = Len(ks)
             /\ \A i \in DOMAIN ks : ks[i] \in absent[w] => UncheckedStart(w, ks[i])
             /\ engine # "pg" =>
                  /\ \A i \in 2 .. Len(ks) : ks[i - 1] < ks[i]
                  /\ \A k \in steady[w] \ skipped[w] :
                       /\ k >= c.keys[1]
                       /\ Len(ks) < c.count \/ k < ks[Len(ks)]
                       => \E i \in DOMAIN ks : ks[i] = k
  <2> DEFINE c == call[w]
             ks == [i \in DOMAIN rows[c.id] |-> rows[c.id][i][1]]
             S == steady[w] \ skipped[w]
  <2>1. c.id \in Calls
    <3>1. c.id # 0 /\ c.id \in 0 .. MaxCalls
      BY <1>1, CallerType DEF BatchInv, IdsInv
    <3> QED BY <3>1 DEF Calls
  <2>2. rows[c.id] \in RowList /\ ks = KeysOf(rows[c.id])
    BY <1>1, <2>1 DEF BatchInv, BatchTypes, KeysOf
  <2>3. ks \in Seq(Keys)
    BY <2>2, KeysOfRows
  <2>4. Found(engine, ks, c, S)
    BY <1>1, <2>2 DEF BatchInv, CallerInv, ScanDone
  <2>10. \A i \in DOMAIN ks : ks[i] \in absent[w] => UncheckedStart(w, ks[i])
    <3>1. \A i \in DOMAIN rows[c.id] : ~MadeUp(w, rows[c.id][i][1])
      BY <1>1 DEF ExistInv, AbsentInv
    <3> QED BY <3>1 DEF MadeUp
  <2> HIDE DEF ks, S, c
  <2>5. DOMAIN ks = 1 .. Len(ks) /\ Len(ks) \in Nat /\ \A i \in 1 .. Len(ks) : ks[i] \in Int
    <3>1. \A k \in Keys : k \in Int
      BY BatchAssumption DEF Keys
    <3> QED BY <2>3, <3>1
  <2>6. /\ Len(ks) <= c.count
        /\ \A i \in 1 .. Len(ks) : ks[i] >= c.keys[1]
    BY <2>4 DEF Found, Scanned
  <2>7. \A i, j \in 1 .. Len(ks) : i # j => ks[i] # ks[j]
    <3>1. CASE engine = "pg"
      BY <2>4, <3>1 DEF Found
    <3>2. CASE engine # "pg"
      <4>1. \A i, j \in 1 .. Len(ks) : i < j => ks[i] < ks[j]
        BY <2>4, <3>2 DEF Found, Scanned, Increasing
      <4> TAKE i, j \in 1 .. Len(ks)
      <4>2. i = j \/ i < j \/ j < i
        BY <2>5
      <4> QED BY <2>5, <4>1, <4>2
    <3> QED BY <3>1, <3>2
  <2>8. Cardinality({ks[i] : i \in DOMAIN ks}) = Len(ks)
    BY <2>3, <2>7, DistinctElements
  <2>9. ASSUME engine # "pg"
        PROVE  /\ \A i \in 2 .. Len(ks) : ks[i - 1] < ks[i]
               /\ \A k \in S : /\ k >= c.keys[1]
                               /\ Len(ks) < c.count \/ k < ks[Len(ks)]
                               => \E i \in 1 .. Len(ks) : ks[i] = k
    <3>1. Scanned(ks, c, S)
      BY <2>4, <2>9 DEF Found
    <3>2. ASSUME NEW i \in 2 .. Len(ks) PROVE ks[i - 1] < ks[i]
      <4>1. i - 1 \in 1 .. Len(ks) /\ i \in 1 .. Len(ks) /\ i - 1 < i
        BY <2>5
      <4> QED BY <3>1, <4>1 DEF Scanned, Increasing
    <3> QED BY <3>1, <3>2 DEF Scanned
  <2> QED BY <2>5, <2>6, <2>8, <2>9, <2>10 DEF ks, S, c
<1>2. BatchInv /\ ExistInv => ScanExact
  BY <1>1 DEF ScanExact
<1> QED BY <1>2, BatchInvariant, ExistInvariant, PTL
=============================================================================
