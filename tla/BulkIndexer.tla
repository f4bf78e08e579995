---------------------------- MODULE BulkIndexer -----------------------------
(***************************************************************************)
(* The Elasticsearch adapter (db/elasticsearch/db.go).  All threads share  *)
(* one esutil.BulkIndexer: Insert, Update and Delete put an item into its  *)
(* queue and return, its own goroutines send the items to the server, and  *)
(* CleanupThread of every thread closes it.                                *)
(*                                                                         *)
(* esutil is external: Add sends on a channel, which panics once Close     *)
(* has closed the channel; Close waits until the queue is drained and      *)
(* flushes what is buffered, and panics when it is called again.           *)
(***************************************************************************)
EXTENDS SQLSession

CONSTANTS QueueSize  \* capacity of the channel: the indexer's goroutines

ASSUME QueueAssumption == QueueSize \in Nat

VARIABLES queue,     \* items in the channel
          buffered,  \* items its goroutines hold
          accepted,  \* Adds that returned nil and are not sent (history)
          biClosed   \* the channel is closed

bulkVars == <<queue, buffered, accepted, biClosed>>

BulkInit == queue = 0 /\ buffered = 0 /\ accepted = 0 /\ biClosed = FALSE

sessionVars == <<callVars, connVars, faultVars>>

\* Insert, Update and Delete: bi.Add blocks while the queue is full.
Add(w) ==
  /\ pc[w] = "idle"
  /\ \/ /\ ~biClosed
        /\ queue < QueueSize
        /\ queue' = queue + 1
        /\ accepted' = accepted + 1
        /\ UNCHANGED panicked
     \/ /\ biClosed
        /\ panicked' = TRUE
        /\ UNCHANGED <<queue, accepted>>
  /\ UNCHANGED <<buffered, biClosed, pc, sessionVars>>

\* A goroutine of the indexer takes an item.  QueueSize also bounds the items
\* that are buffered, as the flush threshold does.
Take ==
  /\ queue > 0
  /\ buffered < QueueSize
  /\ queue' = queue - 1
  /\ buffered' = buffered + 1
  /\ UNCHANGED <<accepted, biClosed, pc, panicked, sessionVars>>

\* The threshold or the interval is reached: the buffer goes to the server.  The
\* callbacks OnSuccess and OnFailure only print.
Flush ==
  /\ buffered > 0
  /\ buffered' = 0
  /\ accepted' = accepted - buffered
  /\ UNCHANGED <<queue, biClosed, pc, panicked, sessionVars>>

StartThread(w) ==
  /\ pc[w] = "start"
  /\ Goto(w, "idle")
  /\ UNCHANGED <<bulkVars, panicked, sessionVars>>

\* bi.Close closes the channel.
CloseBulk(w) ==
  /\ pc[w] = "idle"
  /\ \/ ~biClosed /\ biClosed' = TRUE /\ Goto(w, "drain") /\ UNCHANGED panicked
     \/ biClosed /\ panicked' = TRUE /\ UNCHANGED <<biClosed, pc>>
  /\ UNCHANGED <<queue, buffered, accepted, sessionVars>>

\* Mutant: Close does not wait for the queue.
DrainNotAwaited(w) ==
  /\ pc[w] = "drain"
  /\ buffered' = 0 /\ accepted' = accepted - buffered
  /\ Goto(w, "finished")
  /\ UNCHANGED <<queue, biClosed, panicked, sessionVars>>

\* bi.Close waits for the goroutines, and flushes.
Drain(w) ==
  /\ pc[w] = "drain"
  /\ queue = 0
  /\ buffered' = 0
  /\ accepted' = accepted - buffered
  /\ Goto(w, "finished")
  /\ UNCHANGED <<queue, biClosed, panicked, sessionVars>>

BulkStep(w) == StartThread(w) \/ Add(w) \/ CloseBulk(w) \/ Drain(w)
-----------------------------------------------------------------------------
\* No item whose Add returned nil (elasticsearch/db.go:99-130) is lost on the way:
\* it is in the queue, in a buffer or sent, and once a thread has cleaned up
\* (elasticsearch/db.go:65-67) all of them are sent.
AddedItemsSent ==
  /\ accepted = queue + buffered
  /\ (\E w \in threads : pc[w] = "finished") /\ biClosed => accepted = 0
=============================================================================
