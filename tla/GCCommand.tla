----------------------------- MODULE GCCommand ------------------------------
(***************************************************************************)
(* The gc command (cmd/go-ycsb/gc.go): rounds of badger's value log        *)
(* collection, each between two samples of the process's write_bytes and   *)
(* of the disk use of the value log directory.                             *)
(*                                                                         *)
(* Badger is external: RunValueLogGC takes a file, not the newest, whose   *)
(* share of garbage reaches the ratio, writes its live data to the newest  *)
(* file and removes it; without such a file it returns an error whose text *)
(* is "Value log GC attempt didn't result in any cleanup"; it may fail on  *)
(* the way.  Its compactions write to the disk at any time.  The ratio is  *)
(* in percent, sizes are in blocks.                                        *)
(***************************************************************************)
EXTENDS Integers, Sequences, FiniteSets, SequencesExt

CONSTANTS LogFiles,       \* what the value log files before the newest may hold
          Counts,         \* the values of gc.count
          Ratios,         \* the values of gc.discard_ratio
          MaxCompactions  \* bound on the writes of the compactions

ASSUME GCAssumption ==
  /\ LogFiles \subseteq Seq([live : Nat, dead : Nat])
  /\ Counts \cup Ratios \subseteq Int
  /\ MaxCompactions \in Nat

VARIABLES gcCount,      \* the number of rounds to run
          discardRatio,
          vlog,         \* the files, the newest last
          writeBytes,   \* what the kernel counts as written by the process
          compactions,  \* writes of the compactions so far
          point,        \* program point of runGCCommandFunc
          round,        \* number of the round, i
          pre,          \* disk use before the first round
          post,         \* disk use after the last
          before,       \* the samples before a round
          err,          \* what RunValueLogGC returned
          results,      \* the rounds recorded, each by what it returned
          totalPhysWrite,
          spaceReclaimed,
          missedWrites, \* some sample of write_bytes failed (history)
          missedFiles,  \* some sample of the directory did not see all files (history)
          inRounds,     \* blocks written between the samples of the rounds (history)
          origin        \* the files at the start (history)

params == <<gcCount, discardRatio, origin>>
disk == <<vlog, writeBytes>>
totals == <<results, totalPhysWrite, spaceReclaimed>>
missed == <<missedWrites, missedFiles>>
history == <<missed, inRounds>>
gcVars == <<params, disk, compactions, point, round, pre, post, before, err, totals,
          history>>

Size(f) == f.live + f.dead

\* The blocks of the files in S, and of all.
Used(fs, S) == Cardinality(UNION {{i} \X (1 .. Size(fs[i])) : i \in S})
AllUsed(fs) == Used(fs, DOMAIN fs)

\* scanVlogDir skips the files whose information it cannot get: totalVlogSize is the sum
\* over any of the files, or -1 when the directory cannot be read.
totalVlogSize == {Used(vlog, S) : S \in SUBSET DOMAIN vlog} \cup {-1}

\* readWriteBytes: the value, or -1 when it cannot be read.
readWriteBytes == {writeBytes, -1}

\* Mutant: a count below one is not corrected.
GCRoundsUnchecked(n) == n

\* The properties, with the values that make no sense replaced.
GCRounds(n) == IF n < 1 THEN 1 ELSE n
Threshold(r) == IF r <= 0 \/ r >= 100 THEN 50 ELSE r

GCInit ==
  /\ \E n \in Counts : gcCount = GCRounds(n)
  /\ \E r \in Ratios : discardRatio = Threshold(r)
  /\ \E fs \in LogFiles : vlog = Append(fs, [live |-> 0, dead |-> 0])
  /\ origin = vlog
  /\ writeBytes = 0
  /\ compactions = 0
  /\ point = "snapshot"
  /\ round = 0
  /\ pre = -1
  /\ post = -1
  /\ before = [phys |-> -1, dir |-> -1]
  /\ err = "nil"
  /\ results = <<>>
  /\ totalPhysWrite = 0
  /\ spaceReclaimed = 0
  /\ missedWrites = FALSE
  /\ missedFiles = FALSE
  /\ inRounds = 0

\* The snapshot before the rounds.
Snapshot ==
  /\ point = "snapshot"
  /\ \E d \in totalVlogSize : pre' = d /\ missedFiles' = (d # AllUsed(vlog))
  /\ round' = 1
  /\ point' = "sample"
  /\ UNCHANGED <<params, disk, compactions, post, before, err, totals, missedWrites,
                 inRounds>>

\* The samples before a round.
SampleBefore ==
  /\ point = "sample"
  /\ \E p \in readWriteBytes, d \in totalVlogSize :
       /\ before' = [phys |-> p, dir |-> d]
       /\ missedWrites' = (missedWrites \/ p < 0)
       /\ missedFiles' = (missedFiles \/ d # AllUsed(vlog))
  /\ point' = "gc"
  /\ UNCHANGED <<params, disk, compactions, round, pre, post, err, totals, inRounds>>

\* RunValueLogGC (external).
Garbage(f) == f.dead > 0 /\ 100 * f.dead >= discardRatio * Size(f)

Collectable == {i \in 1 .. Len(vlog) - 1 : Garbage(vlog[i])}

Rewrite ==
  \E i \in Collectable :
    LET n == vlog[i].live IN
    /\ vlog' = RemoveAt([vlog EXCEPT ![Len(vlog)].live = @ + n], i)
    /\ writeBytes' = writeBytes + n
    /\ inRounds' = inRounds + n
    /\ err' = "nil"

RewriteFails ==
  \E i \in Collectable : \E n \in 0 .. vlog[i].live :
    /\ vlog' = [vlog EXCEPT ![Len(vlog)].dead = @ + n]
    /\ writeBytes' = writeBytes + n
    /\ inRounds' = inRounds + n
    /\ err' = "failed"

NoRewrite ==
  /\ Collectable = {}
  /\ err' = "no cleanup"
  /\ UNCHANGED <<disk, inRounds>>

RunValueLogGC ==
  /\ point = "gc"
  /\ Rewrite \/ RewriteFails \/ NoRewrite
  /\ point' = "record"
  /\ UNCHANGED <<params, compactions, round, pre, post, before, totals, missed>>

\* Mutant: a sample that failed counts as one of zero.
DeltaUnchecked(a, b) == IF b - a < 0 THEN 0 ELSE b - a

\* The increment of write_bytes, 0 without both samples.
Delta(a, b) == IF a >= 0 /\ b >= 0 /\ b >= a THEN b - a ELSE 0

\* Mutant: the space is taken from the snapshot before the first round.
ReclaimedSincePre(b) == IF pre >= 0 /\ b >= 0 THEN pre - b ELSE 0

\* The decrease of the directory's disk use; it may be negative.
Reclaimed(b) == IF before.dir >= 0 /\ b >= 0 THEN before.dir - b ELSE 0

\* The error's text has "ErrNoRewrite" or "No file" in it: badger's has neither.
SaysNoRewrite(e) == e \in {"ErrNoRewrite", "No file"}

\* Mutant: every error ends the rounds.
LastRoundOnError == round >= gcCount \/ err # "nil"

LastRound == round >= gcCount \/ (err # "nil" /\ SaysNoRewrite(err))

\* Mutant: a round that failed is not recorded.
RecordSkipsFailed ==
  /\ point = "record"
  /\ results' = IF err = "failed" THEN results ELSE Append(results, err)
  /\ IF LastRound THEN point' = "summary" /\ UNCHANGED round
                  ELSE point' = "sample" /\ round' = round + 1
  /\ UNCHANGED <<params, disk, compactions, pre, post, before, err, totalPhysWrite,
                 spaceReclaimed, history>>

\* The samples after a round, its record, and the next round or the end.
RecordRound ==
  /\ point = "record"
  /\ \E p \in readWriteBytes, d \in totalVlogSize :
       /\ totalPhysWrite' = totalPhysWrite + Delta(before.phys, p)
       /\ spaceReclaimed' = spaceReclaimed + Reclaimed(d)
       /\ missedWrites' = (missedWrites \/ p < 0)
       /\ missedFiles' = (missedFiles \/ d # AllUsed(vlog))
  /\ results' = Append(results, err)
  /\ IF LastRound THEN point' = "summary" /\ UNCHANGED round
                  ELSE point' = "sample" /\ round' = round + 1
  /\ UNCHANGED <<params, disk, compactions, pre, post, before, err, inRounds>>

\* The snapshot after the rounds and the summary.
Summary ==
  /\ point = "summary"
  /\ \E d \in totalVlogSize :
       post' = d /\ missedFiles' = (missedFiles \/ d # AllUsed(vlog))
  /\ point' = "done"
  /\ UNCHANGED <<params, disk, compactions, round, pre, before, err, totals, missedWrites,
                 inRounds>>

\* A compaction writes (external).
Compact ==
  /\ point # "done"
  /\ compactions < MaxCompactions
  /\ compactions' = compactions + 1
  /\ writeBytes' = writeBytes + 1
  /\ inRounds' = IF point \in {"gc", "record"} THEN inRounds + 1 ELSE inRounds
  /\ UNCHANGED <<params, vlog, point, round, pre, post, before, err, totals, missed>>

Done == point = "done" /\ UNCHANGED gcVars

Command == Snapshot \/ SampleBefore \/ RunValueLogGC \/ RecordRound \/ Summary

GCNext == Command \/ Compact \/ Done

GCSpec == GCInit /\ [][GCNext]_gcVars /\ WF_gcVars(Command)
-----------------------------------------------------------------------------
\* Types of the command's variables.
GCTypeOK ==
  /\ gcCount \in Nat \ {0}
  /\ discardRatio \in 1 .. 99
  /\ vlog \in Seq([live : Nat, dead : Nat])
  /\ {writeBytes, totalPhysWrite, inRounds} \subseteq Nat
  /\ point \in {"snapshot", "sample", "gc", "record", "summary", "done"}
  /\ round \in 0 .. gcCount
  /\ {pre, post, before.phys, before.dir} \subseteq Nat \cup {-1}
  /\ results \in Seq({"nil", "failed", "no cleanup"})
  /\ {missedWrites, missedFiles} \subseteq BOOLEAN

\* "本轮 GC 额外造成的磁盘物理写入" (the disk writes caused by the rounds): the total is
\* never more than was written between the samples of the rounds, whichever samples
\* failed, and exactly that when none of write_bytes did.
WritesAccounted ==
  /\ point \in {"snapshot", "sample"} => totalPhysWrite <= inRounds
  /\ point = "done" => /\ totalPhysWrite <= inRounds
                       /\ ~missedWrites => totalPhysWrite = inRounds

\* The rounds' reclaimed space adds up to what the directory lost between the two
\* snapshots, so that the two lines of the summary agree, as long as every sample of the
\* directory saw all its files.  A sample that failed, or that left out a file without
\* an error (gc.go:52-55), makes them differ.
ReclaimedTelescopes ==
  point = "done" /\ ~missedFiles => spaceReclaimed = pre - post

\* Types, and the two totals of the summary account for what the rounds did, whichever
\* rounds fail and whatever compactions write meanwhile (gc.go:299-313).  The writes are
\* a lower bound when their samples fail; the space is right only with all its samples.
TotalsAccount == GCTypeOK /\ WritesAccounted /\ ReclaimedTelescopes

\* With a round for every file that reached the ratio, and one more for every round
\* that failed, all of them have been collected at the end: an error does not end the
\* rounds.
AllCollected ==
  LET n == Cardinality({i \in 1 .. Len(origin) - 1 : Garbage(origin[i])})
      failures == Cardinality({i \in DOMAIN results : results[i] = "failed"}) IN
  point = "done" /\ gcCount >= n + failures => Collectable = {}

\* The command ends: with a record of every round it counted.
Ends == <>(point = "done" /\ Len(results) = round)
=============================================================================
