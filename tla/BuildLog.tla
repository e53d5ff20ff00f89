------------------------------- MODULE BuildLog -------------------------------
(***************************************************************************)
(* The durable log of one build: internal/engine/durable_build_log.go on   *)
(* top of builds.log and its retention in internal/store.                  *)
(*                                                                         *)
(* Lines are numbered in the order in which the run logs them.  A batch is *)
(* written to SQLite by whoever holds durableLogMu: the logging goroutine, *)
(* the callback of a time.AfterFunc timer, or a terminal flush.  A timer   *)
(* that fires starts a goroutine which may run much later, also after its  *)
(* timer was stopped or replaced.  SQLite may reject any write.            *)
(***************************************************************************)
EXTENDS Naturals, Sequences

CONSTANTS
    MaxLines,      \* bound: lines a run logs
    BatchLines,    \* durableBuildLogBatchBytes, in lines
    MaxDelay,      \* durableBuildLogRetryMaxDelay, in doublings of the interval
    RetainedLines  \* BuildLogRetentionCharacters, in lines

ASSUME BuildLogAssumption ==
    {MaxLines, BatchLines, MaxDelay, RetainedLines} \subseteq Nat \ {0}

VARIABLES
    logRun,     \* where the run stands between its lines and its announcement
    emitted,    \* lines logged so far
    batch,      \* durableLogs[buildID], or NoBatch
    callbacks,  \* fired timers whose goroutine has not taken durableLogMu yet
    stored,     \* builds.log as line numbers; 0 is the marker of an expired log
    trimmed     \* builds.log starts with BuildLogTruncationMarker

logVars == <<logRun, emitted, batch, callbacks, stored, trimmed>>

NoBatch == [buffer |-> <<>>, flushed |-> "absent", delay |-> 0, timer |-> "none", terminal |-> FALSE]
NewBatch == [NoBatch EXCEPT !.flushed = "never"]

\* fail() flushes again before it announces; a success is announced directly.
LogSteps == {"work", "flush", "finish", "retryLines", "flushAgain", "announce", "done"}

LogInit ==
    /\ logRun = "work"
    /\ emitted = 0
    /\ batch = NoBatch
    /\ callbacks = 0
    /\ stored = <<>>
    /\ trimmed = FALSE

(***************************************************************************)
(* AppendBuildLog: one UPDATE that keeps the newest output.                *)
(***************************************************************************)
\* What is kept of a log that no longer fits.
Retain(log) == SubSeq(log, Len(log) - RetainedLines + 1, Len(log))

AppendBuildLog(lines) ==
    LET log == stored \o lines
    IN  IF Len(log) <= RetainedLines
        THEN stored' = log /\ UNCHANGED trimmed
        ELSE stored' = Retain(log) /\ trimmed' = TRUE

(***************************************************************************)
(* flushDurableBuildLogLocked.  A write is accepted or rejected.           *)
(***************************************************************************)
\* Mutant of Retained: a rejected batch is kept but nobody comes back for it.
RetainedUnscheduled(b) == [b EXCEPT !.timer = "none", !.delay = 1]

\* The batch after a rejected write: kept, with a longer delay and a timer.
Retained(b) == [b EXCEPT !.timer = "armed", !.delay = IF @ < MaxDelay THEN @ + 1 ELSE MaxDelay]

\* The batch after an accepted write; a terminal one is deleted.
Accepted(b) ==
    IF b.terminal THEN NoBatch
    ELSE [b EXCEPT !.timer = "none", !.buffer = <<>>, !.delay = 0,
                   !.flushed = IF b.buffer = <<>> THEN @ ELSE "recent"]

FlushLocked(b, terminal) ==
    LET flushing == [b EXCEPT !.terminal = @ \/ terminal]
    IN  \/ /\ batch' = Accepted(flushing)
           /\ AppendBuildLog(b.buffer)
        \/ /\ b.buffer # <<>>
           /\ batch' = Retained(flushing)
           /\ UNCHANGED <<stored, trimmed>>

\* flushDurableBuildLog returns at once when there is no batch.
FlushDurableBuildLog(terminal) ==
    IF batch = NoBatch THEN UNCHANGED <<batch, stored, trimmed>> ELSE FlushLocked(batch, terminal)

(***************************************************************************)
(* appendDurableBuildLog.                                                  *)
(***************************************************************************)
WritesThrough(b) ==
    b.delay = 0 /\ (b.flushed # "recent" \/ Len(b.buffer) >= BatchLines)

LogLine ==
    /\ logRun \in {"work", "retryLines"}
    /\ emitted < MaxLines
    /\ emitted' = emitted + 1
    /\ LET b == [(IF batch = NoBatch THEN NewBatch ELSE batch)
                    EXCEPT !.buffer = Append(@, emitted + 1)]
       IN  IF WritesThrough(b)
           THEN FlushLocked(b, FALSE)
           ELSE /\ batch' = [b EXCEPT !.timer = IF @ = "none" THEN "armed" ELSE @]
                /\ UNCHANGED <<stored, trimmed>>
    /\ UNCHANGED <<logRun, callbacks>>

\* The flush interval passes without a write.
FlushIntervalPasses ==
    /\ batch.flushed = "recent"
    /\ batch' = [batch EXCEPT !.flushed = "old"]
    /\ UNCHANGED <<logRun, emitted, callbacks, stored, trimmed>>

\* batch.timer stays set until somebody flushes: Stop comes too late for it.
FireTimer ==
    /\ batch.timer = "armed"
    /\ batch' = [batch EXCEPT !.timer = "fired"]
    /\ callbacks' = callbacks + 1
    /\ UNCHANGED <<logRun, emitted, stored, trimmed>>

RunCallback ==
    /\ callbacks > 0
    /\ callbacks' = callbacks - 1
    /\ FlushDurableBuildLog(FALSE)
    /\ UNCHANGED <<logRun, emitted>>

(***************************************************************************)
(* The end of run() and fail(): flush, write the status, announce it.      *)
(***************************************************************************)
FlushTail ==
    /\ \/ logRun = "work" /\ logRun' = "flush"
       \/ logRun = "retryLines" /\ logRun' = "flushAgain"
    /\ FlushDurableBuildLog(TRUE)
    /\ UNCHANGED <<emitted, callbacks>>

FinishLoggedBuild ==
    /\ logRun = "flush" /\ logRun' \in {"retryLines", "announce"}
    /\ UNCHANGED <<emitted, batch, callbacks, stored, trimmed>>

\* broadcastStatus flushes once more before it publishes a terminal status.
AnnounceStatus ==
    /\ logRun \in {"flushAgain", "announce"}
    /\ logRun' = "done"
    /\ FlushDurableBuildLog(TRUE)
    /\ UNCHANGED <<emitted, callbacks>>

\* PurgeExpiredBuildLogs, days after the build finished.
PurgeExpiredBuildLog ==
    /\ logRun = "done"
    /\ stored \notin {<<>>, <<0>>}
    /\ stored' = <<0>>
    /\ trimmed' = FALSE
    /\ UNCHANGED <<logRun, emitted, batch, callbacks>>

LogNext ==
    \/ LogLine \/ FlushIntervalPasses \/ FireTimer \/ RunCallback
    \/ FlushTail \/ FinishLoggedBuild \/ AnnounceStatus \/ PurgeExpiredBuildLog

LogSpec == LogInit /\ [][LogNext]_logVars

\* Timers fire, goroutines run, the run goes on and SQLite does not reject a
\* write for ever.
LogFairness ==
    /\ WF_logVars(FireTimer)
    /\ WF_logVars(RunCallback)
    /\ SF_logVars(RunCallback /\ batch' = Accepted(batch))
    /\ WF_logVars(FlushTail \/ FinishLoggedBuild \/ AnnounceStatus)

-----------------------------------------------------------------------------
(***************************************************************************)
(* Properties                                                              *)
(***************************************************************************)

\* What the database holds followed by what the batch holds are consecutive lines
\* up to the newest one: rejected writes, size, timer and terminal flushes racing
\* for one batch never lose, duplicate or reorder a line, and retention drops old
\* lines only.
LogIsContiguous ==
    LET expired == stored # <<>> /\ Head(stored) = 0
        log == (IF expired THEN Tail(stored) ELSE stored) \o batch.buffer
    IN  /\ \A i \in DOMAIN log : log[i] = emitted - Len(log) + i
        /\ trimmed \/ expired \/ Len(log) = emitted

\* A terminal status is announced after the tail was handed to SQLite: a batch is
\* left over only when SQLite rejected it, and then it deletes itself later.
NoLeakedBatch ==
    logRun = "done" => batch = NoBatch \/ (batch.delay > 0 /\ batch.terminal)

\* Every logged line reaches the database in the end.
LinesReachDatabase == batch.buffer # <<>> ~> batch.buffer = <<>>

\* However flushes, failures of SQLite, retention and deletion interleave, the log of a
\* build is complete and in order, in memory and then in the database.
LogReachesDatabase ==
    /\ []LogIsContiguous
    /\ []NoLeakedBatch
    /\ LinesReachDatabase
=============================================================================
