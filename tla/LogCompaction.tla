--------------------------- MODULE LogCompaction ---------------------------
(***************************************************************************)
(* The log of one Bazel invocation, from the snippets that the recorder    *)
(* writes to the chunks that the portal serves.                            *)
(*                                                                         *)
(* The recorder inserts the text of each progress event as a snippet.  The *)
(* cleanup service locks the invocation when no event has come for a       *)
(* while, sets the time at which it ended, merges the snippets into chunks *)
(* (normalizeInvocation), deletes the snippets, and one day deletes the    *)
(* invocation with everything that belongs to it.  Every replica of the    *)
(* portal runs a cleanup service of its own, so that two of them may work  *)
(* on the same invocation.  Module ServeLog is about reading the log.       *)
(*                                                                         *)
(* Each SQL statement is a step; only the recorder uses transactions.  A   *)
(* snippet is known by its number, text is not modelled: module LogLines   *)
(* is about the text.                                                      *)
(***************************************************************************)
EXTENDS Naturals, Sequences, FiniteSets

CONSTANTS
  Cleaners,    \* cleanup services, one in each replica
  N,           \* bound: snippets of the log
  Blank,       \* snippets that the normalization removes altogether
  ChunkSize,   \* how many snippets fill a chunk
  Pages,       \* pages of the table of snippets, one of which a tick visits
  MaxFaults    \* bound: how often a call of the database fails or a cleaner crashes

ASSUME CompactionAssumption ==
  /\ N \in Nat /\ Blank \subseteq 1..N
  /\ ChunkSize \in Nat \ {0} /\ Pages \in Nat \ {0}
  /\ MaxFaults \in Nat

VARIABLES
  exists,      \* the invocation is in the database
  completed,   \* its column bep_completed
  endedAt,     \* its column ended_at
  received,    \* snippets 1..received have been committed
  finished,    \* the BuildFinished event has been committed
  recent,      \* event_received_at is not older than the message timeout
  old,         \* created_timestamp is older than the retention
  snippets,    \* rows of incomplete_build_logs
  chunks,      \* rows of build_log_chunks, in the order of chunk_index
  tx,          \* what the open transaction of the recorder inserts
  cpc,         \* the task that cleaner c has reached in its tick
  page,        \* the page of the snippets that it visits in this tick
  logs,        \* the snippets that its normalizeInvocation has read
  failed,      \* its normalizeInvocation has just returned an error
  faults       \* used up of MaxFaults

rowVars == <<exists, completed, endedAt>>
eventVars == <<received, finished, recent, old>>
logVars == <<snippets, chunks>>
cleanerVars == <<cpc, page, logs, failed>>
vars == <<rowVars, eventVars, logVars, tx, cleanerVars, faults>>

\* Times: the n-th event is received at n, the other two are columns' values.
LastEvent == received + IF finished THEN 1 ELSE 0
FinishTime == N + 2
Null == N + 3

Tasks == {"idle", "stale", "lock", "ended", "compact", "read", "insert", "check",
          "remove", "old"}

TypeOK ==
  /\ {exists, completed, finished, recent, old} \subseteq BOOLEAN
  /\ endedAt \in 0..Null
  /\ received \in 0..N
  /\ snippets \subseteq 1..N
  /\ chunks \in Seq(SUBSET (1..N))
  /\ tx \in {"none", "log", "finish"}
  /\ cpc \in [Cleaners -> Tasks]
  /\ page \in [Cleaners -> 0..(Pages - 1)]
  /\ logs \in [Cleaners -> SUBSET (1..N)]
  /\ failed \in [Cleaners -> BOOLEAN]
  /\ faults \in 0..MaxFaults

Init ==
  /\ exists = TRUE /\ completed = FALSE /\ endedAt = Null
  /\ received = 0 /\ finished = FALSE /\ recent = TRUE /\ old = FALSE
  /\ snippets = {} /\ chunks = <<>>
  /\ tx = "none"
  /\ cpc = [c \in Cleaners |-> "idle"]
  /\ page \in [Cleaners -> 0..(Pages - 1)]
  /\ logs = [c \in Cleaners |-> {}]
  /\ failed = [c \in Cleaners |-> FALSE]
  /\ faults = 0

-----------------------------------------------------------------------------
(* The recorder, see EventRecorder.                                        *)

\* A transaction begins with the shared lock on the invocation.
Begin(what) ==
  /\ tx = "none"
  /\ exists /\ ~completed
  /\ what = "log" => received < N
  /\ what = "finish" => ~finished
  /\ tx' = what
  /\ UNCHANGED <<rowVars, eventVars, logVars, cleanerVars, faults>>

Commit ==
  /\ tx # "none"
  /\ tx' = "none"
  /\ recent' = TRUE
  /\ IF tx = "log"
     THEN /\ received' = received + 1
          /\ snippets' = snippets \cup {received + 1}
          /\ UNCHANGED <<finished, endedAt>>
     ELSE /\ finished' = TRUE
          /\ endedAt' = FinishTime
          /\ UNCHANGED <<received, snippets>>
  /\ UNCHANGED <<exists, completed, old, chunks, cleanerVars, faults>>

Rollback ==
  /\ tx # "none"
  /\ tx' = "none"
  /\ UNCHANGED <<rowVars, eventVars, logVars, cleanerVars, faults>>

\* Time goes by: the last event, and the invocation, grow old.
Wait ==
  /\ \/ recent /\ recent' = FALSE /\ UNCHANGED old
     \/ ~old /\ old' = TRUE /\ UNCHANGED recent
  /\ UNCHANGED <<rowVars, received, finished, logVars, tx, cleanerVars, faults>>

-----------------------------------------------------------------------------
(* The tasks of performCleanup that are about the log, in their order.     *)

Goto(c, task) == cpc' = [cpc EXCEPT ![c] = task]

\* Mutant: the counter is not taken modulo the number of pages.
TickUnwrapped(c) ==
  /\ cpc[c] = "idle"
  /\ page' = [page EXCEPT ![c] = @ + 1]
  /\ Goto(c, "stale")
  /\ UNCHANGED <<rowVars, eventVars, logVars, tx, logs, failed, faults>>

\* Mutant: every tick visits the same page.
TickSamePage(c) ==
  /\ cpc[c] = "idle"
  /\ Goto(c, "stale")
  /\ UNCHANGED <<rowVars, eventVars, logVars, tx, page, logs, failed, faults>>

\* A new tick, which visits the next page.
Tick(c) ==
  /\ cpc[c] = "idle"
  /\ page' = [page EXCEPT ![c] = (@ + 1) % Pages]
  /\ Goto(c, "stale")
  /\ UNCHANGED <<rowVars, eventVars, logVars, tx, logs, failed, faults>>

\* LockStaleInvocations is an UPDATE of the rows that a subquery finds and locks.
\* The subquery looks at event_metadata as it was when the statement began ...
FindStale(c) ==
  /\ cpc[c] = "stale"
  /\ Goto(c, IF exists /\ ~completed /\ ~recent THEN "lock" ELSE "ended")
  /\ UNCHANGED <<rowVars, eventVars, logVars, tx, page, logs, failed, faults>>

\* ... and locks a row when it comes to it, unless somebody else has locked it.
LockStale(c) ==
  /\ cpc[c] = "lock"
  /\ completed' = (completed \/ (exists /\ tx = "none"))
  /\ Goto(c, "ended")
  /\ UNCHANGED <<exists, endedAt, eventVars, logVars, tx, page, logs, failed, faults>>

\* Mutant: invocations that may still get events have an end.
UpdateEndedAtEarly(c) ==
  /\ cpc[c] = "ended"
  /\ endedAt' = IF exists /\ endedAt = Null THEN LastEvent ELSE endedAt
  /\ Goto(c, "compact")
  /\ UNCHANGED <<exists, completed, eventVars, logVars, tx, page, logs, failed, faults>>

\* UpdateInvocationEndedAtFromEvents
UpdateEndedAt(c) ==
  /\ cpc[c] = "ended"
  /\ endedAt' = IF exists /\ completed /\ endedAt = Null THEN LastEvent ELSE endedAt
  /\ Goto(c, "compact")
  /\ UNCHANGED <<exists, completed, eventVars, logVars, tx, page, logs, failed, faults>>

\* The invocation waits for its log to be merged.
NeedsCompaction == exists /\ completed /\ snippets # {} /\ chunks = <<>>

\* CompactLogs queries the invocations whose logs it will merge.
Compact(c) ==
  /\ cpc[c] = "compact"
  /\ Goto(c, IF NeedsCompaction THEN "read" ELSE "remove")
  /\ UNCHANGED <<rowVars, eventVars, logVars, tx, page, logs, failed, faults>>

\* GetNormalizedIncompleteBuildLogs, in a statement of its own.
ReadLogs(c) ==
  /\ cpc[c] = "read"
  /\ logs' = [logs EXCEPT ![c] = snippets \ Blank]
  /\ Goto(c, "insert")
  /\ UNCHANGED <<rowVars, eventVars, logVars, tx, page, failed, faults>>

\* The chunks of a log: all of them are full, except the last.
Rank(log, s) == Cardinality({t \in log : t <= s})
ChunkOf(log, s) == (Rank(log, s) - 1) \div ChunkSize + 1
ChunksOf(log) ==
  LET count == (Cardinality(log) + ChunkSize - 1) \div ChunkSize
  IN [i \in 1..count |-> {s \in log : ChunkOf(log, s) = i}]

\* Inserting chunks needs the invocation, and chunk indices that are free.
InsertableChunks(new) == exists /\ (new = <<>> \/ chunks = <<>>)

\* Mutant: there is no unique index, the chunks replace what is there.
InsertChunksAgain(c) ==
  /\ cpc[c] = "insert"
  /\ LET new == ChunksOf(logs[c]) IN
       /\ chunks' = IF exists /\ new # <<>> THEN new ELSE chunks
       /\ Goto(c, "remove")
  /\ logs' = [logs EXCEPT ![c] = {}]
  /\ UNCHANGED <<rowVars, eventVars, snippets, tx, page, failed, faults>>

\* All chunks are inserted by one statement.  An empty log has no chunks.
InsertChunks(c) ==
  /\ cpc[c] = "insert"
  /\ LET new == ChunksOf(logs[c]) IN
       IF new = <<>> \/ InsertableChunks(new)
       THEN /\ chunks' = IF new = <<>> THEN chunks ELSE new
            /\ Goto(c, "remove")
       ELSE Goto(c, "check") /\ UNCHANGED chunks
  /\ logs' = [logs EXCEPT ![c] = {}]
  /\ UNCHANGED <<rowVars, eventVars, snippets, tx, page, failed, faults>>

\* After an insert that failed: the error is dropped if the query says that the
\* invocation was already normalized.
CheckNormalized(c) ==
  /\ cpc[c] = "check"
  /\ LET alreadyNormalized == NeedsCompaction IN
       failed' = [failed EXCEPT ![c] = ~alreadyNormalized]
  /\ Goto(c, "remove")
  /\ UNCHANGED <<rowVars, eventVars, logVars, tx, page, logs, faults>>

\* Mutant: snippets are deleted although there are no chunks.
RemoveIncompleteLogsAnyway(c) ==
  /\ cpc[c] = "remove"
  /\ snippets' = IF completed THEN {s \in snippets : s % Pages # page[c]} ELSE snippets
  /\ Goto(c, "old")
  /\ failed' = [failed EXCEPT ![c] = FALSE]
  /\ UNCHANGED <<rowVars, eventVars, chunks, tx, page, logs, faults>>

\* RemoveIncompleteLogs deletes the snippets of this tick's page.
RemoveIncompleteLogs(c) ==
  /\ cpc[c] = "remove"
  /\ snippets' = IF completed /\ chunks # <<>>
                 THEN {s \in snippets : s % Pages # page[c]} ELSE snippets
  /\ Goto(c, "old")
  /\ failed' = [failed EXCEPT ![c] = FALSE]
  /\ UNCHANGED <<rowVars, eventVars, chunks, tx, page, logs, faults>>

\* RemoveOldInvocations: what refers to the invocation goes with it.
RemoveOldInvocation(c) ==
  /\ cpc[c] = "old"
  /\ IF old /\ completed /\ tx = "none"
     THEN exists' = FALSE /\ snippets' = {} /\ chunks' = <<>>
     ELSE UNCHANGED <<exists, snippets, chunks>>
  /\ Goto(c, "idle")
  /\ UNCHANGED <<completed, endedAt, eventVars, tx, page, logs, failed, faults>>

Cleaner(c) ==
  \/ Tick(c) \/ FindStale(c) \/ LockStale(c) \/ UpdateEndedAt(c)
  \/ Compact(c) \/ ReadLogs(c) \/ InsertChunks(c) \/ CheckNormalized(c)
  \/ RemoveIncompleteLogs(c) \/ RemoveOldInvocation(c)

Fault == faults < MaxFaults /\ faults' = faults + 1

\* A statement fails: the error is logged, and the tick goes on with the task
\* that is next.
NextTask ==
  [stale |-> "ended", lock |-> "ended", ended |-> "compact", compact |-> "remove",
   read |-> "remove", insert |-> "check", check |-> "remove", remove |-> "old",
   old |-> "idle"]
StatementFails(c) ==
  /\ Fault
  /\ cpc[c] # "idle"
  /\ Goto(c, NextTask[cpc[c]])
  /\ failed' = [failed EXCEPT ![c] = cpc[c] \in {"read", "check"}]
  /\ logs' = [logs EXCEPT ![c] = {}]
  /\ UNCHANGED <<rowVars, eventVars, logVars, tx, page>>

\* A replica is restarted, its counter with a random value.
Crash(c) ==
  /\ Fault
  /\ Goto(c, "idle")
  /\ \E p \in 0..(Pages - 1) : page' = [page EXCEPT ![c] = p]
  /\ logs' = [logs EXCEPT ![c] = {}]
  /\ failed' = [failed EXCEPT ![c] = FALSE]
  /\ UNCHANGED <<rowVars, eventVars, logVars, tx>>

-----------------------------------------------------------------------------

Next ==
  \/ Begin("log") \/ Begin("finish") \/ Commit \/ Rollback \/ Wait
  \/ \E c \in Cleaners : Cleaner(c) \/ StatementFails(c) \/ Crash(c)

Spec == Init /\ [][Next]_vars

\* Each cleaner runs tick after tick.
Fairness == \A c \in Cleaners : WF_vars(Cleaner(c))
FairSpec == Spec /\ Fairness

-----------------------------------------------------------------------------
(* Properties.                                                             *)

Text == (1..received) \ Blank

\* Chunks hold the whole log, each snippet in one chunk and in order, even when
\* they are made from what another cleaner has begun to delete: such chunks are
\* never inserted.
ChunksAreTheWholeLog ==
  chunks # <<>> =>
    /\ UNION {chunks[i] : i \in DOMAIN chunks} = Text
    /\ \A i, j \in DOMAIN chunks : i < j =>
         \A s \in chunks[i], t \in chunks[j] : s < t

\* As long as the invocation exists, no text of its log is missing from both
\* tables.
LogIsKept ==
  exists /\ chunks = <<>> => Text \subseteq snippets

\* A build that has reported its end ended then; any other ended at its last
\* event, however long after the cleanup service noticed.
EndedAtIsRight ==
  endedAt # Null => endedAt = IF finished THEN FinishTime ELSE LastEvent

\* The log of a locked invocation is merged and its snippets deleted, or the
\* invocation is, whatever two cleaners do at the same time; unless nothing is left of
\* the log when it is normalized.
SnippetsAreRemoved ==
  completed /\ Text # {} ~> snippets = {}

\* A cleaner whose insert failed because the invocation was already normalized
\* ignores the error.
AlreadyNormalizedIsNoError ==
  [][\A c \in Cleaners :
       cpc[c] = "check" /\ cpc'[c] = "remove" /\ exists /\ chunks # <<>> /\ faults' = faults
       => ~failed'[c]]_vars
=============================================================================
