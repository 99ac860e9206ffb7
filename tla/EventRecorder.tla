--------------------------- MODULE EventRecorder ---------------------------
(***************************************************************************)
(* Recording the build events of one Bazel invocation.                     *)
(*                                                                         *)
(* Several buildEventRecorders work on the same invocation at the same     *)
(* time: the stream of a build tool that lost its connection and has       *)
(* opened another while the server still works for the first, or the       *)
(* upload of the invocation's BEP file.  A call of SaveBatch saves a batch *)
(* in up to seven transactions, one for each kind of event.  Each locks    *)
(* the invocation against completion (SELECT ... FOR SHARE), inserts rows, *)
(* and updates the row of event_metadata: the set of handled sequence      *)
(* numbers, under an optimistic version.  A failed transaction is rolled   *)
(* back; the recorder reloads the handled set and starts over.             *)
(*                                                                         *)
(* The database is PostgreSQL at READ COMMITTED: what a transaction writes *)
(* becomes visible when it commits, a row that another transaction has     *)
(* updated is waited for, and a cycle of waiting transactions is broken    *)
(* by aborting one of them.                                                *)
(***************************************************************************)
EXTENDS Naturals

CONSTANTS
  Recorders,     \* recorders that may be alive at the same time
  N,             \* events of the invocation, by sequence number 1..N
  Kind,          \* Kind[s]: what event s is
  Requires,      \* Requires[s]: events whose rows must exist or saving s fails
  JoinsOn,       \* JoinsOn[s]: events whose rows s's own row is joined from
  SaveTargets,   \* save data level: TRUE is BasicAndTarget, FALSE is Basic
  MaxConnects,   \* bound: how often the client opens a stream or an upload
  MaxFaults      \* bound: how often a database call fails for outside reasons

Seqs == 1..N

\* The kinds of events the code tells apart.  "none" is a message that holds
\* no Bazel event; "notConfigured" is a TargetConfigured event without its
\* payload; "invocation" stands for the remaining events that update the row
\* of the invocation itself (Started, Fetch, BuildFinished, ...) and "detail"
\* for the remaining events that do not.
Kinds == {"none", "progress", "configuration", "targetConfigured", "notConfigured",
          "targetCompleted", "testResult", "testSummary", "invocation", "detail"}

Remaining == 7

\* Mutant: targets completed are saved before the configurations.
SubBatchesSwapped ==
  [none |-> 0, notConfigured |-> 0, progress |-> 1, configuration |-> 4,
   targetConfigured |-> 2, targetCompleted |-> 3, testResult |-> 5, testSummary |-> 6,
   invocation |-> Remaining, detail |-> Remaining]

\* Number of the sub-batch, in the order of saveBatch, that saves a kind of
\* event at this save data level; 0 when none does.
SubBatchOfKind ==
  [none |-> 0, notConfigured |-> 0, progress |-> 1, configuration |-> 2,
   targetConfigured |-> IF SaveTargets THEN 3 ELSE 0,
   targetCompleted  |-> IF SaveTargets THEN 4 ELSE 0,
   testResult       |-> IF SaveTargets THEN 5 ELSE 0,
   testSummary      |-> IF SaveTargets THEN 6 ELSE 0,
   invocation |-> Remaining, detail |-> Remaining]
SubBatchOf(s) == SubBatchOfKind[Kind[s]]

\* Kinds whose rows a unique index keeps from being inserted twice.
UniqueKinds == {"progress", "configuration", "targetConfigured"}

\* What is acknowledged although no sub-batch ever saves it.
Droppable == {s \in Seqs : SubBatchOf(s) = 0}

\* Bazel refers to an event only after having posted it, and the rows that are
\* joined are those of configuration events, saved before any that use them.
ASSUME RecorderAssumption ==
  /\ N \in Nat
  /\ Kind \in [Seqs -> Kinds]
  /\ Requires \in [Seqs -> SUBSET Seqs]
  /\ JoinsOn \in [Seqs -> SUBSET Seqs]
  /\ SaveTargets \in BOOLEAN
  /\ MaxConnects \in Nat /\ MaxFaults \in Nat
  /\ \A s \in Seqs : \A j \in JoinsOn[s] :
        /\ j < s
        /\ Kind[j] = "configuration"
        /\ Kind[s] \in {"targetCompleted", "testResult", "testSummary"}

VARIABLES
  bepCompleted,  \* column bep_completed of the invocation
  hasMetadata,   \* the invocation has a row of event_metadata
  handled,       \* its column handled: the sequence numbers that are recorded
  version,       \* its column version
  rows,          \* rows[s]: how often the effect of event s is in the database
  pc,            \* where recorder r is
  batch,         \* events left of the batch that recorder r is saving
  next,          \* first event of recorder r's stream that it has not saved
  upto,          \* last event of the batch that recorder r is saving
  group,         \* sub-batch recorder r has reached
  bitmap,        \* r.handledEvents.bitmap, in memory
  seen,          \* r.handledEvents.version, in memory
  elapsed,       \* the requested retry time of recorder r has gone by
  acked,         \* the client has the ACKs of 1..acked
  conns, faults  \* used up of MaxConnects and MaxFaults

metaVars == <<hasMetadata, handled, version>>
dbVars == <<bepCompleted, metaVars, rows>>
envVars == <<acked, conns, faults>>
memVars == <<bitmap, seen>>
recVars == <<pc, batch, next, upto, group, memVars, elapsed>>
vars == <<dbVars, recVars, envVars>>

\* load, begin, write, commit and check are steps of SaveBatch; a recorder that
\* waits is in its sleep before a retry; ack: SaveBatch has returned nil;
\* failed: it has returned an error.
Working == {"load", "begin", "write", "commit", "check", "wait"}
InTx == {"write", "commit"}
PCs == Working \cup {"off", "idle", "ack", "failed"}

FlagsOK ==
  /\ bepCompleted \in BOOLEAN
  /\ hasMetadata \in BOOLEAN
  /\ elapsed \in [Recorders -> BOOLEAN]

DataOK ==
  /\ handled \in SUBSET Seqs
  /\ version \in Nat
  /\ rows \in [Seqs -> Nat]
  /\ pc \in [Recorders -> PCs]
  /\ batch \in [Recorders -> SUBSET Seqs]
  /\ next \in [Recorders -> 1..(N+1)]
  /\ upto \in [Recorders -> 0..N]
  /\ group \in [Recorders -> 1..Remaining]
  /\ bitmap \in [Recorders -> SUBSET Seqs]
  /\ seen \in [Recorders -> Nat]
  /\ acked \in 0..N
  /\ conns \in 0..MaxConnects
  /\ faults \in 0..MaxFaults

\* Every variable has its type: the flags, and the rest.
TypeOK == FlagsOK /\ DataOK

Init ==
  /\ bepCompleted = FALSE
  /\ hasMetadata = FALSE
  /\ handled = {}
  /\ version = 0
  /\ rows = [s \in Seqs |-> 0]
  /\ pc = [r \in Recorders |-> "off"]
  /\ batch = [r \in Recorders |-> {}]
  /\ next = [r \in Recorders |-> 1]
  /\ upto = [r \in Recorders |-> 0]
  /\ group = [r \in Recorders |-> 1]
  /\ bitmap = [r \in Recorders |-> {}]
  /\ seen = [r \in Recorders |-> 0]
  /\ elapsed = [r \in Recorders |-> FALSE]
  /\ acked = 0
  /\ conns = 0
  /\ faults = 0

Goto(r, label) == pc' = [pc EXCEPT ![r] = label]

\* The events of r's batch that sub-batch g saves.
Todo(r, g) == {s \in batch[r] : SubBatchOf(s) = g}
-----------------------------------------------------------------------------
(* Connecting: NewBuildEventRecorder and the call of SaveBatch.            *)

\* A stream starts at the first event the client has no ACK for, an upload of
\* the BEP file at the first event.  An invocation that is locked for writing
\* cannot be joined.
Connect(r) ==
  /\ pc[r] = "off"
  /\ conns < MaxConnects
  /\ ~bepCompleted
  /\ \E s \in {1, acked + 1} \cap Seqs : next' = [next EXCEPT ![r] = s]
  /\ Goto(r, "idle")
  /\ conns' = conns + 1
  /\ UNCHANGED <<dbVars, batch, upto, group, memVars, elapsed, acked, faults>>

\* SaveBatch is called with the messages received since the last batch.
SaveBatch(r) ==
  /\ pc[r] = "idle"
  /\ \E m \in next[r]..N :
       /\ upto' = [upto EXCEPT ![r] = m]
       /\ batch' = [batch EXCEPT ![r] = {s \in next[r]..m : Kind[s] # "none"}]
  /\ elapsed' = [elapsed EXCEPT ![r] = FALSE]
  /\ Goto(r, "load")
  /\ UNCHANGED <<dbVars, next, group, memVars, envVars>>

-----------------------------------------------------------------------------
(* The saving loop.                                                        *)

\* loadHandledEvents: the bitmap and version of the row, created when missing.
LoadRow(r) ==
  /\ hasMetadata' = TRUE
  /\ bitmap' = [bitmap EXCEPT ![r] = handled]
  /\ seen' = [seen EXCEPT ![r] = version]
  /\ UNCHANGED <<bepCompleted, handled, version, rows>>

\* Mutant: the batch is not filtered by what is handled.
LoadUnfiltered(r) ==
  /\ pc[r] = "load"
  /\ LoadRow(r)
  /\ group' = [group EXCEPT ![r] = 1]
  /\ Goto(r, "begin")
  /\ UNCHANGED <<batch, next, upto, elapsed, envVars>>

Load(r) ==
  /\ pc[r] = "load"
  /\ LoadRow(r)
  /\ batch' = [batch EXCEPT ![r] = @ \ handled]
  /\ group' = [group EXCEPT ![r] = 1]
  /\ Goto(r, "begin")
  /\ UNCHANGED <<next, upto, elapsed, envVars>>

\* A sub-batch without events is passed over, except that of the remaining
\* events, which is always saved.
AtSubBatch(r, g) ==
  /\ g >= group[r]
  /\ g = Remaining \/ Todo(r, g) # {}
  /\ \A h \in group[r]..(g-1) : Todo(r, h) = {}

\* A sub-batch with such an event updates the row of the invocation.
UpdatesInvocation(r) == \E s \in Todo(r, group[r]) : Kind[s] = "invocation"

\* Another transaction has updated the row of the invocation and not committed.
InvocationLocked(r) == \E q \in Recorders \ {r} : pc[q] = "commit" /\ UpdatesInvocation(q)

\* LockBazelInvocationCompletion: takes a shared lock on the row of the
\* invocation, kept until the transaction ends.
LockCompletion(r) ==
  /\ pc[r] = "begin"
  /\ ~InvocationLocked(r)
  /\ \E g \in 1..Remaining :
       /\ AtSubBatch(r, g)
       /\ group' = [group EXCEPT ![r] = g]
  /\ Goto(r, IF bepCompleted THEN "check" ELSE "write")
  /\ UNCHANGED <<dbVars, batch, next, upto, memVars, elapsed, envVars>>

\* The rows of the sub-batch can be inserted: what they refer to is there, and
\* no unique index has them already.
Insertable(r) ==
  \A s \in Todo(r, group[r]) :
    /\ \A j \in Requires[s] : rows[j] > 0
    /\ Kind[s] \in UniqueKinds => rows[s] = 0

\* Updating the row of the invocation needs it free of other shared locks.
WaitsForInvocation(r) ==
  /\ pc[r] = "write"
  /\ UpdatesInvocation(r)
  /\ \E q \in Recorders \ {r} : pc[q] \in InTx

\* Updating the row of event_metadata waits for the transaction that has.
WaitsForMetadata(r) == \E q \in Recorders \ {r} : pc[q] = "commit"

\* Mutant: the row is updated whatever its version is.
VersionUnchecked(r) == TRUE

\* UpdateEventMetadata finds the row it loaded: nobody has updated it since.
VersionMatches(r) == version = seen[r]

\* The statements of a sub-batch: its inserts and updates, then
\* saveHandledEventsForBatch.
Write(r) ==
  /\ pc[r] = "write"
  /\ Insertable(r)
  /\ ~WaitsForInvocation(r)
  /\ ~WaitsForMetadata(r)
  /\ VersionMatches(r)
  /\ bitmap' = [bitmap EXCEPT ![r] = @ \cup Todo(r, group[r])]
  /\ seen' = [seen EXCEPT ![r] = @ + 1]
  /\ Goto(r, "commit")
  /\ UNCHANGED <<dbVars, batch, next, upto, group, elapsed, envVars>>

\* The transaction is rolled back: a row cannot be inserted, or the row of
\* event_metadata has another version by now.  The bitmap in memory already
\* has the events of the sub-batch when only the version is wrong.
WriteFails(r) ==
  /\ pc[r] = "write"
  /\ \/ /\ ~Insertable(r)
        /\ UNCHANGED bitmap
     \/ /\ Insertable(r)
        /\ ~WaitsForInvocation(r)
        /\ ~WaitsForMetadata(r)
        /\ ~VersionMatches(r)
        /\ bitmap' = [bitmap EXCEPT ![r] = @ \cup Todo(r, group[r])]
  /\ Goto(r, "check")
  /\ UNCHANGED <<dbVars, batch, next, upto, group, seen, elapsed, envVars>>

\* Two transactions that share the lock on the invocation both wait to update
\* its row: the database aborts one of them.
DeadlockAbort(r) ==
  /\ WaitsForInvocation(r)
  /\ \E q \in Recorders \ {r} : WaitsForInvocation(q)
  /\ Goto(r, "check")
  /\ UNCHANGED <<dbVars, batch, next, upto, group, memVars, elapsed, envVars>>

\* What a transaction wrote becomes visible.  A row joined from rows that are
\* missing is silently not inserted.
Publish(r) ==
  /\ rows' = [s \in Seqs |-> IF s \in Todo(r, group[r]) /\ \A j \in JoinsOn[s] : rows[j] > 0
                             THEN rows[s] + 1 ELSE rows[s]]
  /\ handled' = bitmap[r]
  /\ version' = seen[r]
  /\ UNCHANGED <<bepCompleted, hasMetadata>>

\* Mutant: the batch counts as saved when its first sub-batch is.
CommitSkipsRest(r) ==
  /\ pc[r] = "commit"
  /\ Publish(r)
  /\ Goto(r, "ack")
  /\ UNCHANGED <<group, batch, next, upto, memVars, elapsed, envVars>>

Commit(r) ==
  /\ pc[r] = "commit"
  /\ Publish(r)
  /\ IF group[r] = Remaining
     THEN Goto(r, "ack") /\ UNCHANGED group
     ELSE Goto(r, "begin") /\ group' = [group EXCEPT ![r] = @ + 1]
  /\ UNCHANGED <<batch, next, upto, memVars, elapsed, envVars>>

-----------------------------------------------------------------------------
(* After a failed attempt: forward progress, retries and giving up.        *)

\* Mutant: a batch that is no shorter than before counts as forward progress.
CheckProgressUnchecked(r) ==
  /\ pc[r] = "check"
  /\ LoadRow(r)
  /\ batch' = [batch EXCEPT ![r] = @ \ handled]
  /\ elapsed' = [elapsed EXCEPT ![r] = FALSE]
  /\ Goto(r, "load")
  /\ UNCHANGED <<next, upto, group, envVars>>

\* With forward progress, that is when part of the batch is handled by now, the
\* loop starts over with the rest of the batch and a fresh retry time.
CheckProgress(r) ==
  /\ pc[r] = "check"
  /\ LoadRow(r)
  /\ IF batch[r] \cap handled # {}
     THEN /\ batch' = [batch EXCEPT ![r] = @ \ handled]
          /\ elapsed' = [elapsed EXCEPT ![r] = FALSE]
          /\ Goto(r, "load")
     ELSE /\ Goto(r, "wait")
          /\ UNCHANGED <<batch, elapsed>>
  /\ UNCHANGED <<next, upto, group, envVars>>

\* NewBuildEventRecorder is given a retry time, but the recorder it returns
\* has the zero value in this field.
batchRetryTimeout == 0

\* retryCtx.Done() is ready.
RetryCtxDone(r) == batchRetryTimeout = 0 \/ elapsed[r]

\* The retry time that was asked for goes by.  Only observed in the sleep.
Elapse(r) ==
  /\ pc[r] = "wait"
  /\ ~elapsed[r]
  /\ elapsed' = [elapsed EXCEPT ![r] = TRUE]
  /\ UNCHANGED <<dbVars, pc, batch, next, upto, group, memVars, envVars>>

\* The sleep is over first.  When both channels are ready, select takes either.
Retry(r) ==
  /\ pc[r] = "wait"
  /\ Goto(r, "load")
  /\ UNCHANGED <<dbVars, batch, next, upto, group, memVars, elapsed, envVars>>

\* SaveBatch returns the errors.
GiveUp(r) ==
  /\ pc[r] = "wait"
  /\ RetryCtxDone(r)
  /\ Goto(r, "failed")
  /\ UNCHANGED <<dbVars, batch, next, upto, group, memVars, elapsed, envVars>>

\* Mutant: the next batch leaves out an event.
AckSkipsOne(r) ==
  /\ pc[r] = "ack"
  /\ acked' = IF upto[r] > acked THEN upto[r] ELSE acked
  /\ next' = [next EXCEPT ![r] = upto[r] + 2]
  /\ batch' = [batch EXCEPT ![r] = {}]
  /\ group' = [group EXCEPT ![r] = 1]
  /\ elapsed' = [elapsed EXCEPT ![r] = FALSE]
  /\ Goto(r, "idle")
  /\ UNCHANGED <<dbVars, upto, memVars, conns, faults>>

\* SaveBatch has returned nil, its variables are gone: the client gets the ACKs
\* of the whole batch.
Ack(r) ==
  /\ pc[r] = "ack"
  /\ acked' = IF upto[r] > acked THEN upto[r] ELSE acked
  /\ next' = [next EXCEPT ![r] = upto[r] + 1]
  /\ batch' = [batch EXCEPT ![r] = {}]
  /\ group' = [group EXCEPT ![r] = 1]
  /\ elapsed' = [elapsed EXCEPT ![r] = FALSE]
  /\ Goto(r, "idle")
  /\ UNCHANGED <<dbVars, upto, memVars, conns, faults>>

-----------------------------------------------------------------------------
(* What the environment does.                                              *)

Fault == faults < MaxFaults /\ faults' = faults + 1

\* A database call of SaveBatch fails; the transaction is rolled back.
TransientFault(r) ==
  /\ Fault
  /\ \/ pc[r] \in {"begin", "write", "commit"} /\ Goto(r, "check") /\ UNCHANGED bitmap
     \/ /\ pc[r] \in {"load", "check"}
        /\ bitmap' = [bitmap EXCEPT ![r] = {}]
        /\ Goto(r, IF pc[r] = "load" THEN "check" ELSE "wait")
  /\ UNCHANGED <<dbVars, batch, next, upto, group, seen, elapsed, acked, conns>>

\* COMMIT takes effect in the database, but the answer is lost.
CommitAnswerLost(r) ==
  /\ Fault
  /\ pc[r] = "commit"
  /\ Publish(r)
  /\ Goto(r, "check")
  /\ UNCHANGED <<batch, next, upto, group, memVars, elapsed, acked, conns>>

\* The stream ends, breaks or times out, or the server crashes: a transaction
\* that is open is rolled back, ACKs that are not sent are lost, and so is the
\* recorder.
Disconnect(r) ==
  /\ pc[r] # "off"
  /\ Goto(r, "off")
  /\ batch' = [batch EXCEPT ![r] = {}]
  /\ next' = [next EXCEPT ![r] = 1]
  /\ upto' = [upto EXCEPT ![r] = 0]
  /\ group' = [group EXCEPT ![r] = 1]
  /\ bitmap' = [bitmap EXCEPT ![r] = {}]
  /\ seen' = [seen EXCEPT ![r] = 0]
  /\ elapsed' = [elapsed EXCEPT ![r] = FALSE]
  /\ UNCHANGED <<dbVars, envVars>>

\* Mutant: the row is locked although transactions hold it.
LockInvocationAnyway ==
  /\ ~bepCompleted
  /\ hasMetadata
  /\ bepCompleted' = TRUE
  /\ UNCHANGED <<metaVars, rows, recVars, envVars>>

\* The cleanup service locks the invocation when its last event is old; a row
\* that a transaction has locked is skipped.
LockInvocation ==
  /\ ~bepCompleted
  /\ hasMetadata
  /\ \A r \in Recorders : pc[r] \notin InTx
  /\ bepCompleted' = TRUE
  /\ UNCHANGED <<metaVars, rows, recVars, envVars>>

-----------------------------------------------------------------------------

\* The steps a recorder takes by itself in a call of SaveBatch.
Step(r) ==
  \/ Load(r) \/ LockCompletion(r) \/ Write(r) \/ WriteFails(r) \/ DeadlockAbort(r)
  \/ Commit(r) \/ CheckProgress(r) \/ GiveUp(r) \/ Ack(r)

Next ==
  \/ \E r \in Recorders :
       \/ Step(r)
       \/ Connect(r) \/ SaveBatch(r)
       \/ Retry(r) \/ Elapse(r)
       \/ TransientFault(r) \/ CommitAnswerLost(r) \/ Disconnect(r)
  \/ LockInvocation

Spec == Init /\ [][Next]_vars

\* The server's goroutines run, and select picks at random among the channels
\* that are ready, so that a loop that may give up again and again does.
Fairness == \A r \in Recorders : WF_vars(Step(r)) /\ SF_vars(GiveUp(r))
FairSpec == Spec /\ Fairness

-----------------------------------------------------------------------------
(* Properties.                                                             *)

\* Every event is applied exactly once: its effect is in the database, once,
\* if and only if its sequence number is recorded as handled.  Neither a
\* resent event, nor two recorders with the same batch, nor a rollback after
\* part of the sub-batches, nor a commit whose answer is lost applies an event
\* twice or loses one that is marked as handled.
ExactlyOnce ==
  \A s \in Seqs : rows[s] = IF s \in handled THEN 1 ELSE 0

\* The client drops an event once it has its ACK, so each acknowledged event is
\* recorded, unless the service never records such an event.
AckedIsRecorded == 1..acked \subseteq handled \cup Droppable

\* A row that is joined from the rows of other events never comes out missing:
\* those events are recorded before.
JoinsAreComplete ==
  \A s \in handled : \A j \in JoinsOn[s] : rows[j] > 0

\* What is recorded as handled stays recorded: no recorder writes back a set of
\* handled events that lacks what another recorder has added, and every change
\* of the set is a new version of the row.
HandledIsNeverForgotten ==
  [][/\ handled \subseteq handled'
     /\ handled # handled' => version' > version]_metaVars

\* Once the cleanup service has locked the invocation, no transaction that was
\* on its way adds rows or handled events.
NothingAfterCompletion ==
  [][bepCompleted => bepCompleted' /\ rows' = rows /\ handled' = handled]_dbVars

\* A call of SaveBatch returns, whatever the database and the other recorders
\* do: it does not retry for ever nor wait for a lock for ever.
SaveBatchReturns ==
  \A r \in Recorders : pc[r] \in Working ~> pc[r] \notin Working

\* SaveBatch sleeps and retries while there is no forward progress: it returns
\* an error only after the retry time that NewBuildEventRecorder was given.
RetriesUntilTimeout ==
  [][\A r \in Recorders : pc[r] = "wait" /\ pc'[r] = "failed" => elapsed[r]]_vars

\* The recorder implements the abstract event log.
Log == INSTANCE EventLog WITH recorded <- handled, applied <- rows,
                              closed <- bepCompleted
ImplementsLog == Log!Spec
=============================================================================
